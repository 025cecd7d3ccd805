SPECIFICATION FairSpec
CONSTANTS
    main = main
    sub = sub
    task = task
    read = read
    probe = probe
    Turns = {main, sub}
    Main = main
    CallsOf <- MCCallsOf
    Subagent <- MCSubagent
    MaxSlots = 2
    MaxSteps = 2
    MaxRetries = 1
    MaxTexts <- MCMaxTexts
INVARIANTS
    SlotsAreHandedOn
    RequestsAnswerTheirCalls
    UsageCountsEveryStep
PROPERTIES
    TurnsEnd
CHECK_DEADLOCK FALSE
