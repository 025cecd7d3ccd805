SPECIFICATION FairSpec
CONSTANTS
    main = main
    sub = sub
    task = task
    read = read
    probe = probe
    Turns = {main, sub}
    Main = main
    CallsOf <- MCCallsOf
    Subagent <- MCSubagent
    MaxSlots = 1
    MaxSteps = 2
    MaxRetries = 1
    MaxTexts <- MCMaxTexts
PROPERTIES
    SlotWaitEnds
CHECK_DEADLOCK FALSE
