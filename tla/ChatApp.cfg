SPECIFICATION FairSpec
CHECK_DEADLOCK FALSE
CONSTANTS
    Sessions = {"s1", "s2"}
    MaxDepth = 2
    MaxPrompts = 2
INVARIANTS
    PromptsKeepTheirOrder
    FlagsTellTheTruth
    AutomaticTurnsAreCapped
PROPERTIES
    SessionStaysDuringWork
    InterruptionIsConfirmed
    WorkSettles
