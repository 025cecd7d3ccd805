SPECIFICATION RelayFairSpec
CONSTANTS
    KindOf <- Kinds
    Turns = {1, 2}
    NamesIn <- Names
    MaxLength = 3
    MaxTimers = 2
    MaxFailures = 1
    MaxHelp = 1
CHECK_DEADLOCK FALSE
INVARIANTS
    CoalescingIsInvisible
    ScreenShowsTheChat
    FinishedTurnsAreClosed
PROPERTIES
    FinishedTurnsStay
    EventsAreShown
