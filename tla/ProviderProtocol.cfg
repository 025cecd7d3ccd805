SPECIFICATION MCSpec
CONSTANTS
    Turns = {"t1"}
    Calls = {"c1"}
    CallEvent = 1
    MaxEvents = 2
    Lists = {"l1"}
    TooLong = {"start"}
CHECK_DEADLOCK FALSE
INVARIANTS
    RequestsStayAnswerable
    AcknowledgedResultsArrive
PROPERTIES
    StreamsLikeAProvider
    NothingIsLeftRunning
    ListEnds
