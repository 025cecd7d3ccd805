SPECIFICATION Spec
CONSTANTS
    Turns = {"t1"}
    Calls = {}
    CallEvent = 0
    MaxEvents = 1
    Lists = {}
    TooLong = {}
CHECK_DEADLOCK FALSE
INVARIANT CancelledTurnIsAborted
