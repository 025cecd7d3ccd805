SPECIFICATION Spec
CONSTANTS
    NoSession = NoSession
    Processes = {p1, p2}
    Sessions = {s1, s2}
    MaxTurns = 2
    MaxFaults = 1
SYMMETRY MCSymmetry
INVARIANTS
    RestartTellsTheSameStory
    EntriesStayInTheirSession
