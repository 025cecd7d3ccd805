SPECIFICATION BatchSpec
CONSTANTS
    Runs <- MCRuns
    CategoryOf <- MCCategoryOf
    MaxTotal = 2
    MaxRead = 2
    MaxSearch = 1
    Others <- MCOthers
    Asked <- MCAsked
    ToolOf <- MCToolOf
    KeyOf <- MCKeyOf
    Finds <- MCFinds
INVARIANTS
    SlotsAreUsed
    EvidenceIsReachable
PROPERTIES
    FirstComeFirstServed
    AdvisoriesAreTrue
    EveryBatchEnds
