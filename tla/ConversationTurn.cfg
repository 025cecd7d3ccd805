SPECIFICATION FairSpec
CONSTANTS
    auto = auto
    ask = ask
    forbidden = forbidden
    NoCall = NoCall
    Calls = {ask, forbidden}
    Gate <- MCGate
    MaxTurns = 2
    MaxCompactions = 1
INVARIANTS
    HistoryIsInOrder
    FinishedTurnsAnswerTheirCalls
    RequestsTellTheStory
    ApprovalGate
    CompactionSeesWholeHistory
PROPERTIES
    OnlyRecoveryDropsEntries
    ReadAheadIsHandled
    ImplementsConversationSession
    OnlyAnApprovalHoldsATurn
