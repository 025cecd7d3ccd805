SPECIFICATION FairSpec
CONSTANTS
    Tasks = {t1, t2, t3}
    MaxSlots = 2
    MaxProgress = 1
INVARIANTS
    TypeOK
    GroupsEndSettled
    NoEventLost
PROPERTY
    GroupEnds
