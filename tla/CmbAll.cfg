SPECIFICATION FairSpec
CONSTANTS
    Configs <- SmallConfigs
    Nonzero = {1}
INVARIANTS
    TypeOK
    WithinCount
    CountAgrees
PROPERTIES
    GivesSlice
    NextInOrder
CHECK_DEADLOCK FALSE
