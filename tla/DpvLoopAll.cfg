SPECIFICATION FairSpec
CONSTANTS
    Configs <- LoopConfigs
    Pcts <- AnyPct
    Word = 65536
    MaxCalls = 2
INVARIANTS
    TypeOK
    PageShowsCurrent
    SuccessMeansAllEnded
    FullAtSuccess
PROPERTIES
    NoFileAfterAbort
    GaugeNeverBack
    InterruptReturns
    TestModeEnds
CHECK_DEADLOCK FALSE
