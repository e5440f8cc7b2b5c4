SPECIFICATION TFairSpec
CONSTANTS
    Configs <- Invocations
    Pcts <- AnyPercent
    Word = 65536
    MaxCalls = 1
    BufSize = 2
    MaxFd = 16
    MaxErrors = 0
INVARIANTS
    OwnSource
    FindsStdin
    DescriptorsGoBack
    StopsWithinBuffer
PROPERTIES
    CopiesInSequence
    Terminates
CHECK_DEADLOCK FALSE
