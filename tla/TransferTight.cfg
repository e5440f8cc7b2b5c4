SPECIFICATION TSpec
CONSTANTS
    Configs <- TightInvocations
    Pcts <- AnyPercent
    Word = 65536
    MaxCalls = 1
    BufSize = 2
    MaxFd = 6
    MaxErrors = 1
INVARIANTS
    DeliversPrefix
CHECK_DEADLOCK FALSE
