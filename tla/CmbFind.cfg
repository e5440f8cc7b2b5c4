SPECIFICATION ToolSpec
CONSTANTS
    Configs <- NoConfigs
    Nonzero = {1}
    UintMax = 7
    CommandLines <- FindLines
INVARIANTS
    FindsValues
CHECK_DEADLOCK FALSE
