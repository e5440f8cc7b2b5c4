SPECIFICATION ToolSpec
CONSTANTS
    Configs <- NoConfigs
    Nonzero = {1}
    UintMax = 7
    CommandLines <- ToolLines
INVARIANTS
    PrintsWhatIsAsked
    TotalIsTheirNumber
    FillsTheArray
CHECK_DEADLOCK FALSE
