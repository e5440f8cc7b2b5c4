SPECIFICATION PySpec
CONSTANTS
    Configs <- NoConfigs
    Nonzero = {1}
    Objects = {"c", "d"}
    Functions = {"f", "g"}
    Lengths = {0, 2, 3}
    Numbers = {1, 2}
    ItemRefs = {2, 3}
    MaxCalls = 3
INVARIANTS
    SeesTheCombination
    
CHECK_DEADLOCK FALSE
