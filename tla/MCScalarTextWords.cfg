SPECIFICATION ScalarSpec
CONSTANTS
    Block = 2
    Threshold = 3
    UseAVX2 = TRUE
    Cutoff = 16
    Strings = {}
    Literals = {}
    Numbers = {}
    Tokens <- MCWords
    Pair <- MCPair
    MaxCut = 0
INVARIANT SpecialInAnyCase
CHECK_DEADLOCK FALSE
