SPECIFICATION ScalarSpec
CONSTANTS
    Block = 2
    Threshold = 3
    UseAVX2 = TRUE
    Cutoff = 16
    Strings <- MCStrings
    Literals <- MCLiterals
    Numbers <- MCNumbers
    Tokens <- MCTokens
    Pair <- MCPair
    MaxCut = 3
INVARIANTS
    ScanExact
    StringDecoded
    QuotedRoundTrips
    ScalarLanguage
    IntegerExact
    FloatReadsBack
PROPERTY EveryTextRead
CHECK_DEADLOCK FALSE
