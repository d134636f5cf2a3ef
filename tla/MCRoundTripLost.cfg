CONSTANTS
    Inputs = {}
    Numbers = {"1", "2", "3", "4", "11"}
    Literals = {"true", "null", "NaN"}
    FalseStarts = {"nope"}
    Names = {"a", "b"}
    MaxParseDepth = 10000
    MaxDepth = 256
    FastSample = 10
    SlowSample = 50
    Cases <- LostCases
SPECIFICATION RTSpec
INVARIANT
    ValueRoundTrips
CHECK_DEADLOCK FALSE
