SPECIFICATION CacheSpec
CONSTANTS
    Numbers = {"0", "1", "2", "3"}
    Literals = {"true", "false", "null"}
    FalseStarts = {}
    Names = {"a", "b", "c"}
    MaxDepth = 256
    FastSample = 2
    SlowSample = 3
    Structs <- MCStructs
    Base64 <- MCBase64
    EmptyLeaves <- MCEmptyLeaves
    FormatKey <- MCFormatKey
    Goroutines <- MCGoroutines
    Jobs <- BothJobPairs
INVARIANT TiesDropped
CHECK_DEADLOCK FALSE
