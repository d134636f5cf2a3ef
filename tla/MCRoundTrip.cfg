CONSTANTS
    Inputs = {}
    Numbers = {"1", "2", "3", "4", "5"}
    Literals = {"true", "null", "NaN"}
    FalseStarts = {"nope"}
    Names = {"a", "b"}
    MaxParseDepth = 6
    MaxDepth = 4
    FastSample = 2
    SlowSample = 4
    Cases <- MCCases
SPECIFICATION RTSpec
INVARIANTS
    JsonLoads
    ReloadIsProjection
    UniformSurvives
    FixedPoint
    DepthDecides
PROPERTY
    Completes
CHECK_DEADLOCK FALSE
