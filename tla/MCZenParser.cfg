CONSTANTS
    Inputs <- MCInputs
    Numbers = {"1"}
    Literals = {"true"}
    FalseStarts = {"nope"}
    Names = {"a", "b"}
    MaxParseDepth = 2
    MaxStart = 3
    MaxRest = 4
SPECIFICATION Spec
INVARIANTS
    TypeOK
    NestingBounded
PROPERTIES
    RowsComplete
    Progress
    Terminates
CHECK_DEADLOCK FALSE
