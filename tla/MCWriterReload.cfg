CONSTANTS
    Encode <- MCEncode
    Inputs = {}
    Numbers = {"0", "1", "2"}
    Literals = {"true", "null"}
    FalseStarts = {"nope"}
    Names = {"a", "b"}
    MaxParseDepth = 8
    FastSample = 10
    SlowSample = 50
    WriterOptions <- MCWriterOptions
    FieldNames <- MCFieldNames
    Leaves <- MCLeaves
    CellValues <- MCCellValues
    Trees <- MCTrees
    ColumnLists <- MCColumnLists
    MaxOpen = 2
    MaxElements = 2
    MaxRows = 2
SPECIFICATION ReloadSpec
INVARIANTS
    PlainStream
    TableStream
    StreamReloads
    PartialNeverLoads
CHECK_DEADLOCK FALSE
