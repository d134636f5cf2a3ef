SPECIFICATION DecodeSpec
CONSTANTS
    Numbers = {}
    Literals = {"null"}
    FalseStarts = {}
    Names = {"a", "b", "c"}
    Structs <- MCStructs
    Types <- MCTypes
    Base64 <- MCBase64
    EmptyLeaves <- MCEmptyLeaves
    FormatKey <- MCFormatKey
    ParseKey <- MCParseKey
    KeyBits = 2
    Word = 3
    Precision = 2
    Targets <- MCTargets
    Docs <- MCDocs
INVARIANTS
    HoldsDocument
    Repeatable
    ReadsBack
PROPERTIES
    OnlyMentioned
