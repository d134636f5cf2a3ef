SPECIFICATION SessionSpec
CONSTANTS
    Numbers = {}
    Literals = {"null", "true", "false"}
    FalseStarts = {"NONE"}
    Names = {}
    Word = 3
    Narrow = 2
    Precision = 2
    Cpu = "amd64"
    Messages <- MCMessages
    EnumValue <- MCEnumValue
    EnumName <- MCEnumName
    Base64 <- MCBase64
    ParseInt <- MCParseInt
    FormatInt <- MCFormatInt
    Hyphenated = {"a-b"}
    CoreOptions <- MCCoreOptions
    Roots <- MCRoots
    Docs <- MCDocs
    ListDocs <- MCListDocs
    Others <- MCOthers
    MaxCalls = 2
INVARIANTS
    RoundTrips
    ListsRoundTrip
    UnknownAnywhere
PROPERTIES
    Merges
CHECK_DEADLOCK FALSE
