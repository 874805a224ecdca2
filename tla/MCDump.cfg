CONSTANTS
    N = 2
    None = None
    Category <- const_Category
    Value <- const_Value
    Requests <- const_Requests
    Texts <- const_Texts
    LINE = 2
    NOTE = 1
    MAX_DUMP_BYTES = 3
    MAX_GIST_BYTES = 4
    PIPE = 1
    MAX_LINES = 2
SPECIFICATION FairSpec
INVARIANTS
    SourcesAreAccountedFor
    ArtifactIsConsistent
    NothingLeavesUnasked
PROPERTIES
    DumpEnds
CHECK_DEADLOCK FALSE
