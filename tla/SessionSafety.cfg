CONSTANTS
    N = 2
    None = None
    MAX_BUFFER = 3
    PIPE = 1
    MAX_LINES = 2
    MAY_PANIC = TRUE
SPECIFICATION FairSpec
INVARIANTS
    NothingOutlivesTheSession
    ResultIsThatOfTheWorkers
    EverythingIsWritten
PROPERTIES
    QuittingEndsTheSession
    EmitterEndsWithItsSources
CHECK_DEADLOCK FALSE
