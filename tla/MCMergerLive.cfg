CONSTANTS
    N = 2
    None = None
    DAY = 3
    SESSION_START = 1
    ZONE_STEP = 8
    ZONE_TOLERANCE = 1
    WINDOW = 1
    MAX_LINES = 2
    Stamps <- const_LogsStamps
    Arrivals <- const_Arrivals
SPECIFICATION FairSpec
CHECK_DEADLOCK FALSE
PROPERTIES
    EveryLineIsShown
    ImplementsStream
