CONSTANTS
    N = 2
    None = None
    DAY = 3
    SESSION_START = 1
    ZONE_STEP = 8
    ZONE_TOLERANCE = 1
    WINDOW = 1
    MAX_LINES = 3
    Stamps <- const_LogsStamps
    Arrivals <- const_Arrivals
SPECIFICATION Spec
INVARIANTS
    TypeOK
    NothingLostOrRepeated
    PlacedQueuesSorted
    NeverOvertaken
    BusySourceKeepsItsRecordOpen
    DoneMeansEverythingShown
CHECK_DEADLOCK FALSE
