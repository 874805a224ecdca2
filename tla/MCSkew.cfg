CONSTANTS
    N = 2
    None = None
    ZONE_STEP = 4
    ZONE_TOLERANCE = 1
    Clocks <- const_Clocks
    Delays <- const_Delays
SPECIFICATION ClocksSpec
INVARIANTS
    SaidOnce
    TrueSkewIsReported
