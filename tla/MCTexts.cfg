CONSTANTS
    None = None
    NaN = NaN
    Letter = {"a", "k", "l", "m", "n", "o", "z"}
    Ids = {"x", "y", "u", "bob"}
    Lines <- const_Lines
    Samples <- const_Samples
    Pages <- const_Pages
    LogLines <- const_LogLines
    Prints <- const_Prints
    Days <- const_Days
SPECIFICATION TextsSpec
INVARIANTS
    RedactionIsThorough
    RedactionIsSound
    MetricsAreRead
    DatesAreRight
    LinesKeepTheirText
CHECK_DEADLOCK FALSE
