CONSTANTS
    None = None
    DefaultLog = DefaultLog
    Containers <- const_Containers
    MAX_GIVEN = 3
SPECIFICATION Spec
INVARIANTS
    AskingLessChangesNothing
    OneSidedIgnoresTheHost
    SourcesAreThere
    NeverAGuess
CHECK_DEADLOCK FALSE
