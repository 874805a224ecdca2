CONSTANTS
    None = None
    DefaultDataDir = data
    Empty = empty
    Hosts <- const_Hosts
    Invocations <- const_Invocations
    Bodies <- const_Bodies
    Urls <- const_Urls
    Levels = {"debug", "info"}
    Loggers = {"net"}
SPECIFICATION Spec
INVARIANTS
    SettingsAreTheOperators
    NodeIsToldWhatWasSeen
    EndsAreTruthful
