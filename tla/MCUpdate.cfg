CONSTANTS
    None = None
    Updater = {u1, u2}
    Version = {"1.0", "2.0"}
    Build <- const_Build
    Reports <- const_Reports
    Shells <- const_Shells
SPECIFICATION Spec
SYMMETRY Symmetry
INVARIANTS
    InstalledIsARelease
    NothingLeftBehind
    ScriptsComeFromTheNewBinary
CHECK_DEADLOCK FALSE
