CONSTANTS
    None = None
    Updater = {u1, u2}
    Version = {"1.0", "2.0"}
    Build <- const_Build
    Reports <- const_Reports
    Shells <- const_NoShell
SPECIFICATION Spec
SYMMETRY Symmetry
INVARIANTS
    InstalledWhatItSays
CHECK_DEADLOCK FALSE
