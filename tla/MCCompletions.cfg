CONSTANTS
    None = None
    Installer = {i1, i2}
    Build = {old, new}
    OldBuild = old
    NewBuild = new
    Environment <- const_Environment
SPECIFICATION Spec
SYMMETRY Symmetry
INVARIANTS
    FilesAreSound
PROPERTIES
    DoneMeansLoaded
    RefreshLeavesNoneBehind
CHECK_DEADLOCK FALSE
