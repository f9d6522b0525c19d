SPECIFICATION Spec
CONSTANTS
    MaxVersion = 2
    MaxPkgVersion = 2
    MaxCommands = 3
    MaxCleans = 1
INVARIANTS
    BloatRemovalSparesPackages
    TreesOfOneRelease
    OkHasKeyBinaries
    RockyLeavesTrees
