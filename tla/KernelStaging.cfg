SPECIFICATION Spec
CONSTANTS
    Releases = {r1, r2}
    MaxBuilds = 3
    MaxCommands = 3
    MaxCleans = 2
INVARIANTS
    KernelHasModulesDir
    NoRockyModulesInIso
    IsoModulesMatchKernel
