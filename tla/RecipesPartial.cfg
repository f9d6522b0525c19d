SPECIFICATION Spec
CONSTANTS
    MaxVersion = 1
    MaxPkgVersion = 1
    MaxCommands = 2
    MaxCleans = 0
INVARIANT
    OkRootfsIsWhole
