SPECIFICATION Spec
CONSTANTS
    MaxVersion = 1
    MaxCommands = 3
    MaxCleans = 0
    Commands = {"initramfs"}
    Edited = {"initramfs"}
INVARIANT UpToDateIsCurrent
