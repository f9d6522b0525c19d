SPECIFICATION Spec
CONSTANTS
    MaxVersion = 1
    MaxCommands = 2
    MaxCleans = 1
    Commands = {"full", "rootfs", "initramfs", "iso", "qcow2", "run"}
    Edited = {"install_initramfs"}
INVARIANTS StoreHoldsFinished SuccessIsCurrent SuccessLeavesImagesUpToDate FreshIsoHoldsParts
