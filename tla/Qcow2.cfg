SPECIFICATION Spec
CONSTANTS
    Sizes = {0, 1, 2}
    Modulus = 1073741824
    MaxFile = 16777216
    Services = {sshd, chronyd}
    Accounts = {root, bin}
    root = root
    MaxVersion = 2
    MaxBuilds = 2
    MaxChanges = 1
INVARIANTS
    OkImageIsCurrent
    UuidsAgree
    ServicesEnabled
    NoSharedSecrets
    PartitionsFit
    UnderflowKeepsImage
PROPERTY ImplementsSlot
