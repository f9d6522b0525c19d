SPECIFICATION BootSpec
CONSTANTS
    N = 3
    sr0 = 1
    sda = 2
    MaxFailures = 1
INVARIANT
    RunsFromOneMedium
PROPERTY
    BootsIfInTime
