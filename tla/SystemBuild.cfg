SPECIFICATION Spec
CONSTANTS
    MaxMissing = 1
    MaxRuns = 2
INVARIANTS OkTreeIsAsListed HostKeysAreAPair PrimaryGroupExists EnabledUnitsAreThere
CHECK_DEADLOCK FALSE
