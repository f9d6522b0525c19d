SPECIFICATION Spec
CONSTANTS
    MaxMissing = 0
    MaxRuns = 1
INVARIANT AccountsSurvive
CHECK_DEADLOCK FALSE
