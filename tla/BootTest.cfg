SPECIFICATION FairSpec
CONSTANTS
    Texts = {"uefi", "kernel", "init", "target", "panic", "emergency", "garbled"}
    Timeout = 3
    StallTimeout = 1
    MaxPipe = 2
    MaxChannel = 1
INVARIANTS VerdictIsFirst ExitLosesNoVerdict NoQemuLeftBehind
PROPERTIES StallNamesStage TestEnds
CHECK_DEADLOCK FALSE
