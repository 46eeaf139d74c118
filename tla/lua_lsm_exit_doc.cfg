CONSTANTS
    Procs = {p1, p2}
    Names = {"name", "deny_tmp"}
    HeaderWords = {"name"}
    MaxEdits = 0
SPECIFICATION LsmSpec
INVARIANT ExitZeroMeansGranted
CHECK_DEADLOCK FALSE
