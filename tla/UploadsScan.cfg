SPECIFICATION Spec
CONSTANTS
    file = file
    big = big
    scan = scan
    None = None
    Files = {scan}
    Scans = {scan}
    TooLarge = {}
    MaxItems = 2
    MaxSessions = 2
    MaxCloses = 1
    MaxFaults = 1
CHECK_DEADLOCK FALSE
INVARIANTS
    ScanKept
    CrashLeavesUpload
