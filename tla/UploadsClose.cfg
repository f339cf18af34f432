SPECIFICATION FairSpec
CONSTANTS
    file = file
    big = big
    scan = scan
    None = None
    Files = {file, big, scan}
    Scans = {scan}
    TooLarge = {big}
    MaxItems = 1
    MaxSessions = 2
    MaxCloses = 1
    MaxFaults = 1
CHECK_DEADLOCK FALSE
INVARIANTS
    NothingLost
    RemovedStaysAway
    PausedOnlySignedOut
PROPERTIES
    QueueMovesOn
