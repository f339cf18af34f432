SPECIFICATION Spec
CONSTANTS
    file = file
    big = big
    scan = scan
    None = None
    Files = {file}
    Scans = {}
    TooLarge = {}
    MaxItems = 1
    MaxSessions = 2
    MaxCloses = 1
    MaxFaults = 1
CHECK_DEADLOCK FALSE
PROPERTIES
    ResendIsDuplicate
