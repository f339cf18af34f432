SPECIFICATION Spec
CONSTANTS
    Mounts = {1, 2}
    Captures = {1, 2}
    Twice = {"apply"}
    MaxSignIns = 2
    MaxFaults = 1
    None = None
PROPERTIES PagesOnlyAdded ShownIsSent
CHECK_DEADLOCK FALSE
