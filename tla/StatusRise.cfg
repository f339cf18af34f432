SPECIFICATION Spec
CONSTANTS
    k1 = k1
    k2 = k2
    Passkeys = {k1}
    MaxEvents = 6
    MaxGen = 5
    MaxFetches = 3
    Modes = {TRUE, FALSE}
    None = None
    Unknown = Unknown
PROPERTIES RiseIsAsked
CHECK_DEADLOCK FALSE
