SPECIFICATION Spec
CONSTANTS
    k1 = k1
    k2 = k2
    Passkeys = {k1, k2}
    MaxEvents = 4
    MaxGen = 5
    MaxFetches = 3
    Modes = {TRUE, FALSE}
    None = None
    Unknown = Unknown
SYMMETRY Symmetry
INVARIANTS PasskeysSurviveSignIn
PROPERTIES ReadNeverOlder FreshSalts
CHECK_DEADLOCK FALSE
