SPECIFICATION Spec
CONSTANTS
    k1 = k1
    k2 = k2
    Passkeys = {k1, k2}
    MaxSalts = 2
    MaxVisits = 2
    MaxTaps = 5
    MaxSessions = 1
    MaxFaults = 2
    None = None
SYMMETRY Symmetry
INVARIANTS HeldIsVisible UnstoredIsHidden
CHECK_DEADLOCK FALSE
