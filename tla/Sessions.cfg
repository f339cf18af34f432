SPECIFICATION Spec
CONSTANTS
    Accounts = {a, b}
    Keys = {k}
    Requests = 3
    MaxRefreshes = 1
    MaxVersions = 2
    MaxRestarts = 1
    MaxFaults = 1
    Nobody = Nobody
INVARIANTS
    KeysMatchTokens
    StoredIsLive
    CachesOfAccount
    WrapsMatchFingerprint
    SecretsDisposed
    NoTokenSpentTwice
SYMMETRY Symmetry
CHECK_DEADLOCK FALSE
