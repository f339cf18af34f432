SPECIFICATION Spec
CONSTANTS
    Docs = {d1}
    Folders = {f}
    f = f
    p = p
    q = q
    Paths = {p, q}
    Trees <- OneTree
    Settings <- OnlyOn
    Analyses <- TwoAnalyses
    MaxAttempts = 1
    MaxRuns = 0
    MaxLogins = 1
    MaxCrashes = 0
    MaxFaults = 0
    Gone = Gone
    None = None
CHECK_DEADLOCK FALSE
PROPERTY MaybeUploadedKeepsDecision
