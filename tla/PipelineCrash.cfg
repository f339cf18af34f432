SPECIFICATION Spec
CONSTANTS
    Docs = {d1}
    Folders = {f}
    f = f
    p = p
    q = q
    Paths = {p, q}
    Trees <- OneTree
    Settings <- OnlyOn
    Analyses <- TwoAnalyses
    MaxAttempts = 2
    MaxRuns = 2
    MaxLogins = 1
    MaxCrashes = 2
    MaxFaults = 0
    Gone = Gone
    None = None
CHECK_DEADLOCK FALSE
INVARIANTS
    TypeOK
    OneUploadPerDecision
    AttemptsBounded
PROPERTIES
    FiledAsDecided
    DiscardNotOverrun
    OriginalKept
