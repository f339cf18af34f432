SPECIFICATION FairSpec
CONSTANTS
    d1 = d1
    d2 = d2
    a1 = a1
    a2 = a2
    Docs <- OneDoc
    Accounts <- TwoAccounts
    Logins = 2
    MaxSteps = 2
    MaxRequests = 2
    MaxFaults = 1
    Nobody = Nobody
INVARIANTS TreeOfAccount ParkedOnlySignedOut
PROPERTIES WalkServesStage WorkIsTaken
CHECK_DEADLOCK FALSE
