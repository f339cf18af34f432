SPECIFICATION FairSpec
CONSTANTS
    d1 = d1
    d2 = d2
    p1 = p1
    p2 = p2
    Parts <- TwoParts
    Whole = w
    PageSize = 1
    MaxPages = 2
    MaxSeq = 3
    Calls = {}
    Polls <- TwoPolls
    MaxLoops = 2
    MaxFaults = 1
    None = None
PROPERTIES CopyCatchesUp
CHECK_DEADLOCK FALSE
