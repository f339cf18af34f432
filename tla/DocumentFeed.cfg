SPECIFICATION Spec
CONSTANTS
    d1 = d1
    d2 = d2
    p1 = p1
    p2 = p2
    Parts <- TwoParts
    Whole = w
    PageSize = 1
    MaxPages = 2
    MaxSeq = 3
    Calls <- OneCall
    Polls <- TwoPolls
    MaxLoops = 2
    MaxFaults = 1
    None = None
SYMMETRY Symmetry
INVARIANTS NothingSkipped OnePoll
PROPERTIES NeverOlder CombinedNotSent
CHECK_DEADLOCK FALSE
