CONSTANTS
    top = top
    middle = middle
    inner = inner
    s1 = s1
    s2 = s2
    Frames = {top, middle, inner}
    Parent <- Tree
    Searches = {s1, s2}
    Failing <- FailingMC
    MaxMs = 1
SPECIFICATION FairSpec
INVARIANTS TypeOK AtMostOnce Frontier
PROPERTIES Spreads Quiet
