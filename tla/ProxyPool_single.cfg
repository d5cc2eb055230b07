CONSTANTS
    p1 = p1
    p2 = p2
    p3 = p3
    p4 = p4
    t1 = t1
    t2 = t2
    Proxies = {p1, p2, p3, p4}
    Canon <- CanonIdentity
    Getters = {"g1"}
    Testers = {t1}
    Servers = {}
    ScoreMin = 0
    ScoreInit = 2
    ScoreMax = 4
    NumberMax = 2
    CrawlMax = 2
    Dead = {p1}
    OtherErrors = {p2, p3, p4}
    MaxKills = 1
SPECIFICATION FairSpec
INVARIANTS TypeOK OvershootBounded
PROPERTIES RemoveOnlyExhausted ReturnOnlyFresh ValidScoreSticks DeadLeave
