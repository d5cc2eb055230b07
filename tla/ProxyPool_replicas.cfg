CONSTANTS
    p1 = p1
    p2 = p2
    p3 = p3
    p4 = p4
    t1 = t1
    t2 = t2
    Proxies = {p1, p2, p3}
    Canon <- CanonAlias
    Getters = {"g1"}
    Testers = {t1, t2}
    Servers = {"s1"}
    ScoreMin = 0
    ScoreInit = 1
    ScoreMax = 2
    NumberMax = 1
    CrawlMax = 2
    Dead = {}
    OtherErrors = {p1, p2, p3}
    MaxKills = 0
SPECIFICATION Spec
SYMMETRY TesterSymmetry
INVARIANTS ExhaustedIsBeingRemoved
PROPERTIES UntestedOnlyByRank
