CONSTANTS
    u1 = u1
    u2 = u2
    short = short
    long = long
    bad = bad
    json = json
    None = None
    Torn = Torn
    Urls = {u1, u2}
    Bodies = {short, long, bad, json}
    Small = {short}
    Json = {json}
    Throwing = {bad, json}
    Pages <- PagesMC
    Base <- BaseOfQuery
    Versions = {"v1"}
SPECIFICATION Spec
INVARIANTS TypeOK CacheSurvives ServesOwnHistory
PROPERTIES HooksDefined
