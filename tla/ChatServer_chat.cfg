CONSTANTS
    c1 = c1
    c2 = c2
    Clients = {c1, c2}
    Talkers = {c1}
SPECIFICATION FairSpec
INVARIANTS TypeOK NoGhost ListsAgree
PROPERTIES DropsLeave
