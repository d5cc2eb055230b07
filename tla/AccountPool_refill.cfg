CONSTANTS
    admin = admin
    bob = bob
    g1 = g1
    t1 = t1
    None = None
    Empty = Empty
    Users = {admin, bob}
    Defaults = {admin}
    Generators = {g1}
    Testers = {t1}
    Credentials = {1, 2, 3}
    MaxExpiries = 2
    MaxDeaths = 1
SPECIFICATION FairSpec
INVARIANTS TypeOK
PROPERTIES DeletesWhatItTested Refilled
