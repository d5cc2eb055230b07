CONSTANTS
    c1 = c1
    c2 = c2
    Acceptor = Acceptor
    Clients = {c1, c2}
    NumWorkers = 1
    BufferSize = 2
    SocketBuffer = 1
    MaxBytes <- OneTalks
SPECIFICATION FairSpec
INVARIANTS TypeOK NothingLost
PROPERTIES Echoed HangsUp
CHECK_DEADLOCK FALSE
