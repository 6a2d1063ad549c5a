\* Two clients, no faults; room for one with poll and epoll.
CONSTANTS
    Conns = {c1, c2}
    NoConn = NoConn
    MaxSend = 2
    MayReset = {}
    FdLimit = 4
    FD_SETSIZE = 4
    POLL_MAXCLIENT = 2
    EPOLL_MAXCLIENT = 1
    Nuls = {}
    Threads = 2
    CreateMayFail = FALSE
    Parent = Parent
    ForkMayFail = FALSE
SPECIFICATION FairSpec
INVARIANTS
    NothingForgotten
    HoldersAreRight
PROPERTIES
    ImplementsEcho
    QueuedIsDecided
    EchoComes
    CloseComes
\* Nobody has to connect.
CHECK_DEADLOCK FALSE
