\* A client vanishes, two descriptors for three connections, threads and
\* forks that fail.
CONSTANTS
    Conns = {c1, c2, c3}
    NoConn = NoConn
    MaxSend = 1
    MayReset = {c1, c2, c3}
    FdLimit = 3
    FD_SETSIZE = 3
    POLL_MAXCLIENT = 4
    EPOLL_MAXCLIENT = 4
    Nuls = {1}
    Threads = 3
    CreateMayFail = TRUE
    Parent = Parent
    ForkMayFail = TRUE
SPECIFICATION Spec
SYMMETRY ConnSymmetry
INVARIANTS
    NothingLost
    TablesAgree
    NeverBlocks
    OneThread
    NoZombieForgotten
\* Nobody has to connect.
CHECK_DEADLOCK FALSE
