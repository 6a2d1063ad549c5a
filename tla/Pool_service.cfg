\* No fault at all: the parent never stops.
CONSTANTS
    CHILDNUMBER = 2
    Conns = {c1, c2, c3}
    NoConn = NoConn
    MaxSend = 1
    FdLimit = 4
    MayAbort = {}
    ForkMayFail = FALSE
    ParentMayFail = FALSE
    MaxUnder = 0
SPECIFICATION FairSpec
INVARIANTS
    PoolInv
    SlotsMatchChildren
PROPERTIES
    ImplementsPool
    ConnDecided
    SlotFreedAgain
\* Clients are finite in number and their connections are never closed.
CHECK_DEADLOCK FALSE
