\* Every fault: an aborting client, failing forks, a full descriptor table, a parent that stops.
CONSTANTS
    CHILDNUMBER = 2
    Conns = {c1, c2, c3}
    NoConn = NoConn
    MaxSend = 1
    FdLimit = 1
    MayAbort = {c1}
    ForkMayFail = TRUE
    ParentMayFail = TRUE
    MaxUnder = 0
SPECIFICATION FairSpec
INVARIANTS OneHolder EchoedExactly
PROPERTY ChildrenExit
CHECK_DEADLOCK FALSE
