\* One client aborts and its child dies of SIGPIPE.
CONSTANTS
    CHILDNUMBER = 2
    Conns = {c1, c2, c3}
    NoConn = NoConn
    MaxSend = 1
    FdLimit = 4
    MayAbort = {c1}
    ForkMayFail = FALSE
    ParentMayFail = FALSE
    MaxUnder = 1
SPECIFICATION Spec
INVARIANT IdleSlotIsIdle
CHECK_DEADLOCK FALSE
