\* The second chunk a client sends holds a NUL.
CONSTANTS
    Conns = {c1}
    NoConn = NoConn
    MaxSend = 2
    MayReset = {}
    MAXCLIENT = 2
    FdLimit = 4
    Nuls = {2}
SPECIFICATION Spec
INVARIANTS
    EchoIsFaithful
\* Nobody has to connect.
CHECK_DEADLOCK FALSE
