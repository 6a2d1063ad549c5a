\* The points left in part batches need not fit: 2 * 2 > 10 - 8, as with the
\* loaders' own 50 * 99 > 10000000 - 9999000.  Three clients, of which two may
\* leave; the time has three bytes.  Only signals wake the consumer.
CONSTANTS
    TOTAL = 10
    WORKERS = 2
    BATCH = 3
    CHAN_CAP = 3
    THRESHOLD = 8
    MayFail = TRUE
    Clients = {c1, c2, c3}
    Length = 3
    MayLeave = {c1, c2}
    AcceptMayFail = TRUE
    THREADS_NUM = 2
    MAX_PRODUCT = 4
    SpuriousWakeups = FALSE
SPECIFICATION AllSpec
INVARIANTS
    OnePlace
    CountIsPosted
    OnlyRemainders
    NoLostWakeup
PROPERTIES
    LoaderReturns
    TimeIsTold
    MutexImplementsLog
    MutexTerminates
\* main returns, and clients need not connect.
CHECK_DEADLOCK FALSE
