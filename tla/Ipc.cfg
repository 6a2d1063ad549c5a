\* Wakeups may be spurious: what holds all the same.  A queue for two messages,
\* a second one after it was removed; a segment of two cells on a page of three,
\* arguments that fit it, or the page only, or neither; and a second segment.
CONSTANTS
    THREADS_NUM = 3
    MAX_PRODUCT = 3
    SpuriousWakeups = TRUE
    Processes = {p1, p2, p3, p4, p5}
    MaxQueues = 2
    Capacity = 2
    Users = {p1, p2, p3, p4}
    MAX_DATA = 2
    PAGE = 3
    Characters = {"a", "b"}
    Arguments <- ThreeArguments
    Stack <- TwoStacks
    MaxSegments = 2
SPECIFICATION AllSpec
SYMMETRY ProcessSymmetry
INVARIANTS
    ReadIsQuiet
    TotalsAgree
    MessagesInOrder
    PrintsAreWhole
\* Programs end, or wait: the consumer for a mutex it owns itself, a process
\* for a message or for room.
CHECK_DEADLOCK FALSE
