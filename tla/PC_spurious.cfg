\* One spurious wakeup is enough.
CONSTANTS
    THREADS_NUM = 2
    MAX_PRODUCT = 2
    SpuriousWakeups = TRUE
SPECIFICATION Spec
INVARIANT NeverAhead
CHECK_DEADLOCK FALSE
