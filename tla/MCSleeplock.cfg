CONSTANTS
    c1 = c1
    c2 = c2
    buf_lock = buf_lock
    NULL = NULL
    CPUs = {c1, c2}
    Channels = {buf_lock}
    MAX_NUM_THREADS = 3
    MaxCreates = 2
SPECIFICATION SleeplockSpec
INVARIANTS HoldingsleepExact NoLostWakeup
PROPERTIES LockRefinement
