CONSTANTS
    c1 = c1
    c2 = c2
    NULL = NULL
    CPUs = {c1, c2}
    MAX_NUM_PROC = 3
    Channels = {0, 1, 2}
    MAX_NUM_THREADS = 3
    MaxCreates = 3
SPECIFICATION ProcessSpec
INVARIANTS ProcessHasThread WaiterIsWoken ReleasePanicNeedsInit
PROPERTIES WaitpidReturnsAfterExit
