CONSTANTS
    c1 = c1
    c2 = c2
    chan = chan
    NULL = NULL
    CPUs = {c1, c2}
    Channels = {chan}
    MAX_NUM_THREADS = 3
    MaxCreates = 2
SPECIFICATION FairSpec
INVARIANTS OneCpuPerThread RunningIffCurrent NoUnexpectedState
PROPERTIES RunnableRuns
