CONSTANTS
    c1 = c1
    c2 = c2
    CPUs = {c1, c2}
    HUGEPGSIZE = 2
    NFrames = 7
    KernelFrames = 2
    HeapFrames = 1
    CHUNK = 2
    Counts = 4
    BootInfos <- MCBootInfos
SPECIFICATION Spec
INVARIANTS FramesExclusive FreeFramesUsable CountExact
CHECK_DEADLOCK FALSE
