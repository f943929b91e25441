CONSTANTS
    NProcs = 3
    NFrames = 11
    TableSize = 4
    Word = 4
    IntBits = 2
    Words = 2
    USER_HEAP_START = 239
    USER_STACK_LOC = 30
    StackPages = 1
    Images <- MCImages
    KernelPages = {0, 1, 2, 3}
    ZeroPage = {1}
    Sizes = {1, 4}
    MaxCalls = 7
SPECIFICATION Spec
INVARIANTS FramesPrivate NoFrameLeak ListIsTables BitsCoverPages
CHECK_DEADLOCK FALSE
