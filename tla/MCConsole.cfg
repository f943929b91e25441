CONSTANTS
    t1 = t1
    t2 = t2
    NULL = NULL
    Threads = {t1, t2}
    Row = 2
    Size = 3
    WORD = 8
    MaxKeys = 3
    MaxClears = 2
SPECIFICATION Spec
INVARIANTS KeysInOrder ReaderIsWoken TerminalInBounds
SYMMETRY Symmetry
