CONSTANTS
    e1 = e1
    e2 = e2
    e3 = e3
    HEADER = HEADER
    NULL = NULL
    Entries = {e1, e2, e3}
    MaxCount = 6
SPECIFICATION ListSpec
INVARIANTS ListSound
CHECK_DEADLOCK FALSE
