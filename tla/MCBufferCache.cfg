CONSTANTS
    t1 = t1
    t2 = t2
    t3 = t3
    NULL = NULL
    Threads = {t1, t2, t3}
    Blocks = {0, 1, 2}
    NBUF = 2
    MaxWrites = 1
    MaxErrors = 1
SPECIFICATION FairSpec
INVARIANTS RefcntExact CacheCoherent
PROPERTIES RequestFinishes
