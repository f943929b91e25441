CONSTANTS
    c1 = c1
    c2 = c2
    ide_lock = ide_lock
    proc_lock = proc_lock
    NoCpu = NoCpu
    CPUs = {c1, c2}
    Locks = {ide_lock, proc_lock}
    Rank <- MCRank
    MaxFrames = 2
SPECIFICATION FairSpec
INVARIANTS MutualExclusion Uninterruptible NoPanic
PROPERTIES LockRefinement SpinnersProgress
