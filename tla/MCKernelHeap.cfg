CONSTANTS
    Levels = 3
    Requests = {1, 2, 3, 5, 16, 17, 33}
SPECIFICATION Spec
INVARIANTS RegionsDisjoint InUseExact
