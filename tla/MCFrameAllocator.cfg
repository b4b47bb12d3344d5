SPECIFICATION Spec
CONSTANTS
    MAX_FREE_RANGES = 3
    Requests = {1, 2, 3, 4}
    UsableLists <- SmallLists
INVARIANTS
    EveryFrameHasOneOwner
    OwnerMayRelease
    FreeListIsSound
CHECK_DEADLOCK FALSE
