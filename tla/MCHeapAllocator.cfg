SPECIFICATION Spec
CONSTANTS
    HEAP_SIZE = 24
    CHUNK_SIZE = 4
    CHUNK_ALIGN = 2
    Workloads <- SmallWorkloads
INVARIANTS
    AllocationsAreExclusive
    FreeListIsCoalesced
    WholeRequestsAreSafe
