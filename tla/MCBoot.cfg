SPECIFICATION Spec
CONSTANTS
    MAX_MEMORY_RANGES = 8
    MAX_PAGE_TABLE_FRAMES = 10
    TABLE_ENTRIES = 4
    RECURSIVE_INDEX = 2
    ADDRESS_PAGES = 1024
    DriverPages = {960, 961, 964, 512}
    HALF_WINDOW = 2
    UsableSizes = {2, 5}
    Tops = {16, 62}
    Machines <- SmallMachines
    DriverFlags <- Rights
INVARIANTS
    HeapIsExclusive
    MapAgreesWithAllocator
    ReservationsKeepNeighbours
    GuardPagesAreUnmapped
PROPERTIES
    RightsAreAsRequested
    TablesImplementAddressSpace
CHECK_DEADLOCK FALSE
