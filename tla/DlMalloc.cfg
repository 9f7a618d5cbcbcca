CONSTANTS
    SIZE_T_BITSIZE = 8
    TREEBIN_SHIFT = 3
    NTREEBINS = 4
    GRANULARITY = 32
    PAGE_SIZE = 8
    MMAP_THRESHOLD = 18
    TRIM_THRESHOLD = 36
    BrkBase = 36
    BrkLimit = 164
    MapUnits = {192, 224}
    Programs <- MCPrograms
    MaxLive = 3
SPECIFICATION Spec
INVARIANTS HeapSound FootprintTrue BlocksIntact FitIsFound
CHECK_DEADLOCK FALSE
