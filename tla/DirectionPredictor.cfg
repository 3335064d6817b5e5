SPECIFICATION Spec
CONSTANTS
    Dire_PredSize = 4
    CacheBlockBits = 1
    MaxAddr = 31
INVARIANT IndexInTable
CHECK_DEADLOCK FALSE
