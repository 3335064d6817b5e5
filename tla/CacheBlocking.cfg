SPECIFICATION Spec
CONSTANTS
    Mshrs = 5
    DemandMshrReserve = 1
    WriteBuffers = 3
    ExtraWriteReserve = 2
INVARIANTS
    TypeOK
    NoLostWakeup
    NoUnexpectedRetry
    BlockedExactlyWhenExhausted
    AssertionsHold
    MSHRsWithinLimit
PROPERTY
    PrefetchNeverBlocks
