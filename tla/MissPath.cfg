SPECIFICATION Spec
CONSTANTS
    Mshrs = 2
    DemandMshrReserve = 0
    WriteBuffers = 2
    ExtraWriteReserve = 4
    NumTarget = 2
    Addrs = {a1, a2}
    Ways = 1
    Latencies = {2}
    PayloadDelays = {2}
    QueueSize = 1
    PrefetchAddrs = {a2}
    SnoopAddrs = {a1}
    MaxOrder = 5
    MaxSnoops = 1
INVARIANTS SendEventScheduled PromisesKept NoAccessPastStore PrefetchNotRedundant AssertionsHold
PROPERTY ImplementsBlocking
CHECK_DEADLOCK FALSE
