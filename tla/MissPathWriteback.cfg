SPECIFICATION Spec
CONSTANTS
    Mshrs = 2
    DemandMshrReserve = 0
    WriteBuffers = 1
    ExtraWriteReserve = 4
    NumTarget = 2
    Addrs = {a1, a2}
    Ways = 1
    Latencies = {0}
    PayloadDelays = {0}
    QueueSize = 1
    PrefetchAddrs = {}
    SnoopAddrs = {a1}
    MaxOrder = 5
    MaxSnoops = 2
INVARIANT SingleWriteback
CHECK_DEADLOCK FALSE
