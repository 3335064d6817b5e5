SPECIFICATION FairSpec
CONSTANTS
    Mshrs = 2
    DemandMshrReserve = 0
    WriteBuffers = 1
    ExtraWriteReserve = 4
    NumTarget = 2
    Addrs = {a1, a2}
    Ways = 1
    Latencies = {0}
    PayloadDelays = {2}
    QueueSize = 1
    PrefetchAddrs = {a2}
    SnoopAddrs = {a1}
    MaxOrder = 4
    MaxSnoops = 1

PROPERTIES EveryMissIsServed RefusedIsRetried
CHECK_DEADLOCK FALSE
