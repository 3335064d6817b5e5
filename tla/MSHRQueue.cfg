SPECIFICATION Spec
CONSTANTS
    NumEntries = 2
    Reserve = 2
    DemandReserve = 0
    Addrs = {a1, a2}
    Latencies = {0, 1}
    MaxOrder = 4
INVARIANTS
    TypeOK
    ListsAgree
    ProgramOrder
    SnoopsTakeEffectInOrder
    NoStaleUpgrade
    AssertionsHold
PROPERTIES
    ServedInTurn
CHECK_DEADLOCK FALSE
