SPECIFICATION FairSpec
CONSTANTS
    Layers = {l1, l2}
    Ports = {p1, p2, p3}
    NoPort = NoPort
INVARIANTS TypeOK HeldExactlyOnce HolderIsWoken AssertionsHold
PROPERTIES NoBarging RefusedIsCalled
