SPECIFICATION Spec
CONSTANTS
    NumCaches = 3
    NumTarget = 2
    MaxStores = 2
INVARIANTS TypeOK Coherence OneAnswer FilterIsTransparent AssertionsHold
CHECK_DEADLOCK FALSE
