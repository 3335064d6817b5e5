SPECIFICATION Spec
CONSTANTS
    pattern_table_set = 2
    pt_maxnumpointers = 2
    Regs = {r1, r2}
    EmptyMeans = "no valid entry"
INVARIANT PointersAreRecorded
CHECK_DEADLOCK FALSE
