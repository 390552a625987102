SPECIFICATION Spec
CONSTANTS
    Threads = {t1, t2}
    MaxNest = 3
    MapErrors = {"open"}
INVARIANTS RequestVisible
CHECK_DEADLOCK FALSE
