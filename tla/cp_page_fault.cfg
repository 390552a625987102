SPECIFICATION Spec
CONSTANTS
    Threads = {t1}
    MaxNest = 1
    MapErrors = {"open", "mmap"}
INVARIANTS NoPageFault
CHECK_DEADLOCK FALSE
