SPECIFICATION FairSpec
CONSTANTS
    Threads = {t1, t2}
    MaxNest = 3
    MapErrors = {"open", "mmap"}
INVARIANTS IInv NoStuckSection DelayedPreemptionHonoured PollHonest
PROPERTIES NonPreemptive ImplementsNPSections ImplementsFairNPSections
CHECK_DEADLOCK FALSE
