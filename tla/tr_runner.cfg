SPECIFICATION FairSpec
CONSTANTS
    Suite <- MCSuite
    Faults = {"setup", "work", "parent"}
INVARIANTS OkMeansPassed OwnWaiters AllOk
PROPERTY SuiteEnds
CHECK_DEADLOCK FALSE
