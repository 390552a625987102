SPECIFICATION FairSpec
CONSTANTS
    a = a
    b = b
    c = c
    Tasks = {a, b, c}
    Files = {b}
    Times <- JobTimes
    Scale = 1
    Duration <- JobEnds
    Period <- JobPeriods
    Lockers = {a, b}
    CsLength = 3
    OpenErrors = {b}
    LockErrors = {b}
    Costs <- JobCosts
    Second = 1
    Procs = 2
    Horizon = 7
    None = None
INVARIANTS Exclusive LockReturned LoopLength JobLength StopsLate EveryRecordRuns
PROPERTIES Terminates
CHECK_DEADLOCK FALSE
