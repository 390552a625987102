SPECIFICATION FairSpec
CONSTANTS
    CommandLines <- MCCommandLines
    Memory = {0, 1, 3, 7, 12}
    NrPages = 2
    MaxMmaps = 3
    Trials = 2
    NsPerSec = 4
    NsPerUs = 2
    LastStamp = 9
INVARIANTS AllReturned TimeExact VerdictFair LimitFound
PROPERTY Finishes
CHECK_DEADLOCK FALSE
