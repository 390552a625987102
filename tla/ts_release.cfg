SPECIFICATION FairSpec
CONSTANTS
    Tasks = {a, b, c, d}
    Launched = {b}
    Waiters = {a, b, c}
    Partitioned = {a}
    Lockers = {c}
    Faults = {"migrate", "params", "mode", "lock", "wait", "exec", "kill", "release"}
    Releases <- MCReleases
INVARIANTS TSInv CommonRelease AllTasksReady
PROPERTIES AllComplete WaitTerminates
CHECK_DEADLOCK FALSE
