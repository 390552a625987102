SPECIFICATION Spec
CONSTANTS
    NumThreads = 2
    Faults = {"create", "params", "mode"}
    JobResults = {0, 1}
INVARIANTS ModeAsAsked Paced FrameOutlivesThreads
CHECK_DEADLOCK FALSE
