SPECIFICATION Spec
CONSTANTS
    Chunks = 1
    WatchBatch = 50
    MaxFaults = 0
    Faults = {}
INVARIANT NoLineLost
CHECK_DEADLOCK FALSE
