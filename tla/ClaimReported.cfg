SPECIFICATION Spec
CONSTANTS
    MaxRetries = 1
    WatchBatch = 50
    ReceiveBatch = 100
    Concurrency = 2
    MaxFaults = 1
    Faults = {"redis_error"}
INVARIANT FinishedIsReported
CHECK_DEADLOCK FALSE
