SPECIFICATION FairSpec
CONSTANTS
    MaxRetries = 1
    WatchBatch = 2
    ReceiveBatch = 100
    Concurrency = 1
    MaxFaults = 1
    Faults = {"enqueue_error", "worker_crash", "redelivery", "dispatcher_crash"}
INVARIANTS TypeOK FinishedIsReported
PROPERTIES TerminalIsFinal EventuallySettled MissingFileReported
CHECK_DEADLOCK FALSE
