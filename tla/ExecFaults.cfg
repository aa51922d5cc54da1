SPECIFICATION Spec
CONSTANTS
    MaxRetries = 2
    WatchBatch = 2
    ReceiveBatch = 100
    Concurrency = 2
    MaxFaults = 1
    Faults = {"enqueue_error", "worker_crash", "dispatcher_crash", "redis_error", "redis_restart", "watch_timeout", "revocation"}
INVARIANTS RequestNeverReopens ExecutesSentWorkspace SuccessIsValidated RevocationStopsTransfers
PROPERTIES SealedIsFinal Implements
CHECK_DEADLOCK FALSE
