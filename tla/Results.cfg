SPECIFICATION Spec
CONSTANTS
    Chunks = 1
    WatchBatch = 3
    MaxFaults = 2
    Faults = {"redelivery", "worker_crash", "redis_error", "duplicate", "dispatcher_crash", "redis_restart", "watch_timeout"}
INVARIANTS TypeOK LogInOrder ConcludedIsLogged FileMatchesRow OnlyLossFailsOutput LeakIsTail
CHECK_DEADLOCK FALSE
