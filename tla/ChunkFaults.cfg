SPECIFICATION Spec
CONSTANTS
    Receiver = {w1, w2}
    Payload <- MCPayload
    ChunkSize = 2
    MaxRetries = 2
    MaxFaults = 1
    Faults = {"slow", "sender_crash", "duplicate", "redis_error", "redis_restart"}
SYMMETRY ReceiversAlike
INVARIANTS NeverResumed RetriesAbsorbFaults
PROPERTIES Implements OnlyLossInvalidates
CHECK_DEADLOCK FALSE
