SPECIFICATION FairSpec
CONSTANTS
    Faults = {"crash", "reissue", "lost_answer", "wipe"}
    MaxFaults = 2
INVARIANTS TypeOK OneIssuer MismatchNeedsOverlap IdentityUsable RestartsRegisterNothing AgentSpeaksForWorker
PROPERTIES GatewayServes WorkerServes
CHECK_DEADLOCK FALSE
