SPECIFICATION Spec
CONSTANTS
    Delegate = {d1, d2}
    Token = {t1}
    Faults = {"outage", "aclfile_lost", "acl_error", "api_crash", "dispatcher_crash"}
    MaxFaults = 2
INVARIANTS TypeOK  TokenReuseNeedsOverlap
PROPERTY RestartHeals
CHECK_DEADLOCK FALSE
