SPECIFICATION ClaimsSpec
CONSTANTS
    Delegate = {d1, d2}
    Token = {t1}
    Faults = {"outage"}
    MaxFaults = 1
INVARIANT ReconciledOnReconnect
CHECK_DEADLOCK FALSE
