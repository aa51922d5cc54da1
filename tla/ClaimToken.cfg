SPECIFICATION ClaimsSpec
CONSTANTS
    Delegate = {d1, d2}
    Token = {t1}
    Faults = {}
    MaxFaults = 1
INVARIANT TokenSingleUse
CHECK_DEADLOCK FALSE
