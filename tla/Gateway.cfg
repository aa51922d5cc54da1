SPECIFICATION FairSpec
CONSTANTS
    Delegate = {d1, d2}
    MaxOpen = 2
    MaxFaults = 1
    MaxCrashes = 1
    None = None
INVARIANTS TypeOK RestartReachesOwner NoLostChannel OnlySparedChannelSurvives
PROPERTY ChannelRestored
CHECK_DEADLOCK FALSE
