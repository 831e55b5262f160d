\* A node that fails now and then, and is slow.
SPECIFICATION RecoveringSpec
CONSTANTS
    MaxTxs = 2
    Horizon = 4
    MiningTimes <- MCMiningTimes
    DefaultTimes <- MCDefaultTimes
    IdleIntervals = {0, 2}
    RefreshInterval = 3
    MaxBackoff = 2
    ErrorThreshold = 1
    StreakCap = 1
    NodeFails = TRUE
    NodeSlow = TRUE
PROPERTIES
    PendingIsMined
    Heartbeat
    QuietWhenOff
