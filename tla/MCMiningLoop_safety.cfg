\* A node that fails, some runs for good: timers, the age of the balance and
\* the health verdict.
SPECIFICATION FairSpec
CONSTANTS
    MaxTxs = 2
    Horizon = 5
    MiningTimes <- MCMiningTimes
    DefaultTimes <- MCDefaultTimes
    IdleIntervals = {0, 2}
    RefreshInterval = 2
    MaxBackoff = 3
    ErrorThreshold = 2
    StreakCap = 2
    NodeFails = TRUE
    NodeSlow = FALSE
INVARIANTS
    TimersCoherent
    BalanceBounded
PROPERTIES
    BrokenMinerReported
    RestsUntilAsked
