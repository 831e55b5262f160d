\* Every environment and chain, one reorg's refresh beside the loop's, a node
\* that fails, is silent or hangs, and a signal at any moment.
SPECIFICATION FairSpec
CONSTANTS
    Reorgs = {r1}
    Latency = 1
    RefreshInterval = 2
    Horizon = 5
    Labels = {"regtest", "testnet", "mainnet"}
    Environments <- MCEnvironments
    Chains = {"main", "none", "regtest", "test"}
    VerifyAttempts = 2
    BalancePolls = 2
    PassLength = 1
INVARIANTS
    ChainChecked
    FundedIsRecent
PROPERTIES
    BalanceSettles
    SignalEnds
    StallReported
    BootRunsOut
