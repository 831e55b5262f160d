\* Each component on an instance of its own: four clients at the lock, fills of
\* up to four chunks on a node that refuses and loses RPCs, two operators with
\* drifting bundles, a commit of two edits, restructures of three sources.
SPECIFICATION PartsSpec
CONSTANTS
    Clients = {p1, p2, p3, p4}
    MaxQuantity = 10
    OutputsPerTx = 3
    ChunksPerMine = 2
    MaxSendRetries = 2
    MaxLookups = 3
    NodeFails = TRUE
    LostCap = 2
    Nodes = {n1, n2}
    Coins = {"BTC", "LTC"}
    Bundles <- MCBundles
    Pins <- MCPins
    OperatorEnvs <- MCOperatorEnvs
    Sidecars <- MCSidecars
    NotSet = NotSet
    Down = Down
    Paths = {"a", "b", "c"}
    Titles = {"t1", "t2"}
    MaxTwice = 2
    MaxEdits = 2
    Files = {"src/a", "src/b", "src/c", "bin/tool", "test/suite"}
    Sources = {"src/a", "src/b", "src/c"}
    Tooling = {"bin/tool"}
    Tests = {"test/suite"}
    Siblings = {"xchain-indexer", "xchain-encoder"}
INVARIANTS
    LockExclusion
    SplitsMatchFunding
    StressSpendsFresh
    FillsExactly
    ChainBounded
    VerifiedAgree
    TitlesKept
    ClosureExact
    DeletionSafe
PROPERTIES
    AskersEnter
    FillEnds
    RestructureEnds
