\* Three overlapping calls, no symmetry (unsound with liveness), and RPC
\* timeouts on: the miner's own bookkeeping is still a fair lock.
SPECIFICATION FairSpec
CONSTANTS
    Calls = {c1, c2, c3}
    Main = main
    RpcTimeout = TRUE
PROPERTIES
    ImplementsLock
    EveryCallAnswers
