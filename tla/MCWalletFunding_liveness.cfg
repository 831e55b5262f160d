\* Every deployment, a node that loses replies, another wallet on it.
SPECIFICATION FairSpec
CONSTANTS
    Sends = {s1}
    Main = main
    Deployments <- MCAll
    ProbeAttempts = 2
    LoadAttempts = 2
    Restarts = TRUE
    RpcFails = TRUE
    ForeignMoves = TRUE
INVARIANT PerCallCeiling
PROPERTIES
    EveryoneEnds

