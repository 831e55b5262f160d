\* NETWORK does not name the coin of a Litecoin daemon.
SPECIFICATION Spec
CONSTANTS
    Sends = {s1, s2}
    Main = main
    Deployments <- BareLitecoin
    ProbeAttempts = 2
    LoadAttempts = 2
    Restarts = TRUE
    RpcFails = FALSE
    ForeignMoves = FALSE
INVARIANT SendHeals
