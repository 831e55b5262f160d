\* A second send between the reload and the re-pin.
SPECIFICATION Spec
CONSTANTS
    Sends = {s1, s2}
    Main = main
    Deployments <- Litecoin
    ProbeAttempts = 2
    LoadAttempts = 2
    Restarts = TRUE
    RpcFails = FALSE
    ForeignMoves = FALSE
INVARIANT CeilingKept
