\* Two sends beside the boot, restarts anywhere, no other failures.
SPECIFICATION Spec
CONSTANTS
    Sends = {s1, s2}
    Main = main
    Deployments <- MCNamed
    ProbeAttempts = 2
    LoadAttempts = 2
    Restarts = TRUE
    RpcFails = FALSE
    ForeignMoves = FALSE
SYMMETRY SendSymmetry
INVARIANTS
    OwnWallet
    NoCreateClash
    SendHeals
    RetriedSendsCapped
