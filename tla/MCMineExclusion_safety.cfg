\* Four overlapping calls of any kind, no RPC timeout (NODE_RPC_TIMEOUT=0).
SPECIFICATION Spec
CONSTANTS
    Calls = {c1, c2, c3, c4}
    Main = main
    RpcTimeout = FALSE
SYMMETRY CallSymmetry
INVARIANTS
    NodeExclusion
    OneWaiter
    PauseBarrier
    FillUndisturbed
    OperatorIntent
    SomebodyGoes
PROPERTY CallsGetNearer
