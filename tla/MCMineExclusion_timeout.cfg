\* RPC timeouts on: an abandoned generatetoaddress is still running.
SPECIFICATION Spec
CONSTANTS
    Calls = {c1, c2}
    Main = main
    RpcTimeout = TRUE
INVARIANT ReorgSparesMines
