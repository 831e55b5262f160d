\* A pause answered while start() still prepares the wallet.
SPECIFICATION Spec
CONSTANTS
    Calls = {c1}
    Main = main
    RpcTimeout = FALSE
PROPERTY OnlyContinueResumes
