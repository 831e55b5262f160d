---------------------------- MODULE MCLifecycle ----------------------------
(***************************************************************************)
(* A small instance of Lifecycle for TLC.                                  *)
(***************************************************************************)
EXTENDS Lifecycle

\* The regtest services have an RPC timeout, the others none.
MCEnvironments == {e \in AllEnvironments : e.rpcTimeout <=> e.network = "regtest"}

=============================================================================
