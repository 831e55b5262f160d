--------------------------- MODULE MCWalletFunding ---------------------------
(***************************************************************************)
(* Small instances of WalletFunding for TLC.                               *)
(***************************************************************************)
EXTENDS WalletFunding, TLC

Node(daemon, known) == [daemon |-> daemon, coinKnown |-> known]

Bitcoin == {Node("core", TRUE), Node("core", FALSE)}
Litecoin == {Node("ltc", TRUE)}
Dogecoin == {Node("doge", TRUE)}
BareLitecoin == {Node("ltc", FALSE)}
MCNamed == Bitcoin \cup Litecoin
MCAll == MCNamed \cup Dogecoin \cup BareLitecoin

SendSymmetry == Permutations(Sends)

=============================================================================
