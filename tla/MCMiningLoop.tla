---------------------------- MODULE MCMiningLoop ----------------------------
(***************************************************************************)
(* Small instances of MiningLoop for TLC.                                  *)
(***************************************************************************)
EXTENDS MiningLoop

Slow == [max |-> 3, added |-> 2]
Fast == [max |-> 2, added |-> 1]

MCMiningTimes == {Slow, Fast}
MCDefaultTimes == Slow

=============================================================================
