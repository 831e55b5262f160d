-------------------------- MODULE MCMineExclusion --------------------------
(***************************************************************************)
(* Small instances of MineExclusion for TLC.                               *)
(***************************************************************************)
EXTENDS MineExclusion, TLC

\* Calls are interchangeable: no operator tells one from another.
CallSymmetry == Permutations(Calls)

=============================================================================
