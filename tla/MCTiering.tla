----------------------------- MODULE MCTiering -----------------------------
(***************************************************************************)
(* Instances of Tiering.                                                   *)
(***************************************************************************)
EXTENDS Tiering, TLC

Symmetry == Permutations(Proc) \cup Permutations(Hash)
=============================================================================
