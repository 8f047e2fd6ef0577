------------------------------ MODULE MCDesktop ------------------------------
(***************************************************************************)
(* Instances of Desktop: a folder with a file and a directory of two, and  *)
(* an empty one.                                                           *)
(***************************************************************************)
EXTENDS Desktop, TLC

CONSTANTS documents, music, f, x, y

Tree == documents :> {{f}, {x, y}} @@ music :> {}

Symmetry == Permutations(Transfer) \cup Permutations({x, y})
=============================================================================
