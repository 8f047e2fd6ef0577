----------------------------- MODULE MCBackends -----------------------------
(***************************************************************************)
(* Instances of Backends.                                                  *)
(***************************************************************************)
EXTENDS Backends, TLC

Symmetry == Permutations(Proc) \cup Permutations(Place \ {EnvPlace})
=============================================================================
