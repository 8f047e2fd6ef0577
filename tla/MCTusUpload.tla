---------------------------- MODULE MCTusUpload ----------------------------
(***************************************************************************)
(* Instances of TusUpload.                                                 *)
(***************************************************************************)
EXTENDS TusUpload, TLC

Symmetry == Permutations(Proc)
=============================================================================
