----------------------------- MODULE MCDownload -----------------------------
(***************************************************************************)
(* Instances of Download.                                                  *)
(***************************************************************************)
EXTENDS Download, TLC

Symmetry == Permutations(Hash)
=============================================================================
