---------------------------- MODULE MCFolderTree ----------------------------
(***************************************************************************)
(* Instances of FolderTree.                                                *)
(***************************************************************************)
EXTENDS FolderTree, TLC

Symmetry == Permutations(Proc)
=============================================================================
