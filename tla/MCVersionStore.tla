--------------------------- MODULE MCVersionStore ---------------------------
(***************************************************************************)
(* Contents for the runs of VersionStore.                                  *)
(***************************************************************************)
EXTENDS VersionStore, TLC

CONSTANTS a, b

\* One chunk, shared by every file.
OneChunk == {<<a>>}

\* Two contents that have a chunk in common.
SharedChunk == {<<a>>, <<a, b>>}

Symmetry == Permutations(Req)
=============================================================================
