------------------------------ MODULE MCAccess ------------------------------
(***************************************************************************)
(* Instances of Access.                                                    *)
(***************************************************************************)
EXTENDS Access, TLC

Symmetry == Permutations(Proc) \cup Permutations(Name)

\* Bound: a request about labels, favorites or comments and one about grants, which
\* share nothing but the resource, run one after the other; what is first tagged by
\* others than the guest has the guest's own grant.
LabelStep == {"unlabel", "untag", "exists", "attach", "detach",
              "favorite", "unfavorite", "comment", "uncomment"}
Apart     == (\A p \in Proc : pc[p] \in LabelStep \cup {"idle"}) \/ (\A p \in Proc : pc[p] \notin LabelStep)
Usual     == tag[1].owner = 3 \/ (perm[1].to.to = 3 /\ member = {})
Focus     == Apart /\ Usual
=============================================================================
