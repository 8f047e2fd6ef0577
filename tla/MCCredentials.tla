--------------------------- MODULE MCCredentials ----------------------------
(***************************************************************************)
(* Instances of Credentials.                                               *)
(***************************************************************************)
EXTENDS Credentials, TLC

Symmetry == Permutations(Proc) \cup Permutations(Person)

\* Bound: a third request only before anything else than requests happened, and while
\* no link was visited, asked for or revoked.
Early   == now = 0 /\ key = 1 /\ faults = 0
NoLinks == /\ tickets = {} /\ \A s \in Share : tried[s] = <<>> /\ (share[s].st = "live") = (s = 1)
           /\ \A p \in Proc : pc[p] \notin {"look", "count", "share", "revoke"}
Focus   == ops <= 2 \/ (Early /\ NoLinks)
=============================================================================
