----------------------------- MODULE ChunkStore -----------------------------
(***************************************************************************)
(* What the chunk store promises the rest of the server, which takes it    *)
(* for a set of blobs: a write that returns leaves its chunk there, a read *)
(* that is served found it there, a chunk goes only when it is deleted,    *)
(* and where these may fail.  Tiering, with its two tiers, its rows and    *)
(* its sweep, implements it.                                               *)
(***************************************************************************)
CONSTANTS Hash, Proc, NoHash

VARIABLES
    blobs,      \* the chunks of which there is a copy
    kept,       \* written, and not deleted since
    op, on,     \* the request of each handler, and its chunk
    crossed,    \* handlers whose chunk was moved by somebody else meanwhile, or
                \* who were told the wrong place
    misplaced,  \* chunks that a read may miss until they are written again
    doubtful    \* chunks whose copy may go until they are written again

contents == <<blobs, kept>>
requests == <<op, on>>
doubts   == <<crossed, misplaced, doubtful>>
vars == <<contents, requests, doubts>>

Working(h, ops) == \E p \in Proc : on[p] = h /\ op[p] \in ops

Init ==
    /\ blobs = {} /\ kept = {}
    /\ op = [p \in Proc |-> "idle"] /\ on = [p \in Proc |-> NoHash]
    /\ crossed = {} /\ misplaced = {} /\ doubtful = {}

\* A step may cross the requests under way.  A chunk is misplaced only while a
\* write or a served read of it is under way, and in doubt only while a read
\* that has got its bytes is: a store that is not read loses nothing.
Unsettle ==
    /\ crossed \subseteq crossed'
    /\ \A p \in crossed' \ crossed : op'[p] # "idle"
    /\ misplaced \subseteq misplaced' /\ doubtful \subseteq doubtful'
    /\ \A h \in misplaced' \ misplaced : Working(h, {"write", "got"})'
    /\ \A h \in doubtful' \ doubtful : Working(h, {"got"})'

Call(p, o, h) ==
    /\ op[p] = "idle"
    /\ op' = [op EXCEPT ![p] = o] /\ on' = [on EXCEPT ![p] = h]

Return(p) ==
    /\ op' = [op EXCEPT ![p] = "idle"] /\ on' = [on EXCEPT ![p] = NoHash]
    /\ crossed' = crossed \ {p}

MayMisplace(p) ==
    misplaced' \in {misplaced} \cup (IF op[p] = "got" THEN {misplaced \cup {on[p]}} ELSE {})

-----------------------------------------------------------------------------
Write(p, h) ==
    /\ Call(p, "write", h) /\ ~Working(h, {"delete"})
    /\ Unsettle
    /\ UNCHANGED contents

Put(p) ==
    /\ op[p] = "write"
    /\ blobs' = blobs \cup {on[p]}
    /\ UNCHANGED <<kept, requests, doubts>>

\* Only a crossed write may return without its chunk.  One that nothing crossed
\* ends all doubt about the copy; whether a read finds it again may be unsettled,
\* where the write was not put down.
Written(p) ==
    LET settled == IF p \in crossed THEN {} ELSE {on[p]}
    IN  /\ op[p] = "write"
        /\ on[p] \in blobs \cup (doubtful \ settled)
        /\ kept' = kept \cup {on[p]}
        /\ misplaced' \in {misplaced \ settled, misplaced \cup settled}
        /\ doubtful' = doubtful \ settled
        /\ Return(p)
        /\ UNCHANGED blobs

Read(p, h) ==
    /\ Call(p, "read", h)
    /\ Unsettle
    /\ UNCHANGED contents

\* The reader has its bytes, and goes on to move the chunk.
Get(p) ==
    /\ op[p] = "read" /\ on[p] \in blobs
    /\ op' = [op EXCEPT ![p] = "got"]
    /\ Unsettle
    /\ UNCHANGED <<contents, on>>

\* A reader that moved the chunk may fail to put it down.
Serve(p) ==
    /\ op[p] = "got" \/ (op[p] = "read" /\ on[p] \in blobs)
    /\ MayMisplace(p)
    /\ Return(p)
    /\ UNCHANGED <<contents, doubtful>>

Miss(p) ==
    /\ op[p] = "read"
    /\ on[p] \in kept => on[p] \in misplaced \/ p \in crossed
    /\ op' = [op EXCEPT ![p] = "failed"]
    /\ UNCHANGED <<contents, on, doubts>>

Answer(p) ==
    /\ op[p] = "failed"
    /\ Return(p)
    /\ UNCHANGED <<contents, misplaced, doubtful>>

Delete(p, h) ==
    /\ Call(p, "delete", h) /\ ~Working(h, {"write"})
    /\ kept' = kept \ {h}
    /\ UNCHANGED <<blobs, doubts>>

\* A cold copy may stay.
Remove(p) ==
    /\ op[p] = "delete"
    /\ blobs' = blobs \ {on[p]}
    /\ UNCHANGED <<kept, requests, doubts>>

Deleted(p) ==
    /\ op[p] = "delete"
    /\ Return(p)
    /\ UNCHANGED <<contents, misplaced, doubtful>>

-----------------------------------------------------------------------------
(***************************************************************************)
(* What the store does of its own.                                         *)
(***************************************************************************)
Move == Unsettle /\ UNCHANGED <<contents, requests>>

\* A move had the bytes of a chunk that has been deleted since.
Revive(h) ==
    /\ h \notin kept \ doubtful
    /\ blobs' = blobs \cup {h}
    /\ UNCHANGED <<kept, requests, doubts>>

Lose(h) ==
    /\ h \notin kept \ doubtful
    /\ blobs' = blobs \ {h}
    /\ UNCHANGED <<kept, requests, doubts>>

\* Moves that stop half way misplace their chunk and lose nothing.
Abort(p) ==
    /\ op[p] \notin {"idle", "failed"}
    /\ MayMisplace(p)
    /\ Return(p)
    /\ UNCHANGED <<contents, doubtful>>

MoveFails(h) ==
    /\ misplaced' = misplaced \cup {h}
    /\ UNCHANGED <<contents, requests, crossed, doubtful>>

Crash ==
    /\ op' = [p \in Proc |-> "idle"] /\ on' = [p \in Proc |-> NoHash]
    /\ crossed' = {} /\ misplaced \subseteq misplaced'
    /\ \E h \in Hash \cup {NoHash} :
         \A k \in misplaced' \ misplaced : k = h \/ Working(k, {"got"})
    /\ UNCHANGED <<contents, doubtful>>

Next ==
    \/ \E p \in Proc, h \in Hash : Write(p, h) \/ Read(p, h) \/ Delete(p, h)
    \/ \E p \in Proc :
         \/ Put(p) \/ Written(p) \/ Get(p) \/ Serve(p) \/ Miss(p) \/ Answer(p)
         \/ Remove(p) \/ Deleted(p) \/ Abort(p)
    \/ \E h \in Hash : Revive(h) \/ Lose(h) \/ MoveFails(h)
    \/ Move \/ Crash

Spec == Init /\ [][Next]_vars
=============================================================================
