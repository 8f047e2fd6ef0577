--------------------------- MODULE UploadPromise ---------------------------
(***************************************************************************)
(* What a resumable upload promises its client: the offset it reports only *)
(* grows, what is stored is what was sent, the bytes are kept until they   *)
(* are stored, and an upload received in full is stored, whatever the      *)
(* client does next short of withdrawing it, if the place it is for goes   *)
(* on existing.  TusUpload implements it.                                  *)
(***************************************************************************)
EXTENDS Integers, Sequences

CONSTANT Sizes   \* the lengths a client may announce

VARIABLES
    total,       \* the length announced
    offset,      \* bytes received in order
    stored,      \* contents of the versions made of it
    housed,      \* the place it is for exists
    lost,        \* the bytes received have been thrown away
    withdrawn,   \* the client has asked for that
    spoilt       \* the bytes were mixed up: no more promises

vars == <<total, offset, stored, housed, lost, withdrawn, spoilt>>

Whole(n) == [i \in 1 .. n |-> i]

Init ==
    /\ total \in Sizes
    /\ offset = 0 /\ stored = <<>> /\ housed \in BOOLEAN
    /\ lost = FALSE /\ withdrawn = FALSE /\ spoilt = FALSE

Receive ==
    /\ offset' \in offset + 1 .. total
    /\ UNCHANGED <<total, stored, housed, lost, withdrawn, spoilt>>

\* An empty upload is never stored; one that is withdrawn at the last moment
\* may be.
Store ==
    /\ total > 0 /\ housed
    /\ offset = total \/ withdrawn
    /\ stored' = Append(stored, Whole(total))
    /\ UNCHANGED <<total, offset, housed, lost, withdrawn, spoilt>>

Discard ==
    /\ stored # <<>>
    /\ lost' = TRUE
    /\ UNCHANGED <<total, offset, stored, housed, withdrawn, spoilt>>

Withdraw ==
    /\ withdrawn' = TRUE
    /\ lost' \in {lost, TRUE}
    /\ UNCHANGED <<total, offset, stored, housed, spoilt>>

House == housed' = ~housed /\ UNCHANGED <<total, offset, stored, lost, withdrawn, spoilt>>
Spoil == spoilt' = TRUE /\ UNCHANGED <<total, offset, stored, housed, lost, withdrawn>>
Spoilt == spoilt /\ spoilt' /\ total' = total

Next == Receive \/ Store \/ Discard \/ Withdraw \/ House \/ Spoil \/ Spoilt

\* What was received in full and not withdrawn is stored at least once, unless its
\* place goes.
Assemble == Store /\ stored = <<>> /\ ~withdrawn /\ ~spoilt
Spec == Init /\ [][Next]_vars /\ WF_vars(Assemble)
=============================================================================
