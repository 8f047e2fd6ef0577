----------------------------- MODULE TusUpload -----------------------------
(***************************************************************************)
(* One resumable upload: the client (transfer.rs, or any tus client that   *)
(* resumes), the handlers of tus.rs, the task that a handler spawns to     *)
(* assemble the file, and the task that resumes assemblies left behind.    *)
(*                                                                         *)
(* The bytes of the upload are 1, 2, ..., total; one stands for a block    *)
(* that one write(2) appends.  Requests and answers may be lost, a handler *)
(* may be dropped, fail or die, at every await.                            *)
(***************************************************************************)
EXTENDS Integers, Sequences

CONSTANTS
    Proc,       \* PATCH handlers that may run at the same time
    Resumer,    \* reprendre_envois_inacheves
    Nobody,
    Sizes,      \* lengths a client may announce
    MaxFaults   \* bound on disconnections, errors and crashes

ASSUME TusAssumption ==
    /\ Resumer \notin Proc /\ Nobody \notin Proc
    /\ Sizes \subseteq Nat /\ MaxFaults \in Nat

Task == Proc \cup {Resumer}

VARIABLES
    total,       \* Upload-Length
    part, there, \* the partial file: its bytes, whether it exists
    registered, uploaded, completed,  \* the tus_uploads row
    versions,    \* contents of the versions stored
    charged,     \* what tokens.used_bytes was raised by
    home,        \* the folder the upload names: "none" yet, "there" or "gone"
    pc, req,     \* PATCH handlers: next step; offset, length, blocks appended
    step, data,  \* assemblies: next step; bytes read
    cpc, coff, peer,  \* the client: what it does, its offset, who it waits for
    faults,
    (***** history, never read by the code *****)
    withdrawn,   \* DELETE has been here
    mangled,     \* two PATCHes overlapped, or one stopped after it appended
    again        \* two assemblies overlapped, or one stopped half-way

rowVars    == <<registered, uploaded, completed>>
fileVars   == <<part, there>>
storeVars  == <<versions, charged, home>>
patchVars  == <<pc, req>>
taskVars   == <<step, data>>
clientVars == <<cpc, coff, peer>>
history    == <<withdrawn, mangled, again>>
vars == <<total, rowVars, fileVars, storeVars, patchVars, taskVars, clientVars,
          faults, history>>

NoReq == [off |-> 0, len |-> 0, done |-> 0]
Appending == {"open", "write", "record"}
Whole(n) == [i \in 1 .. n |-> i]

TypeOK ==
    /\ total \in Sizes
    /\ part \in Seq(1 .. total) /\ there \in BOOLEAN
    /\ registered \in BOOLEAN /\ uploaded \in 0 .. total /\ completed \in BOOLEAN
    /\ versions \in Seq(Seq(1 .. total)) /\ charged \in Nat
    /\ home \in {"none", "there", "gone"}
    /\ pc \in [Proc -> {"idle", "check", "await"} \cup Appending]
    /\ req \in [Proc -> [off : 0 .. total, len : 0 .. total, done : 0 .. total]]
    /\ step \in [Task -> {"idle", "check", "read", "insert", "account",
                          "complete", "remove"}]
    /\ data \in [Task -> Seq(1 .. total)]
    /\ cpc \in {"new", "creating", "ready", "waiting", "failed", "head",
                "deleting", "unlinked", "done", "over"}
    /\ coff \in 0 .. total /\ peer \in Proc \cup {Nobody}
    /\ faults \in 0 .. MaxFaults
    /\ withdrawn \in BOOLEAN /\ mangled \in BOOLEAN /\ again \in BOOLEAN

Init ==
    /\ total \in Sizes
    /\ part = <<>> /\ there = FALSE
    /\ registered = FALSE /\ uploaded = 0 /\ completed = FALSE
    /\ versions = <<>> /\ charged = 0 /\ home \in {"none", "there"}
    /\ pc = [p \in Proc |-> "idle"] /\ req = [p \in Proc |-> NoReq]
    /\ step = [t \in Task |-> "idle"] /\ data = [t \in Task |-> <<>>]
    /\ cpc = "new" /\ coff = 0 /\ peer = Nobody
    /\ faults = 0
    /\ withdrawn = FALSE /\ mangled = FALSE /\ again = FALSE

Fault == faults < MaxFaults /\ faults' = faults + 1
Goto(p, l)  == pc' = [pc EXCEPT ![p] = l]
Run(t, l)   == step' = [step EXCEPT ![t] = l]
End(p)      == req[p].off + req[p].len
Torn(p)     == pc[p] \in {"write", "record"} /\ req[p].done > 0
Beside(t)   == \E u \in Task \ {t} : step[u] # "idle"
Leave(p)    == Goto(p, "idle") /\ req' = [req EXCEPT ![p] = NoReq]

\* Handler p is over; its client, if it still waits, hears of it.
Reply(p, state, off) ==
    /\ Leave(p)
    /\ IF peer = p
       THEN peer' = Nobody /\ cpc' = state /\ coff' = off
       ELSE UNCHANGED clientVars

Accept(p)   == Reply(p, IF End(p) = total THEN "done" ELSE "ready", End(p))
Conflict(p) == Reply(p, "head", coff)
Refuse(p)   == Reply(p, "failed", coff)

-----------------------------------------------------------------------------
(***************************************************************************)
(* The client.                                                             *)
(***************************************************************************)
\* POST, first half: File::create.
CreateFile ==
    /\ cpc = "new"
    /\ there' = TRUE
    /\ cpc' = "creating"
    /\ UNCHANGED <<total, rowVars, part, storeVars, patchVars, taskVars, coff,
                   peer, faults, history>>

\* POST, second half: the row, and the answer.  With nothing to send the loop
\* of patch_loop ends at once.
CreateRow ==
    /\ cpc = "creating"
    /\ registered' = TRUE
    /\ cpc' = IF total = 0 THEN "done" ELSE "ready"
    /\ UNCHANGED <<total, uploaded, completed, fileVars, storeVars, patchVars,
                   taskVars, coff, peer, faults, history>>

\* A PATCH of n bytes from where the client believes the server to be.
Send(p, n) ==
    /\ cpc = "ready" /\ coff + n <= total
    /\ pc[p] = "idle" /\ step[p] = "idle"
    /\ Goto(p, "check")
    /\ req' = [req EXCEPT ![p] = [off |-> coff, len |-> n, done |-> 0]]
    /\ peer' = p /\ cpc' = "waiting"
    /\ UNCHANGED <<total, rowVars, fileVars, storeVars, taskVars, coff, faults,
                   history>>

\* The answer is lost, or late.
Disconnect ==
    /\ cpc = "waiting"
    /\ Fault
    /\ cpc' = "failed" /\ peer' = Nobody
    /\ UNCHANGED <<total, rowVars, fileVars, storeVars, patchVars, taskVars, coff,
                   history>>

\* After a failure transfer.rs gives up; another client comes back.
Resume ==
    /\ cpc = "failed"
    /\ cpc' = "head"
    /\ UNCHANGED <<total, rowVars, fileVars, storeVars, patchVars, taskVars, coff,
                   peer, faults, history>>

\* The user may cancel between two PATCHes, too.
Cancel ==
    /\ cpc \in {"failed", "ready"}
    /\ cpc' = "deleting"
    /\ UNCHANGED <<total, rowVars, fileVars, storeVars, patchVars, taskVars, coff,
                   peer, faults, history>>

\* Mutant: the length of the partial file instead of the recorded offset.
HeadLength ==
    /\ cpc = "head"
    /\ IF registered
       THEN /\ coff' = IF Len(part) < total THEN Len(part) ELSE total
            /\ cpc' = IF Len(part) >= total THEN "done" ELSE "ready"
       ELSE coff' = coff /\ cpc' = "deleting"
    /\ UNCHANGED <<total, rowVars, fileVars, storeVars, patchVars, taskVars, peer,
                   faults, history>>

\* HEAD: 404 when the row is gone, after which transfer.rs gives up.
HeadOffset ==
    /\ cpc = "head"
    /\ IF registered
       THEN coff' = uploaded /\ cpc' = (IF uploaded = total THEN "done" ELSE "ready")
       ELSE coff' = coff /\ cpc' = "deleting"
    /\ UNCHANGED <<total, rowVars, fileVars, storeVars, patchVars, taskVars, peer,
                   faults, history>>

\* DELETE: 404 without a row; the error of remove_file is ignored.
DeleteFile ==
    /\ cpc = "deleting"
    /\ IF registered
       THEN there' \in {there, FALSE} /\ withdrawn' = TRUE /\ cpc' = "unlinked"
       ELSE cpc' = "over" /\ UNCHANGED <<there, withdrawn>>
    /\ UNCHANGED <<total, rowVars, part, storeVars, patchVars, taskVars, coff,
                   peer, faults, mangled, again>>

DeleteRow ==
    /\ cpc = "unlinked"
    /\ registered' = FALSE
    /\ cpc' = "over"
    /\ UNCHANGED <<total, uploaded, completed, fileVars, storeVars, patchVars,
                   taskVars, coff, peer, faults, history>>

-----------------------------------------------------------------------------
(***************************************************************************)
(* patch_upload.                                                           *)
(***************************************************************************)
\* 404, 409 or on: an honest client never exceeds the length it announced.
Check(p) ==
    /\ pc[p] = "check"
    /\ IF registered /\ ~completed /\ req[p].off = uploaded
       THEN /\ Goto(p, "open")
            /\ mangled' = (mangled \/ \E q \in Proc \ {p} : pc[q] \in Appending)
            /\ UNCHANGED <<req, clientVars>>
       ELSE (IF registered THEN Conflict(p) ELSE Refuse(p)) /\ UNCHANGED mangled
    /\ UNCHANGED <<total, rowVars, fileVars, storeVars, taskVars, faults,
                   withdrawn, again>>

OpenPart(p) ==
    /\ pc[p] = "open"
    /\ IF there THEN Goto(p, "write") /\ UNCHANGED <<req, clientVars>>
                ELSE Refuse(p)
    /\ UNCHANGED <<total, rowVars, fileVars, storeVars, taskVars, faults, history>>

\* Mutant: one write, whatever is left.
WriteOnce(p) ==
    /\ pc[p] = "write"
    /\ part' = IF there THEN Append(part, req[p].off + req[p].done + 1) ELSE part
    /\ req' = [req EXCEPT ![p].done = @ + 1]
    /\ Goto(p, "record")
    /\ UNCHANGED <<total, rowVars, there, storeVars, taskVars, clientVars, faults,
                   history>>

\* write_all on a file opened for appending; what is written to a file that
\* was removed meanwhile is lost.
WriteBlock(p) ==
    /\ pc[p] = "write"
    /\ part' = IF there THEN Append(part, req[p].off + req[p].done + 1) ELSE part
    /\ req' = [req EXCEPT ![p].done = @ + 1]
    /\ Goto(p, IF req[p].done + 1 = req[p].len THEN "record" ELSE "write")
    /\ UNCHANGED <<total, rowVars, there, storeVars, taskVars, clientVars, faults,
                   history>>

\* Mutant: the length is added to what the row says.
RecordSum(p) ==
    /\ pc[p] = "record"
    /\ uploaded' = IF registered THEN uploaded + req[p].len ELSE uploaded
    /\ IF End(p) = total
       THEN /\ Goto(p, "await") /\ Run(p, "read")
            /\ again' = (again \/ Beside(p))
            /\ UNCHANGED <<req, clientVars>>
       ELSE Accept(p) /\ UNCHANGED <<step, again>>
    /\ UNCHANGED <<total, registered, completed, fileVars, storeVars, data, faults,
                   withdrawn, mangled>>

\* UPDATE uploaded_bytes; with the last byte, the assembly is spawned.
Record(p) ==
    /\ pc[p] = "record"
    /\ uploaded' = IF registered THEN End(p) ELSE uploaded
    /\ IF End(p) = total
       THEN /\ Goto(p, "await") /\ Run(p, "read")
            /\ again' = (again \/ Beside(p))
            /\ UNCHANGED <<req, clientVars>>
       ELSE Accept(p) /\ UNCHANGED <<step, again>>
    /\ UNCHANGED <<total, registered, completed, fileVars, storeVars, data, faults,
                   withdrawn, mangled>>

\* A call fails: 500.
PatchFails(p) ==
    /\ pc[p] \in {"check"} \cup Appending
    /\ Fault
    /\ mangled' = (mangled \/ Torn(p))
    /\ Refuse(p)
    /\ UNCHANGED <<total, rowVars, fileVars, storeVars, taskVars, withdrawn, again>>

\* axum drops the handler of a client that went away; the assembly goes on.
Drop(p) ==
    /\ pc[p] # "idle" /\ peer # p
    /\ Leave(p)
    /\ mangled' = (mangled \/ Torn(p))
    /\ UNCHANGED <<total, rowVars, fileVars, storeVars, taskVars, clientVars, faults,
                   withdrawn, again>>

-----------------------------------------------------------------------------
(***************************************************************************)
(* finish_upload, run by the handler's task or by the resumer.             *)
(***************************************************************************)
\* Assembly t is over; a handler that waits for it answers.
Finish(t, ok) ==
    /\ Run(t, "idle") /\ data' = [data EXCEPT ![t] = <<>>]
    /\ IF t \in Proc /\ pc[t] = "await"
       THEN IF ok THEN Accept(t) ELSE Refuse(t)
       ELSE UNCHANGED <<patchVars, clientVars>>

\* Mutant: the partial file is taken away once it is read.
TakePart(t) ==
    /\ step[t] = "read"
    /\ IF there
       THEN Run(t, "insert") /\ data' = [data EXCEPT ![t] = part] /\ there' = FALSE
            /\ UNCHANGED <<patchVars, clientVars>>
       ELSE Finish(t, FALSE) /\ UNCHANGED there
    /\ UNCHANGED <<total, rowVars, part, storeVars, faults, history>>

\* The files row, which has foreign keys on the folder and the token that nobody
\* checked when the upload was made; then store_new_version_from_path, which reads
\* the file from end to end.  Its chunks are the subject of VersionStore.
ReadPart(t) ==
    /\ step[t] = "read"
    /\ IF there /\ home = "there"
       THEN Run(t, "insert") /\ data' = [data EXCEPT ![t] = part]
            /\ UNCHANGED <<patchVars, clientVars>>
       ELSE Finish(t, FALSE)
    /\ UNCHANGED <<total, rowVars, fileVars, storeVars, faults, history>>

\* Mutant: the version is charged where it is stored, too.
InsertCharged(t) ==
    /\ step[t] = "insert"
    /\ versions' = Append(versions, data[t])
    /\ charged' = charged + Len(data[t])
    /\ Run(t, "account")
    /\ UNCHANGED <<total, rowVars, fileVars, home, patchVars, data, clientVars,
                   faults, history>>

InsertVersion(t) ==
    /\ step[t] = "insert"
    /\ versions' = Append(versions, data[t])
    /\ Run(t, "account")
    /\ UNCHANGED <<total, rowVars, fileVars, charged, home, patchVars, data,
                   clientVars, faults, history>>

\* UPDATE tokens SET used_bytes.
Account(t) ==
    /\ step[t] = "account"
    /\ charged' = charged + Len(data[t])
    /\ Run(t, "complete")
    /\ UNCHANGED <<total, rowVars, fileVars, versions, home, patchVars, data,
                   clientVars, faults, history>>

Complete(t) ==
    /\ step[t] = "complete"
    /\ completed' = (completed \/ registered)
    /\ Run(t, "remove")
    /\ UNCHANGED <<total, registered, uploaded, fileVars, storeVars, patchVars, data,
                   clientVars, faults, history>>

\* The error of remove_file is ignored.
Remove(t) ==
    /\ step[t] = "remove"
    /\ there' \in {there, FALSE}
    /\ Finish(t, TRUE)
    /\ UNCHANGED <<total, rowVars, part, storeVars, faults, history>>

\* A call of finish_upload fails: nothing is undone.
FinishFails(t) ==
    /\ step[t] \notin {"idle", "check", "remove"}
    /\ Fault
    /\ again' = (again \/ step[t] \in {"account", "complete"})
    /\ Finish(t, FALSE)
    /\ UNCHANGED <<total, rowVars, fileVars, storeVars, withdrawn, mangled>>

\* Mutant: completed is not asked for.
SelectReceived ==
    /\ step[Resumer] = "idle"
    /\ registered /\ uploaded > 0 /\ uploaded = total
    /\ Run(Resumer, "check")
    /\ again' = (again \/ Beside(Resumer))
    /\ UNCHANGED <<total, rowVars, fileVars, storeVars, patchVars, data, clientVars,
                   faults, withdrawn, mangled>>

\* At the start and every ten minutes: SELECT what is received and not
\* completed, then look at the partial file before assembling it.
SelectPending ==
    /\ step[Resumer] = "idle"
    /\ registered /\ ~completed /\ uploaded > 0 /\ uploaded = total
    /\ Run(Resumer, "check")
    /\ again' = (again \/ Beside(Resumer))
    /\ UNCHANGED <<total, rowVars, fileVars, storeVars, patchVars, data, clientVars,
                   faults, withdrawn, mangled>>

CheckPart ==
    /\ step[Resumer] = "check"
    /\ IF there /\ Len(part) = total
       THEN /\ Run(Resumer, "read")
            /\ again' = (again \/ Beside(Resumer))
       ELSE Run(Resumer, "idle") /\ UNCHANGED again
    /\ UNCHANGED <<total, rowVars, fileVars, storeVars, patchVars, data, clientVars,
                   faults, withdrawn, mangled>>

\* A folder with the number that the upload names is made.
Admit ==
    /\ home = "none"
    /\ home' = "there"
    /\ UNCHANGED <<total, rowVars, fileVars, versions, charged, patchVars, taskVars,
                   clientVars, faults, history>>

\* The folder is purged from the trash, or the token deleted, for good.  The foreign
\* keys forbid that while the files row of an assembly stands.
Evict ==
    /\ home = "there" /\ \A t \in Task : step[t] # "insert"
    /\ home' = "gone"
    /\ UNCHANGED <<total, rowVars, fileVars, versions, charged, patchVars, taskVars,
                   clientVars, faults, history>>

\* The program stops; what a client was waiting for fails.
Crash ==
    /\ Fault
    /\ pc' = [p \in Proc |-> "idle"] /\ req' = [p \in Proc |-> NoReq]
    /\ step' = [t \in Task |-> "idle"] /\ data' = [t \in Task |-> <<>>]
    /\ peer' = Nobody
    /\ cpc' = CASE cpc = "waiting" -> "failed"
                [] cpc \in {"creating", "unlinked"} -> "over"
                [] OTHER -> cpc
    /\ mangled' = (mangled \/ \E p \in Proc : Torn(p))
    /\ again' = (again \/ \E t \in Task : step[t] \in {"account", "complete"})
    /\ UNCHANGED <<total, rowVars, fileVars, storeVars, coff, withdrawn>>

Client ==
    \/ CreateFile \/ CreateRow \/ Disconnect \/ Resume \/ Cancel \/ HeadOffset
    \/ DeleteFile \/ DeleteRow
    \/ \E p \in Proc, n \in 1 .. total : Send(p, n)

Handler(p) == Check(p) \/ OpenPart(p) \/ WriteBlock(p) \/ Record(p)

Assembly(t) ==
    ReadPart(t) \/ InsertVersion(t) \/ Account(t) \/ Complete(t) \/ Remove(t)

Resumption == SelectPending \/ CheckPart \/ Assembly(Resumer)

Next ==
    \/ Client
    \/ \E p \in Proc : Handler(p) \/ PatchFails(p) \/ Drop(p)
    \/ \E t \in Proc : Assembly(t)
    \/ Resumption
    \/ \E t \in Task : FinishFails(t)
    \/ Admit \/ Evict \/ Crash

\* A spawned assembly runs to its end, and the resumer comes round.  Nothing
\* makes the client go on.
Fairness == WF_vars(Resumption) /\ \A p \in Proc : WF_vars(Handler(p)) /\ WF_vars(Assembly(p))

Spec == Init /\ [][Next]_vars /\ Fairness

-----------------------------------------------------------------------------
(***************************************************************************)
(* Properties.                                                             *)
(***************************************************************************)
\* What HEAD reports is on disk, and in order (patch_upload appends first and
\* records second) unless PATCHes overlapped or one was torn.
ReportedIsOnDisk ==
    registered /\ there =>
        /\ uploaded <= Len(part)
        /\ mangled \/ \A i \in 1 .. uploaded : part[i] = i

\* A client that believes it is done has had every byte recorded, unless two
\* PATCHes overlapped (transfer.rs 313-372).
DoneIsReceived == cpc = "done" => mangled \/ uploaded = total

\* An upload becomes one version, unless an assembly was under way when the
\* resumer looked, or one stopped between its version and completed = 1, or
\* two PATCHes overlapped.
StoredOnceUnlessAgain == Len(versions) <= 1 \/ again \/ mangled

\* The quota is charged for stored bytes only, and for no version twice.
Bytes[i \in 0 .. Len(versions)] == IF i = 0 THEN 0 ELSE Bytes[i - 1] + Len(versions[i])
ChargedIsStored == charged <= Bytes[Len(versions)]

\* TusUpload implements UploadPromise: offset, contents, custody of the bytes,
\* and, crash or no crash, the assembly of what was received in full, as long as
\* the folder it is for is there: without it no attempt can ever succeed (tus.rs
\* 342-351; nobody looks at the folder before the last byte has come, tus.rs 181).
Promise == INSTANCE UploadPromise WITH
    offset <- uploaded, stored <- versions,
    housed <- home = "there", lost <- (cpc # "new" /\ ~there), spoilt <- mangled
KeepsPromise == Promise!Spec

-----------------------------------------------------------------------------
(***************************************************************************)
(* What the documentation says, without the exemptions above.              *)
(***************************************************************************)
\* tus.rs 424-426, "C'est idempotent": an upload is assembled once, as one version.
StoredOnce == Len(versions) <= 1
=============================================================================
