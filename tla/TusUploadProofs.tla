-------------------------- MODULE TusUploadProofs --------------------------
(***************************************************************************)
(* Machine-checked proofs about TusUpload, for any number of handlers, any *)
(* length and any number of faults: its types, that the offset it reports  *)
(* is on disk, that every step of it is one that UploadPromise allows, and *)
(* that it becomes one version, for which no more is charged than stored.  *)
(***************************************************************************)
EXTENDS TusUpload, WellFoundedInduction, TLAPS

-----------------------------------------------------------------------------
(***************************************************************************)
(* The inductive invariant.                                                *)
(***************************************************************************)
\* A PATCH stays within the length announced, and its cursor in the PATCH.
InRange(p) ==
    pc[p] # "idle" =>
      /\ req[p].len >= 1 /\ End(p) <= total /\ req[p].done <= req[p].len
      /\ pc[p] \in {"check", "open"} => req[p].done = 0
      /\ pc[p] = "write" => req[p].done < req[p].len
      /\ pc[p] = "record" => req[p].done = req[p].len
ReqOK == \A p \in Proc : InRange(p)

\* Before the upload exists nothing works on it.
Fresh ==
    cpc \in {"new", "creating"} =>
        /\ part = <<>> /\ ~registered /\ uploaded = 0
        /\ \A p \in Proc : pc[p] = "idle"
        /\ \A t \in Task : step[t] = "idle"

\* The row is missing because the client withdrew, or it never came to be.
Gone ==
    /\ cpc = "unlinked" => withdrawn
    /\ ~registered /\ ~withdrawn =>
         /\ cpc \in {"new", "creating", "over"}
         /\ \A p \in Proc : pc[p] = "idle"

\* Who waits for a handler is waiting.
Waits == peer # Nobody => cpc = "waiting"

\* The bytes a row or a PATCH in progress counts on are in the partial file.
Covered(p) == pc[p] \in Appending => req[p].off + req[p].done <= Len(part)
OnDisk ==
    there => (registered => uploaded <= Len(part)) /\ \A p \in Proc : Covered(p)

\* Unless mangled: one PATCH at a time, from where the row says,
OneWriter ==
    ~mangled =>
      /\ \A p \in Proc : pc[p] \in Appending => req[p].off = uploaded
      /\ \A p, q \in Proc : pc[p] \in Appending /\ pc[q] \in Appending => p = q

\* and the partial file holds the first bytes of the upload, and no more than
\* the row and the PATCH account for.
Prefix ==
    ~mangled /\ there =>
      /\ \A i \in 1 .. Len(part) : part[i] = i
      /\ \A p \in Proc : pc[p] \in Appending => Len(part) = req[p].off + req[p].done
      /\ registered /\ (\A p \in Proc : pc[p] \notin Appending) => Len(part) = uploaded

\* An assembly begins with everything received, and reads all of it.
Stored == {"insert", "account", "complete", "remove"}
Sound(t) ==
    /\ step[t] \in Stored \cup {"read"} => total > 0 /\ (uploaded = total \/ withdrawn)
    /\ step[t] = "read" /\ there =>
         /\ Len(part) = total
         /\ registered => uploaded = total
         /\ \A p \in Proc : pc[p] \notin Appending
    /\ step[t] \in Stored => data[t] = Whole(total)
Assembled ==
    ~mangled =>
      /\ step[Resumer] = "check" => total > 0 /\ uploaded = total
      /\ \A t \in Task : Sound(t)

\* Past its INSERT, an assembly has left a version; until then the folder stands.
Left ==
    \A t \in Task :
      /\ step[t] \in {"account", "complete", "remove"} => versions # <<>>
      /\ step[t] = "insert" => home = "there"

\* The client hears of the end only when the row says so, and a client that
\* withdrew waits for nothing any more.
Heard ==
    /\ withdrawn => cpc \in {"unlinked", "over"}
    /\ cpc = "done" => mangled \/ uploaded = total
    /\ \A p \in Proc : pc[p] = "await" /\ peer = p => mangled \/ uploaded = total

IInv == TypeOK /\ ReqOK /\ Fresh /\ Gone /\ Waits /\ OnDisk /\ OneWriter /\ Prefix
          /\ Assembled /\ Left /\ Heard

-----------------------------------------------------------------------------
(***************************************************************************)
(* What the steps that touch a PATCH do to each of them.                   *)
(***************************************************************************)
\* The PATCHes other than p stay as they are.
Others(p) == \A q \in Proc : q # p => pc'[q] = pc[q] /\ req'[q] = req[q]
Ended(p)  == pc'[p] = "idle" /\ req'[p] = NoReq

\* A handler that answers is idle.
LEMMA LeaveEffect ==
  ASSUME TypeOK, NEW p \in Proc, Leave(p)
  PROVE  Others(p) /\ Ended(p)
  BY DEF TypeOK, Leave, Goto, Others, Ended

\* Check lets a PATCH go on from the offset of the row, or refuses it.
Admitted(p) ==
    /\ registered /\ pc[p] = "check" /\ req[p].off = uploaded
    /\ pc'[p] = "open" /\ req'[p] = req[p]
    /\ mangled' = (mangled \/ \E q \in Proc \ {p} : pc[q] \in Appending)
Checked(p) ==
    /\ UNCHANGED <<total, rowVars, fileVars, storeVars, taskVars, withdrawn>>
    /\ Others(p) /\ pc[p] = "check"
    /\ Admitted(p) \/ (Ended(p) /\ mangled' = mangled)

LEMMA CheckEffect ==
  ASSUME TypeOK, NEW p \in Proc, Check(p)
  PROVE  Checked(p)
<1>1. UNCHANGED <<total, rowVars, fileVars, storeVars, taskVars,
                  withdrawn>> /\ pc[p] = "check"
  BY DEF Check
<1>2. CASE registered /\ ~completed /\ req[p].off = uploaded
  BY <1>1, <1>2 DEF Check, Goto, TypeOK, Others, Checked, Admitted
<1>3. CASE ~(registered /\ ~completed /\ req[p].off = uploaded)
  <2>1. Leave(p) /\ mangled' = mangled
    BY <1>3 DEF Check, Conflict, Refuse, Reply
  <2> QED
    BY <1>1, <2>1, LeaveEffect DEF Checked
<1> QED
  BY <1>2, <1>3

\* A partial file is there, or the PATCH is refused.
Opened(p) ==
    /\ UNCHANGED <<total, rowVars, fileVars, storeVars, taskVars, history>>
    /\ Others(p) /\ pc[p] = "open"
    /\ \/ pc'[p] = "write" /\ req'[p] = req[p]
       \/ Ended(p) /\ ~there

LEMMA OpenEffect ==
  ASSUME TypeOK, NEW p \in Proc, OpenPart(p)
  PROVE  Opened(p)
<1>1. UNCHANGED <<total, rowVars, fileVars, storeVars, taskVars,
                  history>> /\ pc[p] = "open"
  BY DEF OpenPart
<1>2. CASE there
  BY <1>1, <1>2 DEF OpenPart, Goto, TypeOK, Others, Opened
<1>3. CASE ~there
  <2>1. Leave(p)
    BY <1>3 DEF OpenPart, Refuse, Reply
  <2> QED
    BY <1>1, <1>3, <2>1, LeaveEffect DEF Opened
<1> QED
  BY <1>2, <1>3

\* One more block, the next one.
Wrote(p) ==
    /\ UNCHANGED <<total, rowVars, there, storeVars, taskVars, history>>
    /\ part' = IF there THEN Append(part, req[p].off + req[p].done + 1) ELSE part
    /\ req[p].off + req[p].done + 1 \in 1 .. total
    /\ Others(p) /\ pc[p] = "write" /\ req[p].done < req[p].len
    /\ req'[p] = [off |-> req[p].off, len |-> req[p].len, done |-> req[p].done + 1]
    /\ pc'[p] = IF req[p].done + 1 = req[p].len THEN "record" ELSE "write"

LEMMA WriteEffect ==
  ASSUME TypeOK, ReqOK, NEW p \in Proc, WriteBlock(p)
  PROVE  Wrote(p)
<1>1. req[p] \in [off : 0 .. total, len : 0 .. total, done : 0 .. total] /\ total \in Nat
  BY TusAssumption DEF TypeOK
<1>2. pc[p] = "write" /\ req[p].done < req[p].len /\ req[p].off + req[p].len <= total
  BY DEF WriteBlock, ReqOK, InRange, End
<1>3. req' = [req EXCEPT ![p].done = @ + 1]
  BY DEF WriteBlock
<1>4. req'[p] = [off |-> req[p].off, len |-> req[p].len, done |-> req[p].done + 1]
  BY <1>1, <1>3 DEF TypeOK
<1>5. Others(p)
  BY <1>3 DEF WriteBlock, Goto, TypeOK, Others
<1>6. pc'[p] = IF req[p].done + 1 = req[p].len THEN "record" ELSE "write"
  BY DEF WriteBlock, Goto, TypeOK
<1>7. req[p].off + req[p].done + 1 \in 1 .. total
  BY <1>1, <1>2
<1>8. /\ UNCHANGED <<total, rowVars, there, storeVars, taskVars, history>>
      /\ part' = IF there THEN Append(part, req[p].off + req[p].done + 1) ELSE part
  BY DEF WriteBlock
<1> QED
  BY <1>2, <1>4, <1>5, <1>6, <1>7, <1>8 DEF Wrote

\* The row takes the end of the PATCH; an assembly starts if it is the end.
Recorded(p) ==
    /\ UNCHANGED <<total, registered, completed, fileVars, storeVars, data, withdrawn,
                   mangled>>
    /\ uploaded' = IF registered THEN End(p) ELSE uploaded
    /\ Others(p) /\ pc[p] = "record"
    /\ \/ pc'[p] = "await" /\ req'[p] = req[p] /\ End(p) = total
          /\ step' = [step EXCEPT ![p] = "read"]
       \/ Ended(p) /\ step' = step

LEMMA RecordEffect ==
  ASSUME TypeOK, NEW p \in Proc, Record(p)
  PROVE  Recorded(p)
<1>1. /\ UNCHANGED <<total, registered, completed, fileVars, storeVars, data,
                     withdrawn,
                     mangled>>
      /\ uploaded' = IF registered THEN End(p) ELSE uploaded
      /\ pc[p] = "record"
  BY DEF Record
<1>2. CASE End(p) = total
  BY <1>1, <1>2 DEF Record, Goto, Run, TypeOK, Others, Recorded
<1>3. CASE End(p) # total
  <2>1. Leave(p) /\ step' = step
    BY <1>3 DEF Record, Accept, Reply
  <2> QED
    BY <1>1, <2>1, LeaveEffect DEF Recorded
<1> QED
  BY <1>2, <1>3

\* The end of an assembly changes only the handler that waits for it.
LEMMA FinishEffect ==
  ASSUME TypeOK, NEW t \in Task, NEW ok \in BOOLEAN, Finish(t, ok)
  PROVE  /\ step' = [step EXCEPT ![t] = "idle"] /\ data' = [data EXCEPT ![t] = <<>>]
         /\ \/ UNCHANGED <<pc, req, cpc, coff, peer>>
            \/ t \in Proc /\ pc[t] = "await" /\ (Accept(t) \/ Refuse(t))
  BY DEF Finish, Run, patchVars, clientVars

\* PATCHes that append go on appending where they were.
Steady == \A q \in Proc : /\ pc'[q] \in Appending <=> pc[q] \in Appending
                          /\ pc[q] \in Appending => pc'[q] = pc[q] /\ req'[q] = req[q]

LEMMA FinishIsSteady ==
  ASSUME TypeOK, NEW t \in Task, NEW ok \in BOOLEAN, Finish(t, ok)
  PROVE  Steady
<1>1. CASE UNCHANGED <<pc, req>>
  BY <1>1 DEF Steady
<1>2. CASE t \in Proc /\ pc[t] = "await" /\ (Accept(t) \/ Refuse(t))
  <2>1. Others(t) /\ pc'[t] = "idle"
    BY <1>2, LeaveEffect DEF Accept, Refuse, Reply, Ended
  <2> QED
    BY <1>2, <2>1 DEF Others, Steady, Appending
<1> QED
  BY <1>1, <1>2, FinishEffect

\* So do they when an assembly reads, ends or fails.
LEMMA AssemblyIsSteady ==
  ASSUME TypeOK, NEW t \in Task, ReadPart(t) \/ Remove(t) \/ FinishFails(t)
  PROVE  Steady
<1>1. ASSUME ReadPart(t), there /\ home = "there" PROVE Steady
  BY <1>1 DEF ReadPart, patchVars, Steady
<1>2. ASSUME ReadPart(t), ~(there /\ home = "there") PROVE Steady
  BY <1>2, FinishIsSteady DEF ReadPart
<1>3. ASSUME Remove(t) PROVE Steady
  BY <1>3, FinishIsSteady DEF Remove
<1>4. ASSUME FinishFails(t) PROVE Steady
  BY <1>4, FinishIsSteady DEF FinishFails
<1> QED
  BY <1>1, <1>2, <1>3, <1>4

\* A block that is appended in order leaves a file in order.
LEMMA NextBlock ==
  ASSUME NEW S, NEW s \in Seq(S), \A i \in 1 .. Len(s) : s[i] = i
  PROVE  LET e == Append(s, Len(s) + 1)
         IN  Len(e) = Len(s) + 1 /\ \A i \in 1 .. Len(e) : e[i] = i
<1> DEFINE e == Append(s, Len(s) + 1)
<1>1. Len(e) = Len(s) + 1 /\ \A i \in 1 .. Len(s) : e[i] = s[i]
  OBVIOUS
<1>2. e[Len(s) + 1] = Len(s) + 1
  OBVIOUS
<1> QED
  BY <1>1, <1>2

\* Appending keeps a sequence in its type.
LEMMA AppendIn ==
  ASSUME NEW S, NEW s \in Seq(S), NEW x \in S
  PROVE  Append(s, x) \in Seq(S)
  OBVIOUS

-----------------------------------------------------------------------------
(***************************************************************************)
(* Types.                                                                  *)
(***************************************************************************)
\* TypeOK of the PATCH handlers and of the client.
PatchTyped ==
    /\ pc \in [Proc -> {"idle", "check", "await"} \cup Appending]
    /\ req \in [Proc -> [off : 0 .. total, len : 0 .. total, done : 0 .. total]]
ClientTyped ==
    /\ cpc \in {"new", "creating", "ready", "waiting", "failed", "head",
                "deleting", "unlinked", "done", "over"}
    /\ coff \in 0 .. total /\ peer \in Proc \cup {Nobody}

\* A reply leaves both in their types.
LEMMA ReplyTypes ==
  ASSUME TypeOK, total' = total, NEW p \in Proc, NEW off \in 0 .. total,
         NEW state \in {"done", "ready", "head", "failed"}, Reply(p, state, off)
  PROVE  PatchTyped' /\ ClientTyped'
<1>1. ClientTyped'
  BY DEF TypeOK, Reply, ClientTyped, clientVars
<1>2. NoReq \in [off : 0 .. total, len : 0 .. total, done : 0 .. total]
  BY TusAssumption DEF TypeOK, NoReq
<1>3. PatchTyped'
  BY <1>2 DEF TypeOK, Reply, Leave, Goto, PatchTyped
<1> QED
  BY <1>1, <1>3

\* So do the three ways a handler ends.
LEMMA AnswerTypes ==
  ASSUME TypeOK, ReqOK, total' = total, NEW p \in Proc, pc[p] # "idle",
         Accept(p) \/ Conflict(p) \/ Refuse(p)
  PROVE  PatchTyped' /\ ClientTyped'
<1>1. coff \in 0 .. total
  BY DEF TypeOK
<1>2. End(p) \in 0 .. total
  <2>1. /\ req[p] \in [off : 0 .. total, len : 0 .. total, done : 0 .. total]
        /\ total \in Nat
    BY TusAssumption DEF TypeOK
  <2> QED
    BY <2>1 DEF ReqOK, InRange, End
<1>3. ASSUME Accept(p) PROVE PatchTyped' /\ ClientTyped'
  BY <1>2, <1>3, ReplyTypes DEF Accept
<1>4. ASSUME Conflict(p) \/ Refuse(p) PROVE PatchTyped' /\ ClientTyped'
  BY <1>1, <1>4, ReplyTypes DEF Conflict, Refuse
<1> QED
  BY <1>3, <1>4

\* The end of an assembly, too, and it lets go of what it read.
LEMMA FinishTypes ==
  ASSUME TypeOK, ReqOK, total' = total, NEW t \in Task, NEW ok \in BOOLEAN, Finish(t, ok)
  PROVE  /\ PatchTyped' /\ ClientTyped'
         /\ step' = [step EXCEPT ![t] = "idle"] /\ data' = [data EXCEPT ![t] = <<>>]
<1>1. CASE UNCHANGED <<pc, req, cpc, coff, peer>>
  BY <1>1, FinishEffect DEF TypeOK, PatchTyped, ClientTyped
<1>2. CASE t \in Proc /\ pc[t] = "await" /\ (Accept(t) \/ Refuse(t))
  BY <1>2, FinishEffect, AnswerTypes
<1> QED
  BY <1>1, <1>2, FinishEffect

-----------------------------------------------------------------------------
-----------------------------------------------------------------------------
(***************************************************************************)
(* One step of anybody keeps each part of the invariant.                   *)
(***************************************************************************)
\* The types: what a handler or an assembly answers is in range because the
\* PATCH is.
LEMMA TypesStep == IInv /\ [Next]_vars => TypeOK'
<1> SUFFICES ASSUME IInv, [Next]_vars PROVE TypeOK'
  OBVIOUS
<1>write. \A p \in Proc : WriteBlock(p) => Wrote(p)
  BY WriteEffect DEF IInv
<1>types. \A p \in Proc :
            /\ total' = total /\ pc[p] # "idle"
            /\ Accept(p) \/ Conflict(p) \/ Refuse(p)
            => PatchTyped' /\ ClientTyped'
  BY AnswerTypes DEF IInv
<1>ends. \A t \in Task : total' = total /\ (Finish(t, TRUE) \/ Finish(t, FALSE)) =>
           /\ PatchTyped' /\ ClientTyped'
           /\ step' = [step EXCEPT ![t] = "idle"] /\ data' = [data EXCEPT ![t] = <<>>]
  BY FinishTypes DEF IInv
<1> USE TusAssumption DEF IInv, TypeOK, ReqOK, InRange, NoReq, End, Task,
        Appending, rowVars, fileVars, storeVars, patchVars, taskVars,
        clientVars, history
<1>1. ASSUME CreateFile PROVE TypeOK'
  BY <1>1 DEF CreateFile
<1>2. ASSUME CreateRow PROVE TypeOK'
  BY <1>2 DEF CreateRow
<1>3. ASSUME Disconnect PROVE TypeOK'
  BY <1>3 DEF Disconnect, Fault
<1>4. ASSUME Resume PROVE TypeOK'
  BY <1>4 DEF Resume
<1>5. ASSUME Cancel PROVE TypeOK'
  BY <1>5 DEF Cancel
<1>6. ASSUME HeadOffset PROVE TypeOK'
  BY <1>6 DEF HeadOffset
<1>7. ASSUME DeleteFile PROVE TypeOK'
  BY <1>7 DEF DeleteFile
<1>8. ASSUME DeleteRow PROVE TypeOK'
  BY <1>8 DEF DeleteRow
<1>9. ASSUME NEW p \in Proc, NEW n \in 1 .. total, Send(p, n) PROVE TypeOK'
  BY <1>9 DEF Send, Goto
<1>10. ASSUME NEW p \in Proc, Check(p) PROVE TypeOK'
  <2>1. /\ mangled' \in BOOLEAN
        /\ UNCHANGED <<total, rowVars, fileVars, storeVars, taskVars, faults,
                       withdrawn, again>>
    BY <1>10 DEF Check
  <2>2. PatchTyped' /\ ClientTyped'
    <3>1. CASE Goto(p, "open") /\ UNCHANGED <<req, clientVars>>
      BY <2>1, <3>1 DEF Goto, PatchTyped, ClientTyped
    <3>2. CASE Conflict(p) \/ Refuse(p)
      <4>1. pc[p] # "idle" /\ total' = total
        BY <1>10, <2>1 DEF Check
      <4> QED
        BY <1>types, <3>2, <4>1
    <3> QED
      BY <1>10, <3>1, <3>2 DEF Check
  <2> QED
    BY <2>1, <2>2 DEF PatchTyped, ClientTyped
<1>11. ASSUME NEW p \in Proc, OpenPart(p) PROVE TypeOK'
  <2>1. UNCHANGED <<total, rowVars, fileVars, storeVars, taskVars, faults, history>>
    BY <1>11 DEF OpenPart
  <2>2. PatchTyped' /\ ClientTyped'
    <3>1. CASE Goto(p, "write") /\ UNCHANGED <<req, clientVars>>
      BY <2>1, <3>1 DEF Goto, PatchTyped, ClientTyped
    <3>2. CASE Refuse(p)
      <4>1. pc[p] # "idle" /\ total' = total
        BY <1>11, <2>1 DEF OpenPart
      <4> QED
        BY <1>types, <3>2, <4>1
    <3> QED
      BY <1>11, <3>1, <3>2 DEF OpenPart
  <2> QED
    BY <2>1, <2>2 DEF PatchTyped, ClientTyped
<1>12. ASSUME NEW p \in Proc, WriteBlock(p) PROVE TypeOK'
  <2>1. /\ Wrote(p)
        /\ UNCHANGED <<total, rowVars, there, storeVars, taskVars, clientVars,
                       faults, history>>
    BY <1>12, <1>write DEF WriteBlock
  <2>2. part' \in Seq(1 .. total)
    <3>1. part \in Seq(1 .. total) /\ req[p].off + req[p].done + 1 \in 1 .. total
      BY <2>1 DEF Wrote
    <3>2. Append(part, req[p].off + req[p].done + 1) \in Seq(1 .. total)
      BY <3>1, AppendIn
    <3> QED
      BY <2>1, <3>1, <3>2 DEF Wrote
  <2>3. PatchTyped'
    <3>1. pc' \in [Proc -> {"idle", "check", "await"} \cup Appending]
      BY <1>12 DEF WriteBlock, Goto
    <3>2. req[p].done + 1 \in 0 .. total
      <4>1. /\ req[p].done \in Nat /\ req[p].off \in Nat /\ req[p].len \in 0 .. total
            /\ req[p].done < req[p].len
        BY <2>1 DEF Wrote
      <4> QED
        BY <4>1
    <3>3. [req[p] EXCEPT !.done = req[p].done + 1]
            \in [off : 0 .. total, len : 0 .. total, done : 0 .. total]
      BY <3>2
    <3>4. req' = [req EXCEPT ![p] = [req[p] EXCEPT !.done = req[p].done + 1]]
      BY <1>12 DEF WriteBlock
    <3>5. req' \in [Proc -> [off : 0 .. total, len : 0 .. total, done : 0 .. total]]
      BY <3>3, <3>4
    <3> QED
      BY <2>1, <3>1, <3>5 DEF PatchTyped
  <2> QED
    BY SMTT(40), <2>1, <2>2, <2>3 DEF PatchTyped
<1>13. ASSUME NEW p \in Proc, Record(p) PROVE TypeOK'
  <2>1. /\ UNCHANGED <<total, registered, completed, fileVars, storeVars, data,
                       faults, withdrawn, mangled>>
        /\ uploaded' = (IF registered THEN End(p) ELSE uploaded) /\ pc[p] # "idle"
    BY <1>13 DEF Record
  <2>2. uploaded' \in 0 .. total
    <3>1. /\ End(p) <= total /\ req[p].off \in Nat /\ req[p].len \in Nat
          /\ uploaded \in 0 .. total
      BY <2>1
    <3> QED
      BY <2>1, <3>1
  <2>3. /\ PatchTyped' /\ ClientTyped' /\ again' \in BOOLEAN
        /\ step' \in [Task -> {"idle", "check", "read", "insert", "account",
                               "complete", "remove"}]
    <3>1. CASE /\ Goto(p, "await") /\ Run(p, "read")
               /\ again' = (again \/ Beside(p))
               /\ UNCHANGED <<req, clientVars>>
      BY <2>1, <3>1 DEF Goto, Run, PatchTyped, ClientTyped
    <3>2. CASE Accept(p) /\ UNCHANGED <<step, again>>
      BY <1>types, <2>1, <3>2
    <3> QED
      BY <1>13, <3>1, <3>2 DEF Record
  <2> QED
    BY <2>1, <2>2, <2>3 DEF PatchTyped, ClientTyped
<1>14. ASSUME NEW p \in Proc, PatchFails(p) PROVE TypeOK'
  BY SMTT(40), <1>14 DEF PatchFails, Fault, Torn, Refuse, Reply, Leave, Goto
<1>15. ASSUME NEW p \in Proc, Drop(p) PROVE TypeOK'
  BY <1>15 DEF Drop, Torn, Leave, Goto
<1>16. ASSUME NEW t \in Task, ReadPart(t) PROVE TypeOK'
  <2>1. UNCHANGED <<total, rowVars, fileVars, storeVars, faults, history>>
    BY <1>16 DEF ReadPart
  <2>2. /\ PatchTyped' /\ ClientTyped'
        /\ step' \in [Task -> {"idle", "check", "read", "insert", "account",
                               "complete", "remove"}]
        /\ data' \in [Task -> Seq(1 .. total)]
    <3>1. CASE there /\ home = "there"
      BY ZenonT(60), <1>16, <2>1, <3>1 DEF ReadPart, Run, PatchTyped, ClientTyped
    <3>2. CASE ~(there /\ home = "there")
      <4>1. total' = total /\ (Finish(t, TRUE) \/ Finish(t, FALSE))
        BY <1>16, <2>1, <3>2 DEF ReadPart
      <4>2. /\ PatchTyped' /\ ClientTyped'
            /\ step' = [step EXCEPT ![t] = "idle"] /\ data' = [data EXCEPT ![t] = <<>>]
        BY <1>ends, <4>1
      <4> QED
        BY <4>2
    <3> QED
      BY <3>1, <3>2
  <2> QED
    BY <2>1, <2>2 DEF PatchTyped, ClientTyped
<1>17. ASSUME NEW t \in Task, InsertVersion(t) PROVE TypeOK'
  BY <1>17 DEF InsertVersion, Run
<1>18. ASSUME NEW t \in Task, Account(t) PROVE TypeOK'
  BY SMTT(40), <1>18 DEF Account, Run
<1>19. ASSUME NEW t \in Task, Complete(t) PROVE TypeOK'
  BY <1>19 DEF Complete, Run
<1>20. ASSUME NEW t \in Task, Remove(t) PROVE TypeOK'
  <2>1. /\ there' \in BOOLEAN
        /\ UNCHANGED <<total, rowVars, part, storeVars, faults, history>>
    BY <1>20 DEF Remove
  <2>2. /\ PatchTyped' /\ ClientTyped'
        /\ step' \in [Task -> {"idle", "check", "read", "insert", "account",
                               "complete", "remove"}]
        /\ data' \in [Task -> Seq(1 .. total)]
    <3>1. total' = total /\ (Finish(t, TRUE) \/ Finish(t, FALSE))
      BY <1>20, <2>1 DEF Remove
    <3>2. /\ PatchTyped' /\ ClientTyped'
          /\ step' = [step EXCEPT ![t] = "idle"] /\ data' = [data EXCEPT ![t] = <<>>]
      BY <1>ends, <3>1
    <3> QED
      BY <3>2
  <2> QED
    BY <2>1, <2>2 DEF PatchTyped, ClientTyped
<1>21. ASSUME NEW t \in Task, FinishFails(t) PROVE TypeOK'
  <2>1. /\ again' \in BOOLEAN /\ faults' \in 0 .. MaxFaults
        /\ UNCHANGED <<total, rowVars, fileVars, storeVars, withdrawn, mangled>>
    BY <1>21 DEF FinishFails, Fault
  <2>2. /\ PatchTyped' /\ ClientTyped'
        /\ step' \in [Task -> {"idle", "check", "read", "insert", "account",
                               "complete", "remove"}]
        /\ data' \in [Task -> Seq(1 .. total)]
    <3>1. total' = total /\ (Finish(t, TRUE) \/ Finish(t, FALSE))
      BY <1>21, <2>1 DEF FinishFails
    <3>2. /\ PatchTyped' /\ ClientTyped'
          /\ step' = [step EXCEPT ![t] = "idle"] /\ data' = [data EXCEPT ![t] = <<>>]
      BY <1>ends, <3>1
    <3> QED
      BY <3>2
  <2> QED
    BY <2>1, <2>2 DEF PatchTyped, ClientTyped
<1>22. ASSUME SelectPending \/ CheckPart PROVE TypeOK'
  BY ZenonT(60), <1>22 DEF SelectPending, CheckPart, Run, Beside
<1>23. ASSUME Crash PROVE TypeOK'
  <2>1. PatchTyped' /\ ClientTyped'
    BY <1>23 DEF Crash, PatchTyped, ClientTyped
  <2>2. /\ step' \in [Task -> {"idle", "check", "read", "insert", "account",
                               "complete", "remove"}]
        /\ data' \in [Task -> Seq(1 .. total)] /\ faults' \in 0 .. MaxFaults
    BY <1>23 DEF Crash, Fault
  <2>3. mangled' \in BOOLEAN /\ again' \in BOOLEAN
    BY <1>23 DEF Crash
  <2>4. UNCHANGED <<total, rowVars, fileVars, storeVars, withdrawn>>
    BY <1>23 DEF Crash
  <2> QED
    BY SMTT(40), <2>1, <2>2, <2>3, <2>4 DEF PatchTyped, ClientTyped
<1>home. ASSUME Admit \/ Evict PROVE TypeOK'
  <2>1. home' \in {"none", "there", "gone"}
    BY <1>home DEF Admit, Evict
  <2>2. /\ UNCHANGED <<total, rowVars, fileVars, versions, charged, patchVars, taskVars>>
        /\ UNCHANGED <<clientVars, faults, history>>
    BY <1>home DEF Admit, Evict
  <2> QED
    BY SMTT(40), <2>1, <2>2
<1>24. ASSUME UNCHANGED vars PROVE TypeOK'
  BY <1>24 DEF vars
<1> QED
  BY <1>1, <1>2, <1>3, <1>4, <1>5, <1>6, <1>7, <1>8, <1>9, <1>10, <1>11,
     <1>12, <1>13, <1>14, <1>15, <1>16, <1>17, <1>18, <1>19, <1>20, <1>21,
     <1>22, <1>23, <1>24, <1>home
  DEF Next, Client, Handler, Assembly, Resumption

\* A PATCH stays within the length announced.
LEMMA ReqStep == IInv /\ [Next]_vars => ReqOK'
<1> SUFFICES ASSUME IInv, [Next]_vars PROVE ReqOK'
  OBVIOUS
<1>check. \A p \in Proc : Check(p) => Checked(p)
  BY CheckEffect DEF IInv
<1>open. \A p \in Proc : OpenPart(p) => Opened(p)
  BY OpenEffect DEF IInv
<1>write. \A p \in Proc : WriteBlock(p) => Wrote(p)
  BY WriteEffect DEF IInv
<1>record. \A p \in Proc : Record(p) => Recorded(p)
  BY RecordEffect DEF IInv
<1> USE DEF IInv, TypeOK, ReqOK, InRange, NoReq, End, Task, Appending,
        rowVars, fileVars, storeVars, patchVars, taskVars, clientVars, history
<1>1. ASSUME \/ CreateFile \/ CreateRow \/ Disconnect \/ Resume \/ Cancel
             \/ HeadOffset \/ DeleteFile \/ DeleteRow
      PROVE  ReqOK'
  BY <1>1 DEF CreateFile, CreateRow, Disconnect, Resume, Cancel,
         HeadOffset, DeleteFile, DeleteRow, Fault
<1>2. ASSUME NEW p \in Proc, NEW n \in 1 .. total, Send(p, n) PROVE ReqOK'
  BY <1>2 DEF Send, Goto
<1>3. ASSUME NEW p \in Proc, Check(p) PROVE ReqOK'
  <2>1. Checked(p) /\ total' = total
    BY <1>3, <1>check DEF Checked
  <2>2. ASSUME NEW q \in Proc, q # p PROVE InRange(q)'
    BY <2>1, <2>2 DEF Checked, Others
  <2>3. InRange(p)'
    <3>1. CASE Admitted(p)
      BY <2>1, <3>1 DEF Admitted
    <3>2. CASE Ended(p)
      BY <3>2 DEF Ended
    <3> QED
      BY <2>1, <3>1, <3>2 DEF Checked
  <2> QED
    BY <2>2, <2>3
<1>4. ASSUME NEW p \in Proc, OpenPart(p) PROVE ReqOK'
  <2>1. Opened(p)
    BY <1>4, <1>open
  <2>2. req[p].done = 0 /\ req[p].len >= 1 /\ req[p].off + req[p].len <= total
    BY <2>1 DEF Opened
  <2>3. ASSUME NEW q \in Proc, q # p PROVE InRange(q)'
    BY <2>1, <2>3 DEF Opened, Others
  <2>4. InRange(p)'
    BY <2>1, <2>2 DEF Opened, Ended
  <2> QED
    BY <2>3, <2>4
<1>5. ASSUME NEW p \in Proc, WriteBlock(p) PROVE ReqOK'
  <2>1. Wrote(p)
    BY <1>5, <1>write
  <2>2. /\ req[p].len \in Nat /\ req[p].done \in Nat
        /\ req[p].len >= 1 /\ req[p].off + req[p].len <= total
    BY SMTT(40), <2>1 DEF Wrote
  <2>3. ASSUME NEW q \in Proc, q # p PROVE InRange(q)'
    BY <2>1, <2>3 DEF Wrote, Others
  <2>4. InRange(p)'
    BY <2>1, <2>2 DEF Wrote
  <2> QED
    BY <2>3, <2>4
<1>6. ASSUME NEW p \in Proc, Record(p) PROVE ReqOK'
  <2>1. Recorded(p) /\ total' = total
    BY <1>6, <1>record DEF Recorded
  <2>2. ASSUME NEW q \in Proc, q # p PROVE InRange(q)'
    BY <2>1, <2>2 DEF Recorded, Others
  <2>3. InRange(p)'
    BY <2>1 DEF Recorded, Ended
  <2> QED
    BY <2>2, <2>3
<1>7. ASSUME NEW p \in Proc, PatchFails(p) PROVE ReqOK'
  BY <1>7 DEF PatchFails, Fault, Torn, Refuse, Reply, Leave, Goto
<1>8. ASSUME NEW p \in Proc, Drop(p) PROVE ReqOK'
  BY <1>8 DEF Drop, Torn, Leave, Goto
<1>9. ASSUME NEW t \in Task, ReadPart(t) PROVE ReqOK'
  BY SMTT(40), <1>9 DEF ReadPart, Run, Finish, Accept, Refuse, Reply, Leave, Goto
<1>10. ASSUME NEW t \in Task, Remove(t) PROVE ReqOK'
  BY <1>10 DEF Remove, Finish, Run, Accept, Refuse, Reply, Leave, Goto
<1>11. ASSUME NEW t \in Task, FinishFails(t) PROVE ReqOK'
  BY <1>11 DEF FinishFails, Fault, Finish, Run, Accept, Refuse, Reply,
         Leave, Goto
<1>12. ASSUME NEW t \in Task,
             InsertVersion(t) \/ Account(t) \/ Complete(t)
      PROVE  ReqOK'
  BY <1>12 DEF InsertVersion, Account, Complete, Run
<1>13. ASSUME SelectPending \/ CheckPart PROVE ReqOK'
  BY <1>13 DEF SelectPending, CheckPart, Run, Beside
<1>14. ASSUME Crash PROVE ReqOK'
  BY <1>14 DEF Crash, Fault, Torn
<1>home. ASSUME Admit \/ Evict PROVE ReqOK'
  BY <1>home DEF Admit, Evict
<1>15. ASSUME UNCHANGED vars PROVE ReqOK'
  BY <1>15 DEF vars
<1> QED
  BY <1>1, <1>2, <1>3, <1>4, <1>5, <1>6, <1>7, <1>8, <1>9, <1>10, <1>11,
     <1>12, <1>13, <1>14, <1>15, <1>home
  DEF Next, Client, Handler, Assembly, Resumption

\* Nothing touches an upload that does not exist yet.
LEMMA FreshStep == IInv /\ [Next]_vars => Fresh'
<1> SUFFICES ASSUME IInv, [Next]_vars PROVE Fresh'
  OBVIOUS
<1> USE DEF IInv, TypeOK, Fresh, Gone, NoReq, End, Task, Appending,
        rowVars, fileVars, storeVars, patchVars, taskVars, clientVars, history
<1>1. ASSUME \/ CreateFile \/ CreateRow \/ Disconnect \/ Resume \/ Cancel
             \/ HeadOffset \/ DeleteFile \/ DeleteRow
      PROVE  Fresh'
  BY <1>1 DEF CreateFile, CreateRow, Disconnect, Resume, Cancel,
         HeadOffset, DeleteFile, DeleteRow, Fault
<1>2. ASSUME NEW p \in Proc, NEW n \in 1 .. total, Send(p, n) PROVE Fresh'
  BY <1>2 DEF Send, Goto
<1>3. ASSUME NEW p \in Proc, Check(p) PROVE Fresh'
  BY <1>3 DEF Check, Goto, Refuse, Conflict, Reply, Leave
<1>4. ASSUME NEW p \in Proc, OpenPart(p) PROVE Fresh'
  BY <1>4 DEF OpenPart, Goto, Refuse, Reply, Leave
<1>5. ASSUME NEW p \in Proc, WriteBlock(p) PROVE Fresh'
  BY <1>5 DEF WriteBlock, Goto
<1>6. ASSUME NEW p \in Proc, Record(p) PROVE Fresh'
  BY <1>6 DEF Record, Goto, Run, Beside, Accept, Reply, Leave
<1>7. ASSUME NEW p \in Proc, PatchFails(p) PROVE Fresh'
  BY <1>7 DEF PatchFails, Fault, Torn, Refuse, Reply, Leave, Goto
<1>8. ASSUME NEW p \in Proc, Drop(p) PROVE Fresh'
  BY <1>8 DEF Drop, Torn, Leave, Goto
<1>9. ASSUME NEW t \in Task, ReadPart(t) PROVE Fresh'
  BY <1>9 DEF ReadPart, Run, Finish, Accept, Refuse, Reply, Leave, Goto
<1>10. ASSUME NEW t \in Task, Remove(t) PROVE Fresh'
  BY <1>10 DEF Remove, Finish, Run, Accept, Refuse, Reply, Leave, Goto
<1>11. ASSUME NEW t \in Task, FinishFails(t) PROVE Fresh'
  BY <1>11 DEF FinishFails, Fault, Finish, Run, Accept, Refuse, Reply,
         Leave, Goto
<1>12. ASSUME NEW t \in Task,
             InsertVersion(t) \/ Account(t) \/ Complete(t)
      PROVE  Fresh'
  BY <1>12 DEF InsertVersion, Account, Complete, Run
<1>13. ASSUME SelectPending \/ CheckPart PROVE Fresh'
  BY <1>13 DEF SelectPending, CheckPart, Run, Beside
<1>14. ASSUME Crash PROVE Fresh'
  BY <1>14 DEF Crash, Fault, Torn
<1>home. ASSUME Admit \/ Evict PROVE Fresh'
  BY <1>home DEF Admit, Evict
<1>15. ASSUME UNCHANGED vars PROVE Fresh'
  BY <1>15 DEF vars
<1> QED
  BY <1>1, <1>2, <1>3, <1>4, <1>5, <1>6, <1>7, <1>8, <1>9, <1>10, <1>11,
     <1>12, <1>13, <1>14, <1>15, <1>home
  DEF Next, Client, Handler, Assembly, Resumption

\* The row goes only after the client withdrew.
LEMMA GoneStep == IInv /\ [Next]_vars => Gone'
<1> SUFFICES ASSUME IInv, [Next]_vars PROVE Gone'
  OBVIOUS
<1> USE DEF IInv, TypeOK, Gone, NoReq, End, Task, Appending, rowVars,
        fileVars, storeVars, patchVars, taskVars, clientVars, history
<1>1. ASSUME \/ CreateFile \/ CreateRow \/ Disconnect \/ Resume \/ Cancel
             \/ HeadOffset \/ DeleteFile \/ DeleteRow
      PROVE  Gone'
  BY <1>1 DEF CreateFile, CreateRow, Disconnect, Resume, Cancel,
         HeadOffset, DeleteFile, DeleteRow, Fault
<1>2. ASSUME NEW p \in Proc, NEW n \in 1 .. total, Send(p, n) PROVE Gone'
  BY <1>2 DEF Send, Goto
<1>3. ASSUME NEW p \in Proc, Check(p) PROVE Gone'
  BY <1>3 DEF Check, Goto, Refuse, Conflict, Reply, Leave
<1>4. ASSUME NEW p \in Proc, OpenPart(p) PROVE Gone'
  BY <1>4 DEF OpenPart, Goto, Refuse, Reply, Leave
<1>5. ASSUME NEW p \in Proc, WriteBlock(p) PROVE Gone'
  BY <1>5 DEF WriteBlock, Goto
<1>6. ASSUME NEW p \in Proc, Record(p) PROVE Gone'
  BY <1>6 DEF Record, Goto, Run, Beside, Accept, Reply, Leave
<1>7. ASSUME NEW p \in Proc, PatchFails(p) PROVE Gone'
  BY <1>7 DEF PatchFails, Fault, Torn, Refuse, Reply, Leave, Goto
<1>8. ASSUME NEW p \in Proc, Drop(p) PROVE Gone'
  BY <1>8 DEF Drop, Torn, Leave, Goto
<1>9. ASSUME NEW t \in Task, ReadPart(t) PROVE Gone'
  BY <1>9 DEF ReadPart, Run, Finish, Accept, Refuse, Reply, Leave, Goto
<1>10. ASSUME NEW t \in Task, Remove(t) PROVE Gone'
  BY <1>10 DEF Remove, Finish, Run, Accept, Refuse, Reply, Leave, Goto
<1>11. ASSUME NEW t \in Task, FinishFails(t) PROVE Gone'
  BY <1>11 DEF FinishFails, Fault, Finish, Run, Accept, Refuse, Reply,
         Leave, Goto
<1>12. ASSUME NEW t \in Task,
             InsertVersion(t) \/ Account(t) \/ Complete(t)
      PROVE  Gone'
  BY <1>12 DEF InsertVersion, Account, Complete, Run
<1>13. ASSUME SelectPending \/ CheckPart PROVE Gone'
  BY <1>13 DEF SelectPending, CheckPart, Run, Beside
<1>14. ASSUME Crash PROVE Gone'
  BY <1>14 DEF Crash, Fault, Torn
<1>home. ASSUME Admit \/ Evict PROVE Gone'
  BY <1>home DEF Admit, Evict
<1>15. ASSUME UNCHANGED vars PROVE Gone'
  BY <1>15 DEF vars
<1> QED
  BY <1>1, <1>2, <1>3, <1>4, <1>5, <1>6, <1>7, <1>8, <1>9, <1>10, <1>11,
     <1>12, <1>13, <1>14, <1>15, <1>home
  DEF Next, Client, Handler, Assembly, Resumption

\* Who waits for a handler hears of it, or stops waiting.
LEMMA WaitsStep == IInv /\ [Next]_vars => Waits'
<1> SUFFICES ASSUME IInv, [Next]_vars PROVE Waits'
  OBVIOUS
<1> USE TusAssumption DEF IInv, TypeOK, Waits, NoReq, End, Task,
        Appending, rowVars, fileVars, storeVars, patchVars, taskVars,
        clientVars, history
<1>1. ASSUME \/ CreateFile \/ CreateRow \/ Disconnect \/ Resume \/ Cancel
             \/ HeadOffset \/ DeleteFile \/ DeleteRow
      PROVE  Waits'
  BY <1>1 DEF CreateFile, CreateRow, Disconnect, Resume, Cancel,
         HeadOffset, DeleteFile, DeleteRow, Fault
<1>2. ASSUME NEW p \in Proc, NEW n \in 1 .. total, Send(p, n) PROVE Waits'
  BY <1>2 DEF Send, Goto
<1>3. ASSUME NEW p \in Proc, Check(p) PROVE Waits'
  BY <1>3 DEF Check, Goto, Refuse, Conflict, Reply, Leave
<1>4. ASSUME NEW p \in Proc, OpenPart(p) PROVE Waits'
  BY <1>4 DEF OpenPart, Goto, Refuse, Reply, Leave
<1>5. ASSUME NEW p \in Proc, WriteBlock(p) PROVE Waits'
  BY <1>5 DEF WriteBlock, Goto
<1>6. ASSUME NEW p \in Proc, Record(p) PROVE Waits'
  BY <1>6 DEF Record, Goto, Run, Beside, Accept, Reply, Leave
<1>7. ASSUME NEW p \in Proc, PatchFails(p) PROVE Waits'
  BY <1>7 DEF PatchFails, Fault, Torn, Refuse, Reply, Leave, Goto
<1>8. ASSUME NEW p \in Proc, Drop(p) PROVE Waits'
  BY <1>8 DEF Drop, Torn, Leave, Goto
<1>9. ASSUME NEW t \in Task, ReadPart(t) PROVE Waits'
  BY <1>9 DEF ReadPart, Run, Finish, Accept, Refuse, Reply, Leave, Goto
<1>10. ASSUME NEW t \in Task, Remove(t) PROVE Waits'
  BY <1>10 DEF Remove, Finish, Run, Accept, Refuse, Reply, Leave, Goto
<1>11. ASSUME NEW t \in Task, FinishFails(t) PROVE Waits'
  BY <1>11 DEF FinishFails, Fault, Finish, Run, Accept, Refuse, Reply,
         Leave, Goto
<1>12. ASSUME NEW t \in Task,
             InsertVersion(t) \/ Account(t) \/ Complete(t)
      PROVE  Waits'
  BY <1>12 DEF InsertVersion, Account, Complete, Run
<1>13. ASSUME SelectPending \/ CheckPart PROVE Waits'
  BY <1>13 DEF SelectPending, CheckPart, Run, Beside
<1>14. ASSUME Crash PROVE Waits'
  BY <1>14 DEF Crash, Fault, Torn
<1>home. ASSUME Admit \/ Evict PROVE Waits'
  BY <1>home DEF Admit, Evict
<1>15. ASSUME UNCHANGED vars PROVE Waits'
  BY <1>15 DEF vars
<1> QED
  BY <1>1, <1>2, <1>3, <1>4, <1>5, <1>6, <1>7, <1>8, <1>9, <1>10, <1>11,
     <1>12, <1>13, <1>14, <1>15, <1>home
  DEF Next, Client, Handler, Assembly, Resumption

\* A block is on disk before a row or a cursor counts on it.
LEMMA OnDiskStep == IInv /\ [Next]_vars => OnDisk'
<1> SUFFICES ASSUME IInv, [Next]_vars PROVE OnDisk'
  OBVIOUS
<1>check. \A p \in Proc : Check(p) => Checked(p)
  BY CheckEffect DEF IInv
<1>open. \A p \in Proc : OpenPart(p) => Opened(p)
  BY OpenEffect DEF IInv
<1>write. \A p \in Proc : WriteBlock(p) => Wrote(p)
  BY WriteEffect DEF IInv
<1>record. \A p \in Proc : Record(p) => Recorded(p)
  BY RecordEffect DEF IInv
<1>steady. \A t \in Task : ReadPart(t) \/ Remove(t) \/ FinishFails(t) => Steady
  BY AssemblyIsSteady DEF IInv
<1> USE DEF IInv, TypeOK, ReqOK, InRange, Fresh, OnDisk, Covered, NoReq,
        End, Task, Appending, rowVars, fileVars, storeVars, patchVars,
        taskVars, clientVars, history
<1>1. ASSUME CreateFile PROVE OnDisk'
  BY <1>1 DEF CreateFile
<1>2. ASSUME CreateRow PROVE OnDisk'
  BY <1>2 DEF CreateRow
<1>3. ASSUME Disconnect PROVE OnDisk'
  BY <1>3 DEF Disconnect, Fault
<1>4. ASSUME Resume PROVE OnDisk'
  BY <1>4 DEF Resume
<1>5. ASSUME Cancel PROVE OnDisk'
  BY <1>5 DEF Cancel
<1>6. ASSUME HeadOffset PROVE OnDisk'
  BY <1>6 DEF HeadOffset
<1>7. ASSUME DeleteFile PROVE OnDisk'
  BY <1>7 DEF DeleteFile
<1>8. ASSUME DeleteRow PROVE OnDisk'
  BY <1>8 DEF DeleteRow
<1>9. ASSUME NEW p \in Proc, NEW n \in 1 .. total, Send(p, n) PROVE OnDisk'
  BY <1>9 DEF Send, Goto
<1>10. ASSUME NEW p \in Proc, Check(p) PROVE OnDisk'
  <2>1. Checked(p)
    BY <1>10, <1>check
  <2>2. Admitted(p) => req[p].done = 0 /\ uploaded \in Nat
    BY DEF Admitted
  <2>3. ASSUME there, NEW q \in Proc, q # p PROVE Covered(q)'
    BY <2>1, <2>3 DEF Checked, Others
  <2>4. ASSUME there PROVE Covered(p)'
    <3>1. CASE Ended(p)
      BY <3>1 DEF Ended
    <3>2. CASE Admitted(p)
      <4>1. req'[p].off = uploaded /\ req'[p].done = 0 /\ registered /\ part' = part
        BY <2>1, <2>2, <3>2 DEF Checked, Admitted
      <4> QED
        BY <2>2, <2>4, <3>2, <4>1
    <3> QED
      BY <2>1, <3>1, <3>2 DEF Checked
  <2> QED
    BY <2>1, <2>3, <2>4 DEF Checked
<1>11. ASSUME NEW p \in Proc, OpenPart(p) PROVE OnDisk'
  BY <1>11, <1>open DEF Opened, Others, Ended
<1>12. ASSUME NEW p \in Proc, WriteBlock(p) PROVE OnDisk'
  <2>1. Wrote(p) /\ UNCHANGED <<total, uploaded, registered, there>>
    BY <1>12, <1>write DEF Wrote
  <2>2. there => Len(part') = Len(part) + 1
    BY <2>1 DEF Wrote
  <2>3. /\ \A q \in Proc : req[q].off \in Nat /\ req[q].done \in Nat
        /\ Len(part) \in Nat /\ uploaded \in Nat
    OBVIOUS
  <2>4. ASSUME there, NEW q \in Proc, q # p PROVE Covered(q)'
    <3>1. Covered(q) /\ pc'[q] = pc[q] /\ req'[q] = req[q]
      BY <2>1, <2>4 DEF Wrote, Others
    <3> QED
      BY SMTT(40), <2>2, <2>3, <2>4, <3>1
  <2>5. ASSUME there PROVE Covered(p)'
    BY SMTT(40), <2>1, <2>2, <2>3, <2>5 DEF Wrote
  <2> QED
    BY <2>1, <2>2, <2>3, <2>4, <2>5
<1>13. ASSUME NEW p \in Proc, Record(p) PROVE OnDisk'
  <2>1. Recorded(p) /\ UNCHANGED <<total, registered, part, there>>
    BY <1>13, <1>record DEF Recorded
  <2>2. req[p].done = req[p].len
    BY <2>1 DEF Recorded
  <2>3. ASSUME there, NEW q \in Proc PROVE Covered(q)'
    BY <2>1, <2>3 DEF Recorded, Others, Ended
  <2>4. there /\ registered => uploaded' <= Len(part)
    BY <2>1, <2>2 DEF Recorded
  <2> QED
    BY <2>1, <2>3, <2>4
<1>14. ASSUME NEW p \in Proc, PatchFails(p) PROVE OnDisk'
  BY <1>14 DEF PatchFails, Fault, Torn, Refuse, Reply, Leave, Goto
<1>15. ASSUME NEW p \in Proc, Drop(p) PROVE OnDisk'
  BY <1>15 DEF Drop, Torn, Leave, Goto
<1>16. ASSUME NEW t \in Task, ReadPart(t) PROVE OnDisk'
  <2>1. UNCHANGED <<total, rowVars, fileVars, storeVars, history>>
    BY <1>16 DEF ReadPart
  <2>2. Steady
    BY <1>16, <1>steady
  <2> QED
    BY <2>1, <2>2 DEF Steady
<1>17. ASSUME NEW t \in Task, Remove(t) PROVE OnDisk'
  <2>1. UNCHANGED <<total, rowVars, part, storeVars, history>>
    BY <1>17 DEF Remove
  <2>2. there' => there
    BY <1>17 DEF Remove
  <2>3. Steady
    BY <1>17, <1>steady
  <2> QED
    BY <2>1, <2>2, <2>3 DEF Steady
<1>18. ASSUME NEW t \in Task, FinishFails(t) PROVE OnDisk'
  <2>1. UNCHANGED <<total, rowVars, fileVars, storeVars, withdrawn, mangled>>
    BY <1>18 DEF FinishFails
  <2>2. Steady
    BY <1>18, <1>steady
  <2> QED
    BY <2>1, <2>2 DEF Steady
<1>19. ASSUME NEW t \in Task,
             InsertVersion(t) \/ Account(t) \/ Complete(t)
      PROVE  OnDisk'
  BY <1>19 DEF InsertVersion, Account, Complete, Run
<1>20. ASSUME SelectPending \/ CheckPart PROVE OnDisk'
  BY <1>20 DEF SelectPending, CheckPart, Run, Beside
<1>21. ASSUME Crash PROVE OnDisk'
  BY <1>21 DEF Crash, Fault, Torn
<1>home. ASSUME Admit \/ Evict PROVE OnDisk'
  BY <1>home DEF Admit, Evict
<1>22. ASSUME UNCHANGED vars PROVE OnDisk'
  BY <1>22 DEF vars
<1> QED
  BY <1>1, <1>2, <1>3, <1>4, <1>5, <1>6, <1>7, <1>8, <1>9, <1>10, <1>11,
     <1>12, <1>13, <1>14, <1>15, <1>16, <1>17, <1>18, <1>19, <1>20, <1>21,
     <1>22, <1>home
  DEF Next, Client, Handler, Assembly, Resumption

\* Unless mangled, Check lets one PATCH in at a time.
LEMMA OneWriterStep == IInv /\ [Next]_vars => OneWriter'
<1> SUFFICES ASSUME IInv, [Next]_vars PROVE OneWriter'
  OBVIOUS
<1>check. \A p \in Proc : Check(p) => Checked(p)
  BY CheckEffect DEF IInv
<1>open. \A p \in Proc : OpenPart(p) => Opened(p)
  BY OpenEffect DEF IInv
<1>write. \A p \in Proc : WriteBlock(p) => Wrote(p)
  BY WriteEffect DEF IInv
<1>record. \A p \in Proc : Record(p) => Recorded(p)
  BY RecordEffect DEF IInv
<1>steady. \A t \in Task : ReadPart(t) \/ Remove(t) \/ FinishFails(t) => Steady
  BY AssemblyIsSteady DEF IInv
<1> USE DEF IInv, TypeOK, ReqOK, InRange, OneWriter, NoReq, End, Task,
        Appending, rowVars, fileVars, storeVars, patchVars, taskVars,
        clientVars, history
<1>1. ASSUME \/ CreateFile \/ CreateRow \/ Disconnect \/ Resume \/ Cancel
             \/ HeadOffset \/ DeleteFile \/ DeleteRow
      PROVE  OneWriter'
  BY <1>1 DEF CreateFile, CreateRow, Disconnect, Resume, Cancel,
         HeadOffset, DeleteFile, DeleteRow, Fault
<1>2. ASSUME NEW p \in Proc, NEW n \in 1 .. total, Send(p, n) PROVE OneWriter'
  BY <1>2 DEF Send, Goto
<1>3. ASSUME NEW p \in Proc, Check(p) PROVE OneWriter'
  <2>1. Checked(p) /\ UNCHANGED uploaded
    BY <1>3, <1>check DEF Checked
  <2>2. ASSUME NEW q \in Proc, q # p PROVE pc'[q] = pc[q] /\ req'[q] = req[q]
    BY <2>1, <2>2 DEF Checked, Others
  <2>3. CASE Ended(p) /\ mangled' = mangled
    BY <2>1, <2>2, <2>3 DEF Ended
  <2>4. CASE Admitted(p)
    <3>1. /\ req'[p].off = uploaded
          /\ ~mangled' => ~mangled /\ \A q \in Proc \ {p} : pc[q] \notin Appending
      BY <2>4 DEF Admitted
    <3> QED
      BY <2>1, <2>2, <3>1
  <2> QED
    BY <2>1, <2>3, <2>4 DEF Checked
<1>4. ASSUME NEW p \in Proc, OpenPart(p) PROVE OneWriter'
  <2>1. Opened(p) /\ UNCHANGED <<uploaded, mangled>>
    BY <1>4, <1>open DEF Opened
  <2>2. \A q \in Proc : pc'[q] \in Appending =>
          pc[q] \in Appending /\ req'[q].off = req[q].off
    BY <2>1 DEF Opened, Others, Ended
  <2> QED
    BY <2>1, <2>2
<1>5. ASSUME NEW p \in Proc, WriteBlock(p) PROVE OneWriter'
  <2>1. Wrote(p) /\ UNCHANGED <<uploaded, mangled>>
    BY <1>5, <1>write DEF Wrote
  <2>2. ASSUME NEW q \in Proc, q # p PROVE pc'[q] = pc[q] /\ req'[q] = req[q]
    BY <2>1, <2>2 DEF Wrote, Others
  <2>3. req'[p].off = req[p].off /\ pc[p] \in Appending
    BY <2>1 DEF Wrote
  <2> QED
    BY <2>1, <2>2, <2>3
<1>6. ASSUME NEW p \in Proc, Record(p) PROVE OneWriter'
  BY ZenonT(60), <1>6, <1>record DEF Recorded, Others, Ended
<1>7. ASSUME NEW p \in Proc, PatchFails(p) PROVE OneWriter'
  BY <1>7 DEF PatchFails, Fault, Torn, Refuse, Reply, Leave, Goto
<1>8. ASSUME NEW p \in Proc, Drop(p) PROVE OneWriter'
  BY SMTT(40), <1>8 DEF Drop, Torn, Leave, Goto
<1>9. ASSUME NEW t \in Task, ReadPart(t) PROVE OneWriter'
  <2>1. UNCHANGED <<total, rowVars, fileVars, storeVars, history>>
    BY <1>9 DEF ReadPart
  <2>2. Steady
    BY <1>9, <1>steady
  <2> QED
    BY <2>1, <2>2 DEF Steady
<1>10. ASSUME NEW t \in Task, Remove(t) PROVE OneWriter'
  <2>1. UNCHANGED <<total, rowVars, part, storeVars, history>>
    BY <1>10 DEF Remove
  <2>2. there' => there
    BY <1>10 DEF Remove
  <2>3. Steady
    BY <1>10, <1>steady
  <2> QED
    BY <2>1, <2>2, <2>3 DEF Steady
<1>11. ASSUME NEW t \in Task, FinishFails(t) PROVE OneWriter'
  <2>1. UNCHANGED <<total, rowVars, fileVars, storeVars, withdrawn, mangled>>
    BY <1>11 DEF FinishFails
  <2>2. Steady
    BY <1>11, <1>steady
  <2> QED
    BY <2>1, <2>2 DEF Steady
<1>12. ASSUME NEW t \in Task,
             InsertVersion(t) \/ Account(t) \/ Complete(t)
      PROVE  OneWriter'
  BY <1>12 DEF InsertVersion, Account, Complete, Run
<1>13. ASSUME SelectPending \/ CheckPart PROVE OneWriter'
  BY <1>13 DEF SelectPending, CheckPart, Run, Beside
<1>14. ASSUME Crash PROVE OneWriter'
  BY <1>14 DEF Crash, Fault, Torn
<1>home. ASSUME Admit \/ Evict PROVE OneWriter'
  BY <1>home DEF Admit, Evict
<1>15. ASSUME UNCHANGED vars PROVE OneWriter'
  BY <1>15 DEF vars
<1> QED
  BY <1>1, <1>2, <1>3, <1>4, <1>5, <1>6, <1>7, <1>8, <1>9, <1>10, <1>11,
     <1>12, <1>13, <1>14, <1>15, <1>home
  DEF Next, Client, Handler, Assembly, Resumption

\* So what is appended comes next.
LEMMA PrefixStep == IInv /\ [Next]_vars => Prefix'
<1> SUFFICES ASSUME IInv, [Next]_vars PROVE Prefix'
  OBVIOUS
<1>check. \A p \in Proc : Check(p) => Checked(p)
  BY CheckEffect DEF IInv
<1>open. \A p \in Proc : OpenPart(p) => Opened(p)
  BY OpenEffect DEF IInv
<1>write. \A p \in Proc : WriteBlock(p) => Wrote(p)
  BY WriteEffect DEF IInv
<1>record. \A p \in Proc : Record(p) => Recorded(p)
  BY RecordEffect DEF IInv
<1>steady. \A t \in Task : ReadPart(t) \/ Remove(t) \/ FinishFails(t) => Steady
  BY AssemblyIsSteady DEF IInv
<1> USE DEF IInv, TypeOK, ReqOK, InRange, Fresh, Gone, OneWriter, Prefix,
        NoReq, End, Task, Appending, rowVars, fileVars, storeVars, patchVars,
        taskVars, clientVars, history
<1>1. ASSUME CreateFile PROVE Prefix'
  BY <1>1 DEF CreateFile
<1>2. ASSUME CreateRow PROVE Prefix'
  BY <1>2 DEF CreateRow
<1>3. ASSUME Disconnect PROVE Prefix'
  BY <1>3 DEF Disconnect, Fault
<1>4. ASSUME Resume PROVE Prefix'
  BY <1>4 DEF Resume
<1>5. ASSUME Cancel PROVE Prefix'
  BY <1>5 DEF Cancel
<1>6. ASSUME HeadOffset PROVE Prefix'
  BY <1>6 DEF HeadOffset
<1>7. ASSUME DeleteFile PROVE Prefix'
  BY <1>7 DEF DeleteFile
<1>8. ASSUME DeleteRow PROVE Prefix'
  BY <1>8 DEF DeleteRow
<1>9. ASSUME NEW p \in Proc, NEW n \in 1 .. total, Send(p, n) PROVE Prefix'
  BY <1>9 DEF Send, Goto
<1>10. ASSUME NEW p \in Proc, Check(p) PROVE Prefix'
  <2>1. Checked(p) /\ UNCHANGED <<registered, uploaded, part, there>>
    BY <1>10, <1>check DEF Checked
  <2>2. ASSUME NEW q \in Proc, q # p PROVE pc'[q] = pc[q] /\ req'[q] = req[q]
    BY <2>1, <2>2 DEF Checked, Others
  <2>3. CASE Ended(p) /\ mangled' = mangled
    <3>1. pc[p] \notin Appending /\ pc'[p] \notin Appending
      BY <2>1, <2>3 DEF Checked, Ended
    <3> QED
      BY <2>1, <2>2, <2>3, <3>1
  <2>4. CASE Admitted(p)
    <3>1. /\ ~mangled' => ~mangled /\ \A q \in Proc \ {p} : pc[q] \notin Appending
          /\ registered /\ pc[p] \notin Appending /\ pc'[p] \in Appending
      BY <2>4 DEF Admitted
    <3>2. req'[p].off + req'[p].done = uploaded
      <4>1. req[p].done = 0 /\ uploaded \in Nat
        BY <2>4 DEF Admitted
      <4> QED
        BY <2>4, <4>1 DEF Admitted
    <3> QED
      BY <2>1, <2>2, <3>1, <3>2
  <2> QED
    BY <2>1, <2>3, <2>4 DEF Checked
<1>11. ASSUME NEW p \in Proc, OpenPart(p) PROVE Prefix'
  BY ZenonT(60), <1>11, <1>open DEF Opened, Others, Ended
<1>12. ASSUME NEW p \in Proc, WriteBlock(p) PROVE Prefix'
  <2>1. Wrote(p) /\ UNCHANGED <<registered, uploaded, there, mangled>>
    BY <1>12, <1>write DEF Wrote
  <2>2. ASSUME NEW q \in Proc, q # p PROVE pc'[q] = pc[q] /\ req'[q] = req[q]
    BY <2>1, <2>2 DEF Wrote, Others
  <2>3. /\ pc[p] \in Appending /\ pc'[p] \in Appending
        /\ req'[p].off + req'[p].done = req[p].off + req[p].done + 1
    BY <2>1 DEF Wrote
  <2>4. ASSUME ~mangled, there
        PROVE  Len(part) = req[p].off + req[p].done /\ part' = Append(part, Len(part) + 1)
    BY <2>1, <2>3, <2>4 DEF Wrote
  <2>5. ASSUME ~mangled, there
        PROVE  Len(part') = Len(part) + 1 /\ \A i \in 1 .. Len(part') : part'[i] = i
    <3>1. part \in Seq(1 .. total) /\ \A i \in 1 .. Len(part) : part[i] = i
      BY <2>5
    <3> HIDE DEF TypeOK, Prefix
    <3> QED
      BY <2>4, <2>5, <3>1, NextBlock
  <2>6. ASSUME ~mangled, NEW q \in Proc, q # p PROVE pc[q] \notin Appending
    BY <2>3, <2>6
  <2> QED
    BY <2>1, <2>2, <2>3, <2>4, <2>5, <2>6
<1>13. ASSUME NEW p \in Proc, Record(p) PROVE Prefix'
  <2>1. Recorded(p) /\ UNCHANGED <<registered, part, there, mangled>>
    BY <1>13, <1>record DEF Recorded
  <2>2. ASSUME NEW q \in Proc, q # p PROVE pc'[q] = pc[q] /\ req'[q] = req[q]
    BY <2>1, <2>2 DEF Recorded, Others
  <2>3. pc[p] \in Appending /\ pc'[p] \notin Appending
    BY <2>1 DEF Recorded, Ended
  <2>4. registered => uploaded' = req[p].off + req[p].done
    BY <2>1 DEF Recorded
  <2>5. ASSUME ~mangled, NEW q \in Proc, q # p PROVE pc[q] \notin Appending
    BY <2>3, <2>5
  <2> QED
    BY <2>1, <2>2, <2>3, <2>4, <2>5
<1>14. ASSUME NEW p \in Proc, PatchFails(p) PROVE Prefix'
  BY SMTT(40), <1>14 DEF PatchFails, Fault, Torn, Refuse, Reply, Leave, Goto
<1>15. ASSUME NEW p \in Proc, Drop(p) PROVE Prefix'
  BY SMTT(40), <1>15 DEF Drop, Torn, Leave, Goto
<1>16. ASSUME NEW t \in Task, ReadPart(t) PROVE Prefix'
  <2>1. UNCHANGED <<total, rowVars, fileVars, storeVars, history>>
    BY <1>16 DEF ReadPart
  <2>2. Steady
    BY <1>16, <1>steady
  <2> QED
    BY <2>1, <2>2 DEF Steady
<1>17. ASSUME NEW t \in Task, Remove(t) PROVE Prefix'
  <2>1. UNCHANGED <<total, rowVars, part, storeVars, history>>
    BY <1>17 DEF Remove
  <2>2. there' => there
    BY <1>17 DEF Remove
  <2>3. Steady
    BY <1>17, <1>steady
  <2> QED
    BY <2>1, <2>2, <2>3 DEF Steady
<1>18. ASSUME NEW t \in Task, FinishFails(t) PROVE Prefix'
  <2>1. UNCHANGED <<total, rowVars, fileVars, storeVars, withdrawn, mangled>>
    BY <1>18 DEF FinishFails
  <2>2. Steady
    BY <1>18, <1>steady
  <2> QED
    BY <2>1, <2>2 DEF Steady
<1>19. ASSUME NEW t \in Task,
             InsertVersion(t) \/ Account(t) \/ Complete(t)
      PROVE  Prefix'
  BY <1>19 DEF InsertVersion, Account, Complete, Run
<1>20. ASSUME SelectPending \/ CheckPart PROVE Prefix'
  BY <1>20 DEF SelectPending, CheckPart, Run, Beside
<1>21. ASSUME Crash PROVE Prefix'
  BY SMTT(40), <1>21 DEF Crash, Fault, Torn
<1>home. ASSUME Admit \/ Evict PROVE Prefix'
  BY <1>home DEF Admit, Evict
<1>22. ASSUME UNCHANGED vars PROVE Prefix'
  BY <1>22 DEF vars
<1> QED
  BY <1>1, <1>2, <1>3, <1>4, <1>5, <1>6, <1>7, <1>8, <1>9, <1>10, <1>11,
     <1>12, <1>13, <1>14, <1>15, <1>16, <1>17, <1>18, <1>19, <1>20, <1>21,
     <1>22, <1>home
  DEF Next, Client, Handler, Assembly, Resumption

\* So an assembly that begins reads everything, and no PATCH can begin.
LEMMA AssembledStep == IInv /\ [Next]_vars => Assembled'
<1> SUFFICES ASSUME IInv, [Next]_vars PROVE Assembled'
  OBVIOUS
<1>check. \A p \in Proc : Check(p) => Checked(p)
  BY CheckEffect DEF IInv
<1>open. \A p \in Proc : OpenPart(p) => Opened(p)
  BY OpenEffect DEF IInv
<1>write. \A p \in Proc : WriteBlock(p) => Wrote(p)
  BY WriteEffect DEF IInv
<1>record. \A p \in Proc : Record(p) => Recorded(p)
  BY RecordEffect DEF IInv
<1>steady. \A t \in Task : ReadPart(t) \/ Remove(t) \/ FinishFails(t) => Steady
  BY AssemblyIsSteady DEF IInv
<1> USE TusAssumption DEF IInv, TypeOK, ReqOK, InRange, Fresh, Gone,
        OneWriter, Prefix, Assembled, Sound, Stored, NoReq, End, Task,
        Appending, rowVars, fileVars, storeVars, patchVars, taskVars,
        clientVars, history
<1>1. ASSUME \/ CreateFile \/ CreateRow \/ Disconnect \/ Resume \/ Cancel
             \/ HeadOffset \/ DeleteFile \/ DeleteRow
      PROVE  Assembled'
  BY <1>1 DEF CreateFile, CreateRow, Disconnect, Resume, Cancel,
         HeadOffset, DeleteFile, DeleteRow, Fault
<1>2. ASSUME NEW p \in Proc, NEW n \in 1 .. total, Send(p, n) PROVE Assembled'
  BY <1>2 DEF Send, Goto
<1>3. ASSUME NEW p \in Proc, Check(p) PROVE Assembled'
  <2>1. /\ Checked(p)
        /\ UNCHANGED <<total, registered, uploaded, part, there, step, data,
                       withdrawn>>
    BY <1>3, <1>check DEF Checked
  <2>2. \A q \in Proc \ {p} : pc'[q] = pc[q]
    BY <2>1 DEF Checked, Others
  <2>3. CASE Ended(p) /\ mangled' = mangled
    BY <2>1, <2>2, <2>3 DEF Ended
  <2>4. CASE Admitted(p)
    <3>1. ~mangled' => ~mangled
      BY <2>4 DEF Admitted
    <3>2. uploaded < total /\ registered
      <4>1. req[p].off = uploaded /\ registered /\ pc[p] = "check"
        BY <2>4 DEF Admitted
      <4>2. req[p].len >= 1 /\ req[p].off + req[p].len <= total /\ req[p].len \in Nat
        BY <4>1
      <4> QED
        BY <4>1, <4>2
    <3>3. ASSUME ~mangled', NEW t \in Task PROVE ~(step[t] = "read" /\ there)
      BY <3>1, <3>2, <3>3
    <3> QED
      BY <2>1, <3>1, <3>3
  <2> QED
    BY <2>1, <2>3, <2>4 DEF Checked
<1>4. ASSUME NEW p \in Proc, OpenPart(p) PROVE Assembled'
  BY <1>4, <1>open DEF Opened, Others, Ended
<1>5. ASSUME NEW p \in Proc, WriteBlock(p) PROVE Assembled'
  BY ZenonT(60), <1>5, <1>write DEF Wrote, Others
<1>6. ASSUME NEW p \in Proc, Record(p) PROVE Assembled'
  <2>1. /\ Recorded(p)
        /\ UNCHANGED <<total, registered, part, there, data, withdrawn, mangled>>
    BY <1>6, <1>record DEF Recorded
  <2>2. /\ pc[p] = "record" /\ req[p].done = req[p].len /\ req[p].len >= 1
        /\ End(p) <= total /\ total > 0
    BY SMTT(40), <2>1 DEF Recorded
  <2>3. \A q \in Proc : pc'[q] \in Appending => q # p /\ pc[q] \in Appending
    BY <2>1 DEF Recorded, Others, Ended
  <2>4. /\ uploaded' = (IF registered THEN End(p) ELSE uploaded)
        /\ \/ End(p) = total /\ step' = [step EXCEPT ![p] = "read"]
           \/ step' = step
    BY SMTT(40), <2>1 DEF Recorded
  <2>5. ASSUME ~mangled
        PROVE  /\ uploaded < total /\ \A q \in Proc : pc'[q] \notin Appending
               /\ there => Len(part) = End(p)
               /\ ~registered => withdrawn
    <3>1. req[p].off = uploaded /\ \A q \in Proc : pc[q] \in Appending => q = p
      BY <2>2, <2>5
    <3>2. uploaded < total
      BY <2>2, <3>1
    <3>3. there => Len(part) = End(p)
      BY <2>2, <2>5
    <3>4. ~registered => withdrawn
      BY <2>2
    <3> QED
      BY <2>3, <3>1, <3>2, <3>3, <3>4
  <2>6. ASSUME ~mangled, NEW t \in Task, step'[t] = step[t] PROVE Sound(t)'
    BY <2>1, <2>2, <2>4, <2>5, <2>6
  <2>7. ASSUME ~mangled, End(p) = total, step' = [step EXCEPT ![p] = "read"]
        PROVE  Sound(p)'
    BY <2>1, <2>2, <2>4, <2>5, <2>7
  <2>8. ASSUME ~mangled PROVE step'[Resumer] # "check"
    BY <2>4, <2>5, <2>8
  <2> QED
    BY <2>1, <2>4, <2>6, <2>7, <2>8
<1>7. ASSUME NEW p \in Proc, PatchFails(p) PROVE Assembled'
  BY <1>7 DEF PatchFails, Fault, Torn, Refuse, Reply, Leave, Goto
<1>8. ASSUME NEW p \in Proc, Drop(p) PROVE Assembled'
  BY <1>8 DEF Drop, Torn, Leave, Goto
<1>9. ASSUME NEW t \in Task, ReadPart(t) PROVE Assembled'
  <2>1. UNCHANGED <<total, registered, uploaded, part, there, withdrawn,
                    mangled>> /\ step[t] = "read"
    BY <1>9 DEF ReadPart
  <2>2. \A q \in Proc : pc'[q] \in Appending <=> pc[q] \in Appending
    BY <1>9, <1>steady DEF Steady
  <2>3. CASE there /\ home = "there"
    <3>1. step' = [step EXCEPT ![t] = "insert"] /\ data' = [data EXCEPT ![t] = part]
      BY <1>9, <2>3 DEF ReadPart, Run
    <3>2. ASSUME ~mangled PROVE part = Whole(total)
      <4>1. /\ part \in Seq(1 .. total) /\ Len(part) = total
            /\ \A i \in 1 .. Len(part) : part[i] = i
        BY <2>1, <2>3, <3>2
      <4> QED
        BY <4>1 DEF Whole
    <3> QED
      BY <2>1, <2>2, <2>3, <3>1, <3>2
  <2>4. CASE ~(there /\ home = "there")
    <3>1. step' = [step EXCEPT ![t] = "idle"] /\ data' = [data EXCEPT ![t] = <<>>]
      BY <1>9, <2>4 DEF ReadPart, Finish, Run
    <3> QED
      BY <2>1, <2>2, <2>4, <3>1
  <2> QED
    BY <2>3, <2>4
<1>10. ASSUME NEW t \in Task, InsertVersion(t) PROVE Assembled'
  BY <1>10 DEF InsertVersion, Run
<1>11. ASSUME NEW t \in Task, Remove(t) PROVE Assembled'
  BY ZenonT(60), <1>11 DEF Remove, Finish, Run, Accept, Refuse, Reply, Leave, Goto
<1>12. ASSUME NEW t \in Task, FinishFails(t) PROVE Assembled'
  BY SMTT(40), <1>12 DEF FinishFails, Fault, Finish, Run, Accept, Refuse, Reply,
         Leave, Goto
<1>13. ASSUME NEW t \in Task,
             Account(t) \/ Complete(t)
      PROVE  Assembled'
  BY SMTT(40), <1>13 DEF Account, Complete, Run
<1>14. ASSUME SelectPending PROVE Assembled'
  BY <1>14 DEF SelectPending, Run, Beside
<1>15. ASSUME CheckPart PROVE Assembled'
  <2>1. /\ UNCHANGED <<total, registered, uploaded, part, there, withdrawn, mangled,
                       pc, data>>
        /\ step[Resumer] = "check"
    BY <1>15 DEF CheckPart
  <2>2. CASE there /\ Len(part) = total /\ step' = [step EXCEPT ![Resumer] = "read"]
    <3>1. ASSUME ~mangled PROVE \A p \in Proc : pc[p] \notin Appending
      BY <2>1, <2>2, <3>1
    <3> QED
      BY <2>1, <2>2, <3>1
  <2>3. CASE step' = [step EXCEPT ![Resumer] = "idle"]
    BY <2>1, <2>3
  <2> QED
    BY <1>15, <2>2, <2>3 DEF CheckPart, Run
<1>16. ASSUME Crash PROVE Assembled'
  BY <1>16 DEF Crash, Fault, Torn
<1>home. ASSUME Admit \/ Evict PROVE Assembled'
  BY <1>home DEF Admit, Evict
<1>17. ASSUME UNCHANGED vars PROVE Assembled'
  BY <1>17 DEF vars
<1> QED
  BY <1>1, <1>2, <1>3, <1>4, <1>5, <1>6, <1>7, <1>8, <1>9, <1>10, <1>11,
     <1>12, <1>13, <1>14, <1>15, <1>16, <1>17, <1>home
  DEF Next, Client, Handler, Assembly, Resumption

\* A version, once stored, stays.
LEMMA LeftStep == IInv /\ [Next]_vars => Left'
<1> SUFFICES ASSUME IInv, [Next]_vars PROVE Left'
  OBVIOUS
<1> USE DEF IInv, TypeOK, Left, NoReq, End, Task, Appending, rowVars,
        fileVars, storeVars, patchVars, taskVars, clientVars, history
<1>1. ASSUME \/ CreateFile \/ CreateRow \/ Disconnect \/ Resume \/ Cancel
             \/ HeadOffset \/ DeleteFile \/ DeleteRow
      PROVE  Left'
  BY <1>1 DEF CreateFile, CreateRow, Disconnect, Resume, Cancel,
         HeadOffset, DeleteFile, DeleteRow, Fault
<1>2. ASSUME NEW p \in Proc, NEW n \in 1 .. total, Send(p, n) PROVE Left'
  BY <1>2 DEF Send, Goto
<1>3. ASSUME NEW p \in Proc, Check(p) PROVE Left'
  BY <1>3 DEF Check, Goto, Refuse, Conflict, Reply, Leave
<1>4. ASSUME NEW p \in Proc, OpenPart(p) PROVE Left'
  BY <1>4 DEF OpenPart, Goto, Refuse, Reply, Leave
<1>5. ASSUME NEW p \in Proc, WriteBlock(p) PROVE Left'
  BY <1>5 DEF WriteBlock, Goto
<1>6. ASSUME NEW p \in Proc, Record(p) PROVE Left'
  BY <1>6 DEF Record, Goto, Run, Beside, Accept, Reply, Leave
<1>7. ASSUME NEW p \in Proc, PatchFails(p) PROVE Left'
  BY <1>7 DEF PatchFails, Fault, Torn, Refuse, Reply, Leave, Goto
<1>8. ASSUME NEW p \in Proc, Drop(p) PROVE Left'
  BY <1>8 DEF Drop, Torn, Leave, Goto
<1>9. ASSUME NEW t \in Task, ReadPart(t) PROVE Left'
  BY <1>9 DEF ReadPart, Run, Finish, Accept, Refuse, Reply, Leave, Goto
<1>10. ASSUME NEW t \in Task, InsertVersion(t) PROVE Left'
  <2>1. versions' # <<>>
    <3>1. versions \in Seq(Seq(1 .. total)) /\ versions' = Append(versions, data[t])
      BY <1>10 DEF InsertVersion
    <3> HIDE DEF TypeOK
    <3> QED
      BY <3>1
  <2>2. home' = home /\ step' = [step EXCEPT ![t] = "account"]
    BY <1>10 DEF InsertVersion, Run
  <2>3. ASSUME NEW u \in Task, step'[u] = "insert" PROVE step[u] = "insert"
    BY <2>2, <2>3
  <2> QED
    BY <2>1, <2>2, <2>3
<1>11. ASSUME NEW t \in Task, Remove(t) PROVE Left'
  BY <1>11 DEF Remove, Finish, Run, Accept, Refuse, Reply, Leave, Goto
<1>12. ASSUME NEW t \in Task, FinishFails(t) PROVE Left'
  BY <1>12 DEF FinishFails, Fault, Finish, Run, Accept, Refuse, Reply,
         Leave, Goto
<1>13. ASSUME NEW t \in Task,
             Account(t) \/ Complete(t)
      PROVE  Left'
  BY <1>13 DEF Account, Complete, Run
<1>14. ASSUME SelectPending PROVE Left'
  BY <1>14 DEF SelectPending, Run, Beside
<1>15. ASSUME CheckPart PROVE Left'
  BY <1>15 DEF CheckPart, Run, Beside
<1>16. ASSUME Crash PROVE Left'
  BY <1>16 DEF Crash, Fault, Torn
<1>home. ASSUME Admit \/ Evict PROVE Left'
  BY <1>home DEF Admit, Evict
<1>17. ASSUME UNCHANGED vars PROVE Left'
  BY <1>17 DEF vars
<1> QED
  BY <1>1, <1>2, <1>3, <1>4, <1>5, <1>6, <1>7, <1>8, <1>9, <1>10, <1>11,
     <1>12, <1>13, <1>14, <1>15, <1>16, <1>17, <1>home
  DEF Next, Client, Handler, Assembly, Resumption

\* The client hears of the end after the row, and nothing after it withdrew.
LEMMA HeardStep == IInv /\ [Next]_vars => Heard'
<1> SUFFICES ASSUME IInv, [Next]_vars PROVE Heard'
  OBVIOUS
<1>check. \A p \in Proc : Check(p) => Checked(p)
  BY CheckEffect DEF IInv
<1>open. \A p \in Proc : OpenPart(p) => Opened(p)
  BY OpenEffect DEF IInv
<1>write. \A p \in Proc : WriteBlock(p) => Wrote(p)
  BY WriteEffect DEF IInv
<1>record. \A p \in Proc : Record(p) => Recorded(p)
  BY RecordEffect DEF IInv
<1> USE TusAssumption DEF IInv, TypeOK, ReqOK, InRange, Fresh, Gone,
        Waits, OneWriter, Heard, NoReq, End, Task, Appending, rowVars,
        fileVars, storeVars, patchVars, taskVars, clientVars, history
<1>1. ASSUME CreateFile PROVE Heard'
  BY <1>1 DEF CreateFile
<1>2. ASSUME CreateRow PROVE Heard'
  BY <1>2 DEF CreateRow
<1>3. ASSUME Disconnect PROVE Heard'
  BY <1>3 DEF Disconnect, Fault
<1>4. ASSUME Resume PROVE Heard'
  BY <1>4 DEF Resume
<1>5. ASSUME Cancel PROVE Heard'
  BY <1>5 DEF Cancel
<1>6. ASSUME HeadOffset PROVE Heard'
  BY <1>6 DEF HeadOffset
<1>7. ASSUME DeleteFile PROVE Heard'
  BY <1>7 DEF DeleteFile
<1>8. ASSUME DeleteRow PROVE Heard'
  BY <1>8 DEF DeleteRow
<1>9. ASSUME NEW p \in Proc, NEW n \in 1 .. total, Send(p, n) PROVE Heard'
  BY <1>9 DEF Send, Goto
<1>10. ASSUME NEW p \in Proc, Check(p) PROVE Heard'
  BY SMTT(40), <1>10 DEF Check, Goto, Refuse, Conflict, Reply, Leave
<1>11. ASSUME NEW p \in Proc, OpenPart(p) PROVE Heard'
  BY <1>11 DEF OpenPart, Goto, Refuse, Reply, Leave
<1>12. ASSUME NEW p \in Proc, WriteBlock(p) PROVE Heard'
  BY <1>12 DEF WriteBlock, Goto
<1>13. ASSUME NEW p \in Proc, Record(p) PROVE Heard'
  <2>1. Recorded(p) /\ UNCHANGED <<total, registered, withdrawn, mangled>>
    BY <1>13, <1>record DEF Recorded
  <2>2. /\ uploaded' = (IF registered THEN End(p) ELSE uploaded) /\ pc[p] = "record"
        /\ End(p) <= total /\ req[p].len >= 1
    BY <2>1 DEF Recorded
  <2>3. ~mangled => uploaded < total
    BY <2>2
  <2>4. CASE End(p) = total
    <3>1. UNCHANGED <<cpc, peer>> /\ \A q \in Proc \ {p} : pc'[q] = pc[q]
      BY <1>13, <2>1, <2>4 DEF Record, Recorded, Others
    <3>2. peer = p => registered
      BY <2>2
    <3> QED
      BY <2>1, <2>2, <2>3, <2>4, <3>1, <3>2
  <2>5. CASE End(p) # total
    <3>1. Accept(p)
      BY <1>13, <2>5 DEF Record
    <3>2. IF peer = p THEN peer' = Nobody /\ cpc' = "ready" ELSE UNCHANGED <<peer, cpc>>
      BY <2>5, <3>1 DEF Accept, Reply
    <3>3. \A q \in Proc : pc'[q] = "await" => pc[q] = "await"
      BY <2>1, <2>5 DEF Recorded, Others, Ended
    <3> QED
      BY SMTT(40), <2>1, <2>2, <2>3, <3>2, <3>3
  <2> QED
    BY <2>4, <2>5
<1>14. ASSUME NEW p \in Proc, PatchFails(p) PROVE Heard'
  BY <1>14 DEF PatchFails, Fault, Torn, Refuse, Reply, Leave, Goto
<1>15. ASSUME NEW p \in Proc, Drop(p) PROVE Heard'
  BY <1>15 DEF Drop, Torn, Leave, Goto
<1>16. ASSUME NEW t \in Task, ReadPart(t) PROVE Heard'
  BY <1>16 DEF ReadPart, Run, Finish, Accept, Refuse, Reply, Leave, Goto
<1>17. ASSUME NEW t \in Task, Remove(t) PROVE Heard'
  BY <1>17 DEF Remove, Finish, Run, Accept, Refuse, Reply, Leave, Goto
<1>18. ASSUME NEW t \in Task, FinishFails(t) PROVE Heard'
  <2>1. UNCHANGED <<total, uploaded, withdrawn, mangled>> /\ Finish(t, FALSE)
    BY <1>18 DEF FinishFails
  <2>2. CASE t \in Proc /\ pc[t] = "await"
    <3>1. Reply(t, "failed", coff)
      BY <2>1, <2>2 DEF Finish, Refuse
    <3>2. IF peer = t THEN peer' = Nobody /\ cpc' = "failed" ELSE UNCHANGED <<peer, cpc>>
      BY <3>1 DEF Reply
    <3>3. \A q \in Proc : pc'[q] = "await" => pc[q] = "await"
      BY <2>2, <3>1 DEF Reply, Leave, Goto
    <3>4. /\ peer = t => cpc = "waiting" /\ ~withdrawn
          /\ Nobody \notin Proc
      BY <2>2
    <3>5. CASE peer = t
      BY <2>1, <3>2, <3>4, <3>5
    <3>6. CASE peer # t
      BY <2>1, <3>2, <3>3, <3>6
    <3> QED
      BY <3>5, <3>6
  <2>3. CASE ~(t \in Proc /\ pc[t] = "await")
    BY <2>1, <2>3 DEF Finish
  <2> QED
    BY <2>2, <2>3
<1>19. ASSUME NEW t \in Task,
             InsertVersion(t) \/ Account(t) \/ Complete(t)
      PROVE  Heard'
  BY <1>19 DEF InsertVersion, Account, Complete, Run
<1>20. ASSUME SelectPending \/ CheckPart PROVE Heard'
  BY <1>20 DEF SelectPending, CheckPart, Run, Beside
<1>21. ASSUME Crash PROVE Heard'
  BY <1>21 DEF Crash, Fault, Torn
<1>home. ASSUME Admit \/ Evict PROVE Heard'
  BY <1>home DEF Admit, Evict
<1>22. ASSUME UNCHANGED vars PROVE Heard'
  BY <1>22 DEF vars
<1> QED
  BY <1>1, <1>2, <1>3, <1>4, <1>5, <1>6, <1>7, <1>8, <1>9, <1>10, <1>11,
     <1>12, <1>13, <1>14, <1>15, <1>16, <1>17, <1>18, <1>19, <1>20, <1>21,
     <1>22, <1>home
  DEF Next, Client, Handler, Assembly, Resumption

-----------------------------------------------------------------------------
(***************************************************************************)
(* Every step is one of the abstract specification.                        *)
(***************************************************************************)
\* Under the mapping of KeepsPromise: Record receives, InsertVersion stores,
\* Remove discards, DeleteFile withdraws, and the rest stutters or spoils.
LEMMA StepIsPromised == IInv /\ [Next]_vars => [Promise!Next]_(Promise!vars)
<1> SUFFICES ASSUME IInv, [Next]_vars PROVE [Promise!Next]_(Promise!vars)
  OBVIOUS
<1> USE TusAssumption DEF IInv, TypeOK, ReqOK, InRange, Fresh, OneWriter,
        Waits, Assembled, Sound, Stored, Left, Whole, Promise!vars,
        Promise!Next, Promise!Receive, Promise!Store, Promise!Discard,
        Promise!Withdraw, Promise!House, Promise!Spoil, Promise!Spoilt, Promise!Whole,
        NoReq, End, Task, Appending, rowVars, fileVars, storeVars, patchVars,
        taskVars, clientVars, history
<1>1. ASSUME \/ CreateFile \/ CreateRow \/ Disconnect \/ Resume \/ Cancel
             \/ HeadOffset \/ DeleteFile \/ DeleteRow
      PROVE  [Promise!Next]_(Promise!vars)
  BY <1>1 DEF CreateFile, CreateRow, Disconnect, Resume, Cancel,
         HeadOffset, DeleteFile, DeleteRow, Fault
<1>2. ASSUME NEW p \in Proc, NEW n \in 1 .. total, Send(p, n)
      PROVE  [Promise!Next]_(Promise!vars)
  BY <1>2 DEF Send, Goto
<1>3. ASSUME NEW p \in Proc, Check(p) PROVE [Promise!Next]_(Promise!vars)
  BY <1>3 DEF Check, Goto, Refuse, Conflict, Reply, Leave
<1>4. ASSUME NEW p \in Proc, OpenPart(p) PROVE [Promise!Next]_(Promise!vars)
  BY <1>4 DEF OpenPart, Goto, Refuse, Reply, Leave
<1>5. ASSUME NEW p \in Proc, WriteBlock(p) PROVE [Promise!Next]_(Promise!vars)
  BY <1>5 DEF WriteBlock, Goto
<1>6. ASSUME NEW p \in Proc, Record(p) PROVE [Promise!Next]_(Promise!vars)
  <2>1. /\ UNCHANGED <<total, there, versions, home, withdrawn, mangled>>
        /\ uploaded' = (IF registered THEN End(p) ELSE uploaded)
        /\ pc[p] = "record"
    BY <1>6 DEF Record
  <2>2. cpc' # "new" <=> cpc # "new"
    BY <1>6 DEF Record, Accept, Reply
  <2>3. CASE mangled
    BY <2>1, <2>3
  <2>4. CASE ~mangled
    <3>1. End(p) \in uploaded + 1 .. total
      <4>1. /\ req[p].off = uploaded /\ req[p].len >= 1 /\ req[p].len \in Nat
            /\ End(p) <= total /\ uploaded \in Nat /\ total \in Nat
        BY SMTT(40), <2>1, <2>4
      <4> QED
        BY SMTT(40), <4>1
    <3> QED
      BY <2>1, <2>2, <2>4, <3>1
  <2> QED
    BY <2>3, <2>4
<1>7. ASSUME NEW p \in Proc, PatchFails(p) PROVE [Promise!Next]_(Promise!vars)
  BY <1>7 DEF PatchFails, Fault, Torn, Refuse, Reply, Leave, Goto
<1>8. ASSUME NEW p \in Proc, Drop(p) PROVE [Promise!Next]_(Promise!vars)
  BY <1>8 DEF Drop, Torn, Leave, Goto
<1>9. ASSUME NEW t \in Task, ReadPart(t) PROVE [Promise!Next]_(Promise!vars)
  BY <1>9 DEF ReadPart, Run, Finish, Accept, Refuse, Reply, Leave, Goto
<1>10. ASSUME NEW t \in Task, Remove(t) PROVE [Promise!Next]_(Promise!vars)
  BY <1>10 DEF Remove, Finish, Run, Accept, Refuse, Reply, Leave, Goto
<1>11. ASSUME NEW t \in Task, FinishFails(t) PROVE [Promise!Next]_(Promise!vars)
  BY <1>11 DEF FinishFails, Fault, Finish, Run, Accept, Refuse, Reply,
         Leave, Goto
<1>12. ASSUME NEW t \in Task,
             InsertVersion(t) \/ Account(t) \/ Complete(t)
      PROVE  [Promise!Next]_(Promise!vars)
  BY <1>12 DEF InsertVersion, Account, Complete, Run
<1>13. ASSUME SelectPending \/ CheckPart PROVE [Promise!Next]_(Promise!vars)
  BY <1>13 DEF SelectPending, CheckPart, Run, Beside
<1>14. ASSUME Crash PROVE [Promise!Next]_(Promise!vars)
  BY <1>14 DEF Crash, Fault, Torn
<1>home. ASSUME Admit \/ Evict PROVE [Promise!Next]_(Promise!vars)
  BY <1>home DEF Admit, Evict
<1>15. ASSUME UNCHANGED vars PROVE [Promise!Next]_(Promise!vars)
  BY <1>15 DEF vars
<1> QED
  BY <1>1, <1>2, <1>3, <1>4, <1>5, <1>6, <1>7, <1>8, <1>9, <1>10, <1>11,
     <1>12, <1>13, <1>14, <1>15, <1>home
  DEF Next, Client, Handler, Assembly, Resumption

-----------------------------------------------------------------------------
(***************************************************************************)
(* The invariant holds of every behaviour.                                 *)
(***************************************************************************)
\* An upload starts out in the invariant.
LEMMA Start == Init => IInv
<1> SUFFICES ASSUME Init PROVE IInv
  OBVIOUS
<1> USE TusAssumption DEF Init, NoReq, Appending, Task
<1>1. total \in Nat /\ NoReq \in [off : 0 .. total, len : 0 .. total, done : 0 .. total]
  OBVIOUS
<1>2. TypeOK
  <2>1. /\ part \in Seq(1 .. total) /\ versions \in Seq(Seq(1 .. total))
        /\ charged \in Nat /\ uploaded \in 0 .. total /\ coff \in 0 .. total
        /\ faults \in 0 .. MaxFaults
    BY <1>1
  <2>2. /\ pc \in [Proc -> {"idle", "check", "await"} \cup Appending]
        /\ req \in [Proc -> [off : 0 .. total, len : 0 .. total, done : 0 .. total]]
        /\ step \in [Task -> {"idle", "check", "read", "insert", "account",
                              "complete", "remove"}]
        /\ data \in [Task -> Seq(1 .. total)]
    BY <1>1
  <2> QED
    BY <2>1, <2>2 DEF TypeOK
<1>3. ReqOK /\ Fresh /\ Gone /\ Waits /\ OneWriter /\ Left
  BY DEF ReqOK, InRange, Fresh, Gone, Waits, OneWriter, Left
<1>4. OnDisk /\ Prefix /\ Assembled /\ Heard
  BY DEF OnDisk, Covered, Prefix, Assembled, Sound, Stored, Heard
<1> QED
  BY <1>2, <1>3, <1>4 DEF IInv

\* Every step keeps it.
LEMMA Preserved == IInv /\ [Next]_vars => IInv'
  BY TypesStep, ReqStep, FreshStep, GoneStep, WaitsStep, OnDiskStep, OneWriterStep,
     PrefixStep, AssembledStep, LeftStep, HeardStep DEF IInv

LEMMA Invariance == Spec => []IInv
  BY Start, Preserved, PTL DEF Spec

-----------------------------------------------------------------------------
(***************************************************************************)
(* One version for one upload: the invariant.                              *)
(***************************************************************************)
Busy(t) == step[t] # "idle"
Paying == {"account", "complete"}

\* A handler that has not assembled anything has no assembly.
Rested == \A p \in Proc : pc[p] \in {"check"} \cup Appending => ~Busy(p)

\* Nothing is stored for an upload that does not exist yet.
Barren == cpc \in {"new", "creating"} => versions = <<>>

\* One assembly at a time.
Single == \A t, u \in Task : Busy(t) /\ Busy(u) => t = u

\* Once an assembly has begun, or ended, no PATCH appends any more, and the row,
\* if it is there, tells every later one so.
Late ==
    versions # <<>> \/ (\E t \in Task : Busy(t)) =>
      (\A p \in Proc : pc[p] \notin Appending) /\ (registered => uploaded = total)

\* An assembly that has still to store finds nothing stored,
Unsaved == \A t \in Task : step[t] \in {"check", "read", "insert"} => versions = <<>>

\* since what is stored is marked so, or about to be.
Marked ==
    versions # <<>> /\ registered /\ ~completed => \E t \in Task : step[t] \in Paying

Sole == Len(versions) <= 1
Once == ~again /\ ~mangled => Single /\ Late /\ Unsaved /\ Marked /\ Sole
OnceInv == IInv /\ Rested /\ Barren /\ Once

\* A step that neither assembles nor lets a PATCH append disturbs none of it.
LEMMA Aside ==
  ASSUME OnceInv, UNCHANGED <<total, registered, completed, uploaded, versions, step>>,
         again => again', mangled => mangled',
         \A p \in Proc : pc'[p] \in Appending => pc[p] \in Appending
  PROVE  Once'
<1>1. CASE again \/ mangled
  BY <1>1 DEF Once
<1>2. CASE ~again /\ ~mangled
  <2>1. Single /\ Late /\ Unsaved /\ Marked /\ Sole
    BY <1>2 DEF OnceInv, Once
  <2>2. Single' /\ Unsaved' /\ Marked' /\ Sole'
    BY <2>1 DEF Single, Unsaved, Marked, Sole, Busy
  <2>3. Late'
    BY <2>1 DEF Late, Busy
  <2> QED BY <2>2, <2>3 DEF Once
<1> QED BY <1>1, <1>2

\* What an assembly that ends, or reads, does to it.
LEMMA Ending ==
  ASSUME OnceInv, UNCHANGED <<total, registered, completed, uploaded, versions>>,
         again => again', mangled => mangled', Steady,
         NEW t \in Task, NEW l \in {"idle", "insert"}, step' = [step EXCEPT ![t] = l],
         l = "idle" => again' \/ step[t] \notin Paying \/ completed \/ ~registered,
         l = "insert" => step[t] = "read"
  PROVE  Once'
<1>1. CASE again' \/ mangled'
  BY <1>1 DEF Once
<1>2. CASE ~again' /\ ~mangled'
  <2>1. Single /\ Late /\ Unsaved /\ Marked /\ Sole
    BY <1>2 DEF OnceInv, Once
  <2>2. \A u \in Task : step'[u] = IF u = t THEN l ELSE step[u]
    BY DEF OnceInv, IInv, TypeOK
  <2>3. Single' /\ Unsaved' /\ Sole'
    BY <2>1, <2>2 DEF Single, Unsaved, Sole, Busy
  <2>4. \A u \in Task : Busy(u)' => Busy(u)
    BY <2>2 DEF Busy
  <2>5. Late'
    BY <2>1, <2>4 DEF Late, Steady
  <2>6. Marked'
    BY <1>2, <2>1, <2>2 DEF Marked, Paying
  <2> QED BY <2>3, <2>5, <2>6 DEF Once
<1> QED BY <1>1, <1>2

\* A PATCH that appends, or is about to, has nothing beside it.
LEMMA Before ==
  ASSUME OnceInv, ~again, ~mangled, NEW p \in Proc, pc[p] # "idle", req[p].off = uploaded,
         registered \/ pc[p] \in Appending
  PROVE  versions = <<>> /\ \A t \in Task : ~Busy(t)
<1>1. Late /\ uploaded \in Nat
  BY TusAssumption DEF OnceInv, IInv, Once, TypeOK
<1>2. uploaded # total
  <2>1. /\ req[p] \in [off : 0 .. total, len : 0 .. total, done : 0 .. total]
        /\ total \in Nat
    BY TusAssumption DEF OnceInv, IInv, TypeOK
  <2>2. req[p].len >= 1 /\ req[p].off + req[p].len <= total
    BY DEF OnceInv, IInv, ReqOK, InRange, End
  <2> QED BY <2>1, <2>2
<1> QED BY <1>1, <1>2 DEF Late

LEMMA RestedStep == OnceInv /\ [Next]_vars => Rested'
<1> SUFFICES ASSUME OnceInv, [Next]_vars PROVE Rested'
  OBVIOUS
<1> USE DEF OnceInv, IInv, TypeOK, Rested, Busy, NoReq, Task, Appending, rowVars,
        fileVars, storeVars, patchVars, taskVars, clientVars, history
<1>1. ASSUME \/ CreateFile \/ CreateRow \/ Disconnect \/ Resume \/ Cancel
             \/ HeadOffset \/ DeleteFile \/ DeleteRow
      PROVE  Rested'
  BY <1>1 DEF CreateFile, CreateRow, Disconnect, Resume, Cancel,
         HeadOffset, DeleteFile, DeleteRow, Fault
<1>2. ASSUME NEW p \in Proc, NEW n \in 1 .. total, Send(p, n) PROVE Rested'
  BY <1>2 DEF Send, Goto
<1>3. ASSUME NEW p \in Proc, Check(p) PROVE Rested'
  BY <1>3 DEF Check, Goto, Refuse, Conflict, Reply, Leave
<1>4. ASSUME NEW p \in Proc, OpenPart(p) PROVE Rested'
  BY <1>4 DEF OpenPart, Goto, Refuse, Reply, Leave
<1>5. ASSUME NEW p \in Proc, WriteBlock(p) PROVE Rested'
  BY <1>5 DEF WriteBlock, Goto
<1>6. ASSUME NEW p \in Proc, Record(p) PROVE Rested'
  <2>1. Recorded(p)
    BY <1>6, RecordEffect
  <2>2. \A q \in Proc : q # p => pc'[q] = pc[q] /\ step'[q] = step[q]
    BY <2>1 DEF Recorded, Others
  <2>3. pc'[p] \in {"await", "idle"}
    BY <2>1 DEF Recorded, Ended
  <2> QED BY <2>2, <2>3
<1>7. ASSUME NEW p \in Proc, PatchFails(p) PROVE Rested'
  BY <1>7 DEF PatchFails, Fault, Torn, Refuse, Reply, Leave, Goto
<1>8. ASSUME NEW p \in Proc, Drop(p) PROVE Rested'
  BY <1>8 DEF Drop, Torn, Leave, Goto
<1>9. ASSUME NEW t \in Task, ReadPart(t) PROVE Rested'
  BY <1>9 DEF ReadPart, Run, Finish, Accept, Refuse, Reply, Leave, Goto
<1>10. ASSUME NEW t \in Task, Remove(t) PROVE Rested'
  BY <1>10 DEF Remove, Finish, Run, Accept, Refuse, Reply, Leave, Goto
<1>11. ASSUME NEW t \in Task, FinishFails(t) PROVE Rested'
  BY <1>11 DEF FinishFails, Fault, Finish, Run, Accept, Refuse, Reply, Leave, Goto
<1>12. ASSUME NEW t \in Task, InsertVersion(t) \/ Account(t) \/ Complete(t)
       PROVE  Rested'
  BY <1>12 DEF InsertVersion, Account, Complete, Run
<1>13. ASSUME SelectPending \/ CheckPart PROVE Rested'
  BY <1>13, TusAssumption DEF SelectPending, CheckPart, Run, Beside
<1>14. ASSUME Crash PROVE Rested'
  BY <1>14 DEF Crash, Fault, Torn
<1>home. ASSUME Admit \/ Evict PROVE Rested'
  BY <1>home DEF Admit, Evict
<1>15. ASSUME UNCHANGED vars PROVE Rested'
  BY <1>15 DEF vars
<1> QED
  BY <1>1, <1>2, <1>3, <1>4, <1>5, <1>6, <1>7, <1>8, <1>9, <1>10, <1>11,
     <1>12, <1>13, <1>14, <1>15, <1>home
  DEF Next, Client, Handler, Assembly, Resumption

\* Replies leave no client at the beginning.
LEMMA BarrenStep == OnceInv /\ [Next]_vars => Barren'
<1> SUFFICES ASSUME OnceInv, [Next]_vars PROVE Barren'
  OBVIOUS
<1> DEFINE Begun == cpc' \in {"new", "creating"} => cpc \in {"new", "creating"}
<1>same. ASSUME Begun, versions' = versions PROVE Barren'
  BY <1>same DEF OnceInv, Barren
<1>reply. \A p \in Proc : Accept(p) \/ Refuse(p) \/ Conflict(p) => Begun
  BY DEF Accept, Refuse, Conflict, Reply, clientVars
<1>end. \A t \in Task : Finish(t, TRUE) \/ Finish(t, FALSE) => Begun
  BY <1>reply DEF Finish, clientVars
<1> USE DEF rowVars, fileVars, storeVars, patchVars, taskVars, clientVars, history
<1>1. ASSUME \/ CreateFile \/ CreateRow \/ Disconnect \/ Resume \/ Cancel
             \/ HeadOffset \/ DeleteFile \/ DeleteRow
      PROVE  Begun /\ versions' = versions
  BY <1>1 DEF CreateFile, CreateRow, Disconnect, Resume, Cancel,
         HeadOffset, DeleteFile, DeleteRow, Fault
<1>2. ASSUME NEW p \in Proc, NEW n \in 1 .. total, Send(p, n)
      PROVE  Begun /\ versions' = versions
  BY <1>2 DEF Send
<1>3. ASSUME NEW p \in Proc, Check(p) \/ OpenPart(p) \/ Record(p) \/ PatchFails(p)
      PROVE  Begun /\ versions' = versions
  BY <1>3, <1>reply DEF Check, OpenPart, Record, PatchFails
<1>4. ASSUME NEW p \in Proc, WriteBlock(p) \/ Drop(p)
      PROVE  Begun /\ versions' = versions
  BY <1>4 DEF WriteBlock, Drop
<1>5. ASSUME NEW t \in Task, ReadPart(t) \/ Remove(t) \/ FinishFails(t)
      PROVE  Begun /\ versions' = versions
  BY <1>5, <1>end DEF ReadPart, Remove, FinishFails
<1>6. ASSUME NEW t \in Task, InsertVersion(t) PROVE Barren'
  <2>1. step[t] # "idle" /\ cpc' = cpc
    BY <1>6 DEF InsertVersion
  <2>2. cpc \notin {"new", "creating"}
    BY <2>1 DEF OnceInv, IInv, Fresh
  <2> QED BY <2>1, <2>2 DEF Barren
<1>7. ASSUME NEW t \in Task, Account(t) \/ Complete(t)
      PROVE  Begun /\ versions' = versions
  BY <1>7 DEF Account, Complete
<1>8. ASSUME SelectPending \/ CheckPart PROVE Begun /\ versions' = versions
  BY <1>8 DEF SelectPending, CheckPart
<1>9. ASSUME Crash PROVE Begun /\ versions' = versions
  BY <1>9 DEF Crash
<1>home. ASSUME Admit \/ Evict PROVE Begun /\ versions' = versions
  BY <1>home DEF Admit, Evict
<1>10. ASSUME UNCHANGED vars PROVE Begun /\ versions' = versions
  BY <1>10 DEF vars
<1> HIDE DEF Begun
<1>11. CASE Client
  BY <1>same, <1>1, <1>2, <1>11 DEF Client
<1>12. ASSUME NEW p \in Proc, Handler(p) \/ PatchFails(p) \/ Drop(p) PROVE Barren'
  BY <1>same, <1>3, <1>4, <1>12 DEF Handler
<1>13. ASSUME NEW t \in Task, Assembly(t) \/ FinishFails(t) PROVE Barren'
  BY <1>same, <1>5, <1>6, <1>7, <1>13 DEF Assembly
<1>14. CASE Resumption
  BY <1>same, <1>8, <1>13, <1>14 DEF Resumption, Task
<1>15. CASE Crash \/ UNCHANGED vars \/ Admit \/ Evict
  BY <1>same, <1>9, <1>10, <1>15, <1>home
<1> QED
  BY <1>11, <1>12, <1>13, <1>14, <1>15 DEF Next, Task

\* A resumer that finds the upload received finds it unstored, and nothing beside it.
LEMMA OnceResumed ==
  ASSUME OnceInv, SelectPending \/ CheckPart
  PROVE  Once'
<1>1. CASE again' \/ mangled'
  BY <1>1 DEF Once
<1>2. CASE ~again' /\ ~mangled'
  <2>1. PICK l \in {"idle", "check", "read"} :
          /\ step' = [step EXCEPT ![Resumer] = l]
          /\ l # "idle" => ~Beside(Resumer)
          /\ ~again /\ ~mangled
    <3>1. again \in BOOLEAN /\ mangled \in BOOLEAN
      BY DEF OnceInv, IInv, TypeOK
    <3>2. CASE SelectPending
      <4>1. /\ step' = [step EXCEPT ![Resumer] = "check"]
            /\ again' = (again \/ Beside(Resumer)) /\ mangled' = mangled
        BY <3>2 DEF SelectPending, Run
      <4> QED BY <1>2, <3>1, <4>1
    <3>3. CASE CheckPart /\ there /\ Len(part) = total
      <4>1. /\ step' = [step EXCEPT ![Resumer] = "read"]
            /\ again' = (again \/ Beside(Resumer)) /\ mangled' = mangled
        BY <3>3 DEF CheckPart, Run
      <4> QED BY <1>2, <3>1, <4>1
    <3>4. CASE CheckPart /\ ~(there /\ Len(part) = total)
      <4>1. /\ step' = [step EXCEPT ![Resumer] = "idle"]
            /\ again' = again /\ mangled' = mangled
        BY <3>4 DEF CheckPart, Run
      <4> QED BY <1>2, <3>1, <4>1
    <3> QED BY <3>2, <3>3, <3>4
  <2>2. UNCHANGED <<total, registered, completed, uploaded, versions, pc, req>>
    BY DEF SelectPending, CheckPart, rowVars, storeVars, patchVars, fileVars
  <2>3. Single /\ Late /\ Unsaved /\ Marked /\ Sole
    BY <2>1 DEF OnceInv, Once
  <2>4. \A u \in Task : step'[u] = IF u = Resumer THEN l ELSE step[u]
    BY <2>1 DEF OnceInv, IInv, TypeOK
  <2>5. Single' /\ Sole'
    BY <2>1, <2>2, <2>3, <2>4 DEF Single, Sole, Busy, Beside
  <2>6. Unsaved' /\ Marked'
    <3>1. CASE SelectPending
      <4>1. registered /\ ~completed /\ step[Resumer] = "idle" /\ l = "check"
        BY <2>1, <3>1, TusAssumption DEF SelectPending, Run, OnceInv, IInv, TypeOK, Task
      <4>2. \A u \in Task \ {Resumer} : ~Busy(u)
        BY <2>1, <4>1 DEF Beside, Busy
      <4>3. versions = <<>>
        BY <2>3, <4>1, <4>2 DEF Marked, Busy, Paying
      <4> QED BY <2>2, <4>3 DEF Unsaved, Marked
    <3>2. CASE CheckPart
      <4>1. step[Resumer] = "check" /\ Resumer \in Task
        BY <3>2 DEF CheckPart, Task
      <4>2. versions = <<>>
        BY <2>3, <4>1 DEF Unsaved
      <4> QED BY <2>2, <4>2 DEF Unsaved, Marked
    <3> QED BY <3>1, <3>2
  <2>7. Late'
    <3>1. CASE SelectPending
      <4>1. uploaded = total /\ registered
        BY <3>1 DEF SelectPending
      <4>2. \A p \in Proc : pc[p] \in Appending => req[p].off = uploaded
        BY <2>1 DEF OnceInv, IInv, OneWriter
      <4>3. ASSUME NEW p \in Proc, pc[p] \in Appending PROVE FALSE
        <5>1. /\ req[p] \in [off : 0 .. total, len : 0 .. total, done : 0 .. total]
              /\ total \in Nat
          BY TusAssumption DEF OnceInv, IInv, TypeOK
        <5>2. req[p].len >= 1 /\ req[p].off + req[p].len <= total
          BY <4>3 DEF OnceInv, IInv, ReqOK, InRange, End, Appending
        <5> QED BY <4>1, <4>2, <4>3, <5>1, <5>2
      <4> QED BY <2>2, <4>1, <4>3 DEF Late
    <3>2. CASE CheckPart
      <4>1. Busy(Resumer) /\ Resumer \in Task
        BY <3>2 DEF CheckPart, Busy, Task
      <4> QED BY <2>2, <2>3, <4>1 DEF Late
    <3> QED BY <3>1, <3>2
  <2> QED BY <2>3, <2>5, <2>6, <2>7 DEF Once
<1> QED BY <1>1, <1>2

\* The PATCH that reaches the end is the last one, and has nothing beside it.
LEMMA OnceRecorded ==
  ASSUME OnceInv, NEW p \in Proc, Record(p)
  PROVE  Once'
<1>1. CASE again' \/ mangled'
  BY <1>1 DEF Once
<1>2. CASE ~again' /\ ~mangled'
  <2>1. Recorded(p) /\ (again => again') /\ pc[p] \in Appending
    BY RecordEffect DEF OnceInv, IInv, Record, Accept, Reply, Appending
  <2>2. ~again /\ ~mangled /\ UNCHANGED <<total, registered, completed, versions>>
    BY <1>2, <2>1 DEF Recorded, storeVars
  <2>3. /\ req[p].off = uploaded
        /\ \A q \in Proc : q # p => pc[q] \notin Appending
    BY <2>1, <2>2 DEF OnceInv, IInv, OneWriter
  <2>4. versions = <<>> /\ \A t \in Task : ~Busy(t)
    BY <2>1, <2>2, <2>3, Before DEF Appending
  <2>5. \A q \in Proc : pc'[q] \notin Appending
    BY <2>1, <2>3 DEF Recorded, Others, Ended, Appending
  <2>6. \/ step' = step
        \/ step' = [step EXCEPT ![p] = "read"] /\ (registered => uploaded' = total)
    BY <2>1 DEF Recorded
  <2>7. step \in [Task -> {"idle", "check", "read", "insert", "account", "complete", "remove"}]
    BY DEF OnceInv, IInv, TypeOK
  <2>8. /\ \A t \in Task : t # p => ~Busy(t)'
        /\ Busy(p)' => (registered => uploaded' = total)
    BY <2>4, <2>6, <2>7 DEF Busy, Task
  <2>9. Single' /\ Unsaved' /\ Marked' /\ Sole'
    BY <2>2, <2>4, <2>8 DEF Single, Unsaved, Marked, Sole
  <2>10. Late'
    BY <2>2, <2>4, <2>5, <2>8 DEF Late
  <2> QED BY <2>9, <2>10 DEF Once
<1> QED BY <1>1, <1>2

\* The version goes in once, and is marked before anybody looks for it.
LEMMA OnceStored ==
  ASSUME OnceInv, NEW t \in Task, InsertVersion(t) \/ Account(t) \/ Complete(t)
  PROVE  Once'
<1>1. CASE again' \/ mangled'
  BY <1>1 DEF Once
<1>2. CASE ~again' /\ ~mangled'
  <2>1. /\ UNCHANGED <<total, registered, uploaded, pc, req>> /\ ~again /\ ~mangled
        /\ Busy(t)
    BY <1>2 DEF InsertVersion, Account, Complete, rowVars, patchVars, history, Busy
  <2>2. Single /\ Late /\ Unsaved /\ Marked /\ Sole
    BY <2>1 DEF OnceInv, Once
  <2>3. PICK l \in {"account", "complete", "remove"} : step' = [step EXCEPT ![t] = l]
    BY DEF InsertVersion, Account, Complete, Run
  <2>4. \A u \in Task : step'[u] = IF u = t THEN l ELSE step[u]
    BY <2>3 DEF OnceInv, IInv, TypeOK
  <2>5. \A u \in Task : u # t => ~Busy(u) /\ ~Busy(u)'
    BY <2>1, <2>2, <2>4 DEF Single, Busy
  <2>6. Single' /\ Unsaved'
    BY <2>4, <2>5 DEF Single, Unsaved, Busy
  <2>7. Late'
    BY <2>1, <2>2 DEF Late
  <2>8. Marked'
    <3>1. CASE InsertVersion(t) \/ Account(t)
      <4>1. step'[t] \in Paying
        BY <3>1, <2>4 DEF InsertVersion, Account, Run, Paying, OnceInv, IInv, TypeOK
      <4> QED BY <4>1 DEF Marked
    <3>2. CASE Complete(t)
      BY <3>2 DEF Complete, Marked
    <3> QED BY <3>1, <3>2
  <2>9. Sole'
    <3>1. CASE InsertVersion(t)
      <4>1. versions = <<>> /\ versions' = Append(versions, data[t])
        BY <2>2, <3>1 DEF InsertVersion, Unsaved
      <4>2. versions \in Seq(Seq(1 .. total)) /\ data[t] \in Seq(1 .. total) /\ Len(versions) = 0
        BY <4>1 DEF OnceInv, IInv, TypeOK
      <4>3. Len(versions') = 1
        BY <4>1, <4>2
      <4> QED BY <4>3 DEF Sole
    <3>2. CASE Account(t) \/ Complete(t)
      BY <2>2, <3>2 DEF Account, Complete, Sole, storeVars
    <3> QED BY <3>1, <3>2
  <2> QED BY <2>6, <2>7, <2>8, <2>9 DEF Once
<1> QED BY <1>1, <1>2

\* A restart forgets the assemblies; those it cut short are told apart.
LEMMA OnceCrashed ==
  ASSUME OnceInv, Crash
  PROVE  Once'
<1>1. CASE again' \/ mangled'
  BY <1>1 DEF Once
<1>2. CASE ~again' /\ ~mangled'
  <2>1. /\ UNCHANGED <<total, registered, completed, uploaded, versions>>
        /\ ~again /\ ~mangled /\ \A t \in Task : step[t] \notin Paying
    BY <1>2 DEF Crash, rowVars, storeVars, Paying
  <2>2. /\ \A t \in Task : step'[t] = "idle"
        /\ \A p \in Proc : pc'[p] \notin Appending
    BY DEF Crash, Appending
  <2>3. Single /\ Late /\ Unsaved /\ Marked /\ Sole
    BY <2>1 DEF OnceInv, Once
  <2>4. Single' /\ Unsaved' /\ Sole'
    BY <2>1, <2>2, <2>3 DEF Single, Unsaved, Sole, Busy
  <2>5. Late'
    BY <2>1, <2>2, <2>3 DEF Late, Busy
  <2>6. Marked'
    BY <2>1, <2>3 DEF Marked
  <2> QED BY <2>4, <2>5, <2>6 DEF Once
<1> QED BY <1>1, <1>2

LEMMA OnceStep == OnceInv /\ [Next]_vars => Once'
<1> SUFFICES ASSUME OnceInv, [Next]_vars PROVE Once'
  OBVIOUS
<1> USE DEF rowVars, fileVars, storeVars, patchVars, taskVars, clientVars, history
<1>0. TypeOK
  BY DEF OnceInv, IInv
<1>1. ASSUME CreateFile \/ Disconnect \/ Resume \/ Cancel \/ HeadOffset \/ DeleteFile
      PROVE  Once'
  <2>1. UNCHANGED <<total, registered, completed, uploaded, versions, step, pc, again, mangled>>
    BY <1>1 DEF CreateFile, Disconnect, Resume, Cancel, HeadOffset, DeleteFile
  <2> QED BY <2>1, Aside
<1>2. ASSUME CreateRow PROVE Once'
  <2>1. /\ cpc = "creating"
        /\ UNCHANGED <<total, completed, uploaded, versions, step, pc, again, mangled>>
    BY <1>2 DEF CreateRow
  <2>2. versions = <<>> /\ \A t \in Task : step[t] = "idle"
    BY <2>1 DEF OnceInv, IInv, Barren, Fresh
  <2>3. Single' /\ Late' /\ Unsaved' /\ Marked' /\ Sole'
    BY <2>1, <2>2 DEF Single, Late, Unsaved, Marked, Sole, Busy
  <2> QED BY <2>3 DEF Once
<1>3. ASSUME DeleteRow PROVE Once'
  <2>1. /\ ~registered'
        /\ UNCHANGED <<total, completed, uploaded, versions, step, pc, again, mangled>>
    BY <1>3 DEF DeleteRow
  <2>2. Once => Once'
    BY <2>1 DEF Once, Single, Late, Unsaved, Marked, Sole, Busy
  <2> QED BY <2>2 DEF OnceInv
<1>4. ASSUME NEW p \in Proc, NEW n \in 1 .. total, Send(p, n) PROVE Once'
  <2>1. /\ UNCHANGED <<total, registered, completed, uploaded, versions, step, again, mangled>>
        /\ \A q \in Proc : pc'[q] \in Appending => pc[q] \in Appending
    BY <1>0, <1>4 DEF Send, Goto, Appending, TypeOK
  <2> QED BY <2>1, Aside
<1>5. ASSUME NEW p \in Proc, Check(p) PROVE Once'
  <2>1. Checked(p) /\ again' = again
    BY <1>0, <1>5, CheckEffect DEF Check
  <2>2. UNCHANGED <<total, registered, completed, uploaded, versions, step>>
    BY <2>1 DEF Checked
  <2>3. CASE Ended(p) /\ mangled' = mangled
    <3>1. \A q \in Proc : pc'[q] \in Appending => pc[q] \in Appending
      BY <2>1, <2>3 DEF Checked, Others, Ended, Appending
    <3> QED BY <2>1, <2>2, <2>3, <3>1, Aside
  <2>4. CASE Admitted(p)
    <3>1. CASE again' \/ mangled'
      BY <3>1 DEF Once
    <3>2. CASE ~again' /\ ~mangled'
      <4>1. ~again /\ ~mangled /\ pc[p] # "idle" /\ registered /\ req[p].off = uploaded
        BY <2>1, <2>4, <3>2 DEF Admitted
      <4>2. versions = <<>> /\ \A t \in Task : ~Busy(t)
        BY <4>1, Before
      <4>3. Single' /\ Late' /\ Unsaved' /\ Marked' /\ Sole'
        BY <2>2, <4>2 DEF Single, Late, Unsaved, Marked, Sole, Busy
      <4> QED BY <4>3 DEF Once
    <3> QED BY <3>1, <3>2
  <2> QED BY <2>1, <2>3, <2>4 DEF Checked
<1>6. ASSUME NEW p \in Proc, OpenPart(p) PROVE Once'
  <2>1. Opened(p)
    BY <1>0, <1>6, OpenEffect
  <2>2. /\ UNCHANGED <<total, registered, completed, uploaded, versions, step, again, mangled>>
        /\ \A q \in Proc : pc'[q] \in Appending => pc[q] \in Appending
    BY <2>1 DEF Opened, Others, Ended, Appending
  <2> QED BY <2>2, Aside
<1>7. ASSUME NEW p \in Proc, WriteBlock(p) PROVE Once'
  <2>1. /\ UNCHANGED <<total, registered, completed, uploaded, versions, step, again, mangled>>
        /\ \A q \in Proc : pc'[q] \in Appending => pc[q] \in Appending
    BY <1>0, <1>7 DEF WriteBlock, Goto, Appending, TypeOK
  <2> QED BY <2>1, Aside
<1>8. ASSUME NEW p \in Proc, Record(p) PROVE Once'
  BY <1>8, OnceRecorded
<1>9. ASSUME NEW p \in Proc, PatchFails(p) \/ Drop(p) PROVE Once'
  <2>1. /\ UNCHANGED <<total, registered, completed, uploaded, versions, step, again>>
        /\ mangled => mangled'
        /\ Leave(p)
    BY <1>9 DEF PatchFails, Drop, Refuse, Reply
  <2>2. \A q \in Proc : pc'[q] \in Appending => pc[q] \in Appending
    BY <1>0, <2>1 DEF Leave, Goto, Appending, TypeOK
  <2> QED BY <2>1, <2>2, Aside
<1>10. ASSUME NEW t \in Task, ReadPart(t) PROVE Once'
  <2>1. /\ UNCHANGED <<total, registered, completed, uploaded, versions, again, mangled>>
        /\ step[t] = "read" /\ Steady
    BY <1>0, <1>10, AssemblyIsSteady DEF ReadPart
  <2>2. PICK l \in {"idle", "insert"} : step' = [step EXCEPT ![t] = l]
    BY <1>10 DEF ReadPart, Run, Finish
  <2>3. step[t] \notin Paying
    BY <2>1 DEF Paying
  <2> QED BY <2>1, <2>2, <2>3, Ending
<1>11. ASSUME NEW t \in Task, Remove(t) PROVE Once'
  <2>1. /\ UNCHANGED <<total, registered, completed, uploaded, versions, again, mangled>>
        /\ step[t] = "remove" /\ Steady /\ step' = [step EXCEPT ![t] = "idle"]
    BY <1>0, <1>11, AssemblyIsSteady DEF Remove, Finish, Run
  <2>2. step[t] \notin Paying
    BY <2>1 DEF Paying
  <2> QED BY <2>1, <2>2, Ending
<1>12. ASSUME NEW t \in Task, FinishFails(t) PROVE Once'
  <2>1. /\ UNCHANGED <<total, registered, completed, uploaded, versions, mangled>>
        /\ again' = (again \/ step[t] \in Paying)
        /\ Steady /\ step' = [step EXCEPT ![t] = "idle"]
    BY <1>0, <1>12, AssemblyIsSteady DEF FinishFails, Finish, Run, Paying
  <2> QED BY <2>1, Ending
<1>13. ASSUME NEW t \in Task, InsertVersion(t) \/ Account(t) \/ Complete(t) PROVE Once'
  BY <1>13, OnceStored
<1>14. ASSUME SelectPending \/ CheckPart PROVE Once'
  BY <1>14, OnceResumed
<1>15. ASSUME Crash PROVE Once'
  BY <1>15, OnceCrashed
<1>home. ASSUME Admit \/ Evict PROVE Once'
  <2>1. UNCHANGED <<total, registered, completed, uploaded, versions, step, pc, again, mangled>>
    BY <1>home DEF Admit, Evict
  <2> QED BY <2>1, Aside
<1>16. ASSUME UNCHANGED vars PROVE Once'
  <2>1. UNCHANGED <<total, registered, completed, uploaded, versions, step, pc, again, mangled>>
    BY <1>16 DEF vars
  <2> QED BY <2>1, Aside
<1>17. CASE Client
  BY <1>1, <1>2, <1>3, <1>4, <1>17 DEF Client
<1>18. ASSUME NEW p \in Proc, Handler(p) PROVE Once'
  BY <1>5, <1>6, <1>7, <1>8, <1>18 DEF Handler
<1>19. ASSUME NEW t \in Task, Assembly(t) PROVE Once'
  BY <1>10, <1>11, <1>13, <1>19 DEF Assembly
<1>20. CASE Resumption
  BY <1>14, <1>19, <1>20 DEF Resumption, Task
<1> QED
  BY <1>9, <1>12, <1>15, <1>16, <1>17, <1>18, <1>19, <1>20, <1>home DEF Next, Task

LEMMA OnceAlways == Spec => []OnceInv
<1>1. Init => OnceInv
  <2>1. Init => Rested /\ Barren /\ Once
    BY DEF Init, Rested, Barren, Once, Single, Late, Unsaved, Marked, Sole, Busy, Appending, Task
  <2> QED BY <2>1, Start DEF OnceInv
<1>2. OnceInv /\ [Next]_vars => OnceInv'
  BY Preserved, RestedStep, BarrenStep, OnceStep DEF OnceInv
<1> QED BY <1>1, <1>2, PTL DEF Spec

-----------------------------------------------------------------------------
(***************************************************************************)
(* What is charged is stored: the invariant.                               *)
(***************************************************************************)
\* Of n versions of lengths L, the charge c is the running sum f of what was
\* charged for each, w, at most its length; and every assembly of T, which is about
\* to charge D for a version, has one of that length, s, not charged for yet.
Balanced(n, L, c, T, D, w, f, s) ==
    /\ \A i \in 1 .. n : w[i] <= L[i]
    /\ f[0] = 0 /\ \A i \in 1 .. n : f[i] = f[i - 1] + w[i]
    /\ c = f[n]
    /\ \A t \in T : w[s[t]] = 0 /\ L[s[t]] = D[t]
    /\ \A t, u \in T : s[t] = s[u] => t = u
Ledger(n, L, c, T, D) ==
    \E w \in [1 .. n -> Nat], f \in [0 .. n -> Nat], s \in [T -> 1 .. n] :
      Balanced(n, L, c, T, D, w, f, s)

Lengths == [i \in 1 .. Len(versions) |-> Len(versions[i])]
Charging == {t \in Task : step[t] = "account"}
Owed == [t \in Task |-> Len(data[t])]
Booked == Ledger(Len(versions), Lengths, charged, Charging, Owed)

\* An assembly may go without charging.
LEMMA LedgerDrops ==
  ASSUME NEW n, NEW L, NEW c, NEW T, NEW D, Ledger(n, L, c, T, D),
         NEW U \in SUBSET T, NEW E, \A t \in U : E[t] = D[t]
  PROVE  Ledger(n, L, c, U, E)
<1>1. PICK w \in [1 .. n -> Nat], f \in [0 .. n -> Nat], s \in [T -> 1 .. n] :
        Balanced(n, L, c, T, D, w, f, s)
  BY DEF Ledger
<1> DEFINE r == [t \in U |-> s[t]]
<1>2. r \in [U -> 1 .. n] /\ \A t \in U : r[t] = s[t]
  OBVIOUS
<1> HIDE DEF r
<1>3. Balanced(n, L, c, U, E, w, f, r)
  BY <1>1, <1>2 DEF Balanced
<1> QED BY <1>2, <1>3 DEF Ledger

\* A version that is stored is to be charged for.
LEMMA LedgerTakes ==
  ASSUME NEW n \in Nat, NEW L, NEW M, \A i \in 1 .. n : M[i] = L[i],
         NEW c, NEW T, NEW D, Ledger(n, L, c, T, D),
         NEW t, t \notin T, M[n + 1] \in Nat, D[t] = M[n + 1]
  PROVE  Ledger(n + 1, M, c, T \cup {t}, D)
<1>1. PICK w \in [1 .. n -> Nat], f \in [0 .. n -> Nat], s \in [T -> 1 .. n] :
        Balanced(n, L, c, T, D, w, f, s)
  BY DEF Ledger
<1> DEFINE k == n + 1
           y == [i \in 1 .. k |-> IF i = k THEN 0 ELSE w[i]]
           g == [i \in 0 .. k |-> IF i = k THEN f[n] ELSE f[i]]
           r == [u \in T \cup {t} |-> IF u = t THEN k ELSE s[u]]
<1>2. k \in Nat /\ n = k - 1 /\ \A i \in 1 .. k : i = k \/ i \in 1 .. n
  OBVIOUS
<1>3. n \in 0 .. n /\ 0 \in 0 .. n /\ f[n] \in Nat /\ \A i \in 1 .. n : i \in 0 .. n /\ i - 1 \in 0 .. n
  OBVIOUS
<1>4. /\ y \in [1 .. k -> Nat] /\ y[k] = 0 /\ \A i \in 1 .. n : y[i] = w[i]
      /\ g \in [0 .. k -> Nat] /\ g[k] = f[n] /\ \A i \in 0 .. n : g[i] = f[i]
      /\ r \in [T \cup {t} -> 1 .. k] /\ r[t] = k /\ \A u \in T : r[u] = s[u] /\ s[u] \in 1 .. n
  BY <1>3
<1>5. /\ \A i \in 1 .. n : w[i] <= L[i]
      /\ f[0] = 0 /\ \A i \in 1 .. n : f[i] = f[i - 1] + w[i]
      /\ c = f[n]
      /\ \A u \in T : w[s[u]] = 0 /\ L[s[u]] = D[u]
      /\ \A u, z \in T : s[u] = s[z] => u = z
  BY <1>1 DEF Balanced
<1>6. k \notin 1 .. n /\ M[k] \in Nat /\ D[t] = M[k]
  OBVIOUS
<1> HIDE DEF k, y, g, r
<1>7. ASSUME NEW i \in 1 .. k PROVE y[i] <= M[i] /\ g[i] = g[i - 1] + y[i]
  <2>1. CASE i = k
    BY <1>2, <1>3, <1>4, <1>6, <2>1
  <2>2. CASE i \in 1 .. n
    <3>1. M[i] = L[i] /\ y[i] = w[i] /\ w[i] <= L[i]
      BY <2>2, <1>4, <1>5
    <3>2. g[i] = f[i] /\ g[i - 1] = f[i - 1] /\ f[i] = f[i - 1] + w[i]
      BY <2>2, <1>3, <1>4, <1>5
    <3> QED BY <3>1, <3>2
  <2> QED BY <1>2, <2>1, <2>2
<1>8. ASSUME NEW u \in T \cup {t} PROVE y[r[u]] = 0 /\ M[r[u]] = D[u]
  <2>1. CASE u = t
    BY <1>4, <1>6, <2>1
  <2>2. CASE u \in T
    <3>1. r[u] = s[u] /\ s[u] \in 1 .. n /\ w[s[u]] = 0 /\ L[s[u]] = D[u]
      BY <1>4, <1>5, <2>2
    <3> QED BY <1>4, <3>1
  <2> QED BY <2>1, <2>2
<1>9. ASSUME NEW u \in T \cup {t}, NEW z \in T \cup {t}, r[u] = r[z] PROVE u = z
  <2>1. \A v \in T : r[v] = s[v] /\ s[v] \in 1 .. n /\ r[v] # k
    BY <1>4, <1>6
  <2> QED BY <1>4, <1>5, <1>9, <2>1
<1>10. g[0] = 0 /\ c = g[k]
  BY <1>3, <1>4, <1>5
<1>11. Balanced(k, M, c, T \cup {t}, D, y, g, r)
  BY <1>7, <1>8, <1>9, <1>10 DEF Balanced
<1>12. Ledger(k, M, c, T \cup {t}, D)
  BY <1>4, <1>11 DEF Ledger
<1> QED BY <1>12 DEF k

\* Charging for it once keeps the balance.
LEMMA LedgerPays ==
  ASSUME NEW n \in Nat, NEW L \in [1 .. n -> Nat], NEW c \in Nat, NEW T, NEW D,
         Ledger(n, L, c, T, D), NEW t \in T
  PROVE  Ledger(n, L, c + D[t], T \ {t}, D)
<1>1. PICK w \in [1 .. n -> Nat], f \in [0 .. n -> Nat], s \in [T -> 1 .. n] :
        Balanced(n, L, c, T, D, w, f, s)
  BY DEF Ledger
<1> DEFINE k == s[t]
           l == L[k]
           y == [i \in 1 .. n |-> IF i = k THEN l ELSE w[i]]
           g == [i \in 0 .. n |-> IF i < k THEN f[i] ELSE f[i] + l]
           r == [u \in T \ {t} |-> s[u]]
<1>2. k \in 1 .. n /\ l \in Nat
  OBVIOUS
<1>3. (\A i \in 1 .. n : w[i] \in Nat /\ L[i] \in Nat) /\ (\A i \in 0 .. n : f[i] \in Nat)
  OBVIOUS
<1> HIDE DEF l
<1>4. y \in [1 .. n -> Nat] /\ \A i \in 1 .. n : y[i] = IF i = k THEN l ELSE w[i]
  BY <1>2, <1>3
<1>5. g \in [0 .. n -> Nat] /\ \A i \in 0 .. n : g[i] = IF i < k THEN f[i] ELSE f[i] + l
  <2> SUFFICES ASSUME NEW i \in 0 .. n PROVE (IF i < k THEN f[i] ELSE f[i] + l) \in Nat
    OBVIOUS
  <2>1. f[i] \in Nat /\ f[i] + l \in Nat
    BY <1>2, <1>3
  <2> QED BY <2>1
<1>6. r \in [T \ {t} -> 1 .. n] /\ \A u \in T \ {t} : r[u] = s[u]
  OBVIOUS
<1>7. /\ \A i \in 1 .. n : w[i] <= L[i]
      /\ f[0] = 0 /\ \A i \in 1 .. n : f[i] = f[i - 1] + w[i]
      /\ c = f[n]
      /\ \A u \in T : w[s[u]] = 0 /\ L[s[u]] = D[u]
      /\ \A u, z \in T : s[u] = s[z] => u = z
  BY <1>1 DEF Balanced
<1>8. l = D[t] /\ w[k] = 0
  BY <1>7 DEF l
<1>9. \A u \in T \ {t} : s[u] # k /\ s[u] \in 1 .. n
  BY <1>7
<1>10. L[k] = l
  BY DEF l
<1> HIDE DEF k, y, g, r
<1>11. ASSUME NEW i \in 1 .. n PROVE y[i] <= L[i]
  <2>1. CASE i = k
    BY <1>2, <1>4, <1>10, <2>1
  <2>2. CASE i # k
    BY <1>4, <1>7, <2>2
  <2> QED BY <2>1, <2>2
<1>12. ASSUME NEW i \in 1 .. n PROVE g[i] = g[i - 1] + y[i]
  <2>1. i \in 0 .. n /\ i - 1 \in 0 .. n /\ i \in Nat /\ k \in Nat
    BY <1>2
  <2>2. f[i] = f[i - 1] + w[i] /\ f[i] \in Nat /\ f[i - 1] \in Nat /\ w[i] \in Nat
    BY <1>3, <1>7, <2>1
  <2>3. CASE i < k
    <3>1. g[i] = f[i] /\ g[i - 1] = f[i - 1] /\ y[i] = w[i]
      BY <1>4, <1>5, <2>1, <2>3
    <3> QED BY <2>2, <3>1
  <2>4. CASE i = k
    <3>1. g[i] = f[i] + l /\ g[i - 1] = f[i - 1] /\ y[i] = l /\ w[i] = 0
      <4>1. ~(i < k) /\ i - 1 < k
        BY <2>1, <2>4
      <4>2. g[i] = f[i] + l /\ g[i - 1] = f[i - 1]
        BY <1>5, <2>1, <4>1
      <4> QED BY <1>4, <1>8, <2>4, <4>2
    <3> QED BY <1>2, <2>2, <3>1
  <2>5. CASE i > k
    <3>1. g[i] = f[i] + l /\ g[i - 1] = f[i - 1] + l /\ y[i] = w[i]
      BY <1>4, <1>5, <2>1, <2>5
    <3> QED BY <1>2, <2>2, <3>1
  <2> QED BY <2>1, <2>3, <2>4, <2>5
<1>13. \A u \in T \ {t} : y[r[u]] = 0 /\ L[r[u]] = D[u]
  BY <1>4, <1>6, <1>7, <1>9
<1>14. \A u, z \in T \ {t} : r[u] = r[z] => u = z
  BY <1>6, <1>7
<1>15. g[0] = 0
  <2>1. 0 \in 0 .. n /\ 0 < k
    BY <1>2
  <2> QED BY <2>1, <1>5, <1>7
<1>16. c + D[t] = g[n]
  <2>1. n \in 0 .. n /\ ~(n < k)
    BY <1>2
  <2> QED BY <2>1, <1>5, <1>7, <1>8
<1>17. Balanced(n, L, c + D[t], T \ {t}, D, y, g, r)
  BY <1>11, <1>12, <1>13, <1>14, <1>15, <1>16 DEF Balanced
<1> QED BY <1>4, <1>5, <1>6, <1>17 DEF Ledger

\* Induction, for a set: what is true of 0 and kept by every step is true of all.
LEMMA Induct ==
    ASSUME NEW S \in SUBSET Nat, 0 \in S, \A n \in S : n + 1 \in S
    PROVE  \A n \in Nat : n \in S
<1> DEFINE R == Nat \ S
<1> SUFFICES ASSUME R # {} PROVE FALSE
  OBVIOUS
<1>1. R \subseteq Nat /\ \A m \in R : m \in Nat /\ m \notin S
  OBVIOUS
<1>2. \A m \in Nat : m \notin S => m \in R
  OBVIOUS
<1> HIDE DEF R
<1>3. PICK m \in R : \A y \in R : <<y, m>> \notin OpToRel(<, Nat)
  BY <1>1, NatLessThanWellFounded, WFMin
<1>4. m \in Nat /\ m # 0
  BY <1>1
<1> DEFINE p == m - 1
<1>5. p \in Nat /\ p < m /\ p + 1 = m
  BY <1>4
<1> HIDE DEF p
<1>6. <<p, m>> \in OpToRel(<, Nat)
  BY <1>4, <1>5 DEF OpToRel
<1>7. p \in S
  BY <1>2, <1>3, <1>5, <1>6
<1>8. m \in S
  BY <1>5, <1>7
<1> QED BY <1>1, <1>8

\* Lengths can be added up: Bytes is what it says.
Tally(L, N, b) == b = [i \in 0 .. N |-> IF i = 0 THEN 0 ELSE b[i - 1] + L[i]]
Adds(L, N) == \E b \in [0 .. N -> Nat] : Tally(L, N, b)
LEMMA TallyExists ==
  ASSUME NEW n \in Nat, NEW L, \A i \in 1 .. n : L[i] \in Nat
  PROVE  Adds(L, n)
<1> DEFINE G == {N \in Nat : N <= n => Adds(L, N)}
<1>1. 0 \in G
  <2> DEFINE b == [i \in 0 .. 0 |-> 0]
  <2>1. b \in [0 .. 0 -> Nat] /\ Tally(L, 0, b)
    BY DEF Tally
  <2> QED BY <2>1 DEF Adds
<1>2. ASSUME NEW N \in G PROVE N + 1 \in G
  <2> SUFFICES ASSUME N + 1 <= n PROVE Adds(L, N + 1)
    OBVIOUS
  <2> DEFINE k == N + 1
  <2>1. N \in Nat /\ Adds(L, N) /\ L[k] \in Nat
    OBVIOUS
  <2>2. PICK b \in [0 .. N -> Nat] : Tally(L, N, b)
    BY <2>1 DEF Adds
  <2>3. /\ k \in Nat /\ k # 0 /\ k - 1 = N /\ N \in 0 .. N /\ k \in 0 .. k
        /\ \A i \in 0 .. k : i = k \/ (i \in 0 .. N /\ i # k /\ (i # 0 => i - 1 \in 0 .. N))
        /\ \A i \in 0 .. N : i \in 0 .. k /\ i # k
    BY <2>1
  <2> HIDE DEF k
  <2> DEFINE e == [i \in 0 .. k |-> IF i = k THEN b[N] + L[k] ELSE b[i]]
  <2>4. e \in [0 .. k -> Nat] /\ e[k] = b[N] + L[k] /\ \A i \in 0 .. N : e[i] = b[i]
    BY <2>1, <2>3
  <2>5. \A i \in 0 .. N : b[i] = IF i = 0 THEN 0 ELSE b[i - 1] + L[i]
    BY <2>2 DEF Tally
  <2> HIDE DEF e
  <2>6. ASSUME NEW i \in 0 .. k PROVE e[i] = IF i = 0 THEN 0 ELSE e[i - 1] + L[i]
    <3>1. CASE i = k
      BY <2>3, <2>4, <3>1
    <3>2. CASE i # k
      BY <2>3, <2>4, <2>5, <3>2
    <3> QED BY <3>1, <3>2
  <2>7. Tally(L, k, e)
    BY <2>4, <2>6 DEF Tally
  <2>8. Adds(L, k)
    BY <2>4, <2>7 DEF Adds
  <2> QED BY <2>8 DEF k
<1>3. G \subseteq Nat
  OBVIOUS
<1> HIDE DEF G
<1>4. n \in G
  BY <1>1, <1>2, <1>3, Induct
<1> QED BY <1>4 DEF G

LEMMA LengthsAre ==
  ASSUME versions \in Seq(Seq(1 .. total))
  PROVE  /\ Len(versions) \in Nat /\ Lengths \in [1 .. Len(versions) -> Nat]
         /\ \A i \in 1 .. Len(versions) : Lengths[i] = Len(versions[i])
<1>1. \A i \in 1 .. Len(versions) : versions[i] \in Seq(1 .. total)
  OBVIOUS
<1>2. \A i \in 1 .. Len(versions) : Len(versions[i]) \in Nat
  BY <1>1
<1> QED BY <1>2 DEF Lengths

\* Bytes adds up all of them.
LEMMA BytesAre ==
  ASSUME versions \in Seq(Seq(1 .. total))
  PROVE  /\ Bytes[0] = 0
         /\ \A i \in 1 .. Len(versions) : Bytes[i] = Bytes[i - 1] + Lengths[i]
<1> DEFINE n == Len(versions)
<1>1. n \in Nat /\ \A i \in 1 .. n : Lengths[i] \in Nat /\ Lengths[i] = Len(versions[i])
  BY LengthsAre
<1>2. PICK b : Tally(Lengths, n, b)
  BY <1>1, TallyExists DEF Adds
<1>3. \A x : Tally(Lengths, n, x) <=> x = [i \in 0 .. n |-> IF i = 0 THEN 0 ELSE x[i - 1] + Len(versions[i])]
  <2>1. \A x : [i \in 0 .. n |-> IF i = 0 THEN 0 ELSE x[i - 1] + Lengths[i]]
                 = [i \in 0 .. n |-> IF i = 0 THEN 0 ELSE x[i - 1] + Len(versions[i])]
    BY <1>1
  <2> QED BY <2>1 DEF Tally
<1>4. Bytes = CHOOSE x : x = [i \in 0 .. n |-> IF i = 0 THEN 0 ELSE x[i - 1] + Len(versions[i])]
  BY DEF Bytes
<1>5. Bytes = [i \in 0 .. n |-> IF i = 0 THEN 0 ELSE Bytes[i - 1] + Len(versions[i])]
  BY <1>2, <1>3, <1>4
<1>6. 0 \in 0 .. n /\ \A i \in 1 .. n : i \in 0 .. n /\ i # 0
  BY <1>1
<1> HIDE DEF Bytes, n
<1>7. Bytes[0] = 0
  BY <1>5, <1>6
<1>8. \A i \in 1 .. n : Bytes[i] = Bytes[i - 1] + Lengths[i]
  BY <1>1, <1>5, <1>6
<1> QED BY <1>7, <1>8 DEF n

\* What is booked is covered.
LEMMA BookedIsStored ==
  ASSUME versions \in Seq(Seq(1 .. total)), Booked
  PROVE  ChargedIsStored
<1> DEFINE n == Len(versions)
           L == Lengths
<1>1. PICK w \in [1 .. n -> Nat], f \in [0 .. n -> Nat] :
        /\ \A i \in 1 .. n : w[i] <= L[i]
        /\ f[0] = 0 /\ \A i \in 1 .. n : f[i] = f[i - 1] + w[i]
        /\ charged = f[n]
  BY DEF Booked, Ledger, Balanced
<1>2. n \in Nat /\ \A i \in 1 .. n : L[i] \in Nat
  BY LengthsAre
<1>3. Bytes[0] = 0 /\ \A i \in 1 .. n : Bytes[i] = Bytes[i - 1] + L[i]
  BY BytesAre
<1> DEFINE G == {i \in Nat : i <= n => Bytes[i] \in Nat /\ f[i] <= Bytes[i]}
<1> HIDE DEF n, L, Bytes
<1>4. 0 \in G
  BY <1>1, <1>3
<1>5. ASSUME NEW i \in G PROVE i + 1 \in G
  <2> SUFFICES ASSUME i + 1 <= n PROVE Bytes[i + 1] \in Nat /\ f[i + 1] <= Bytes[i + 1]
    OBVIOUS
  <2>1. i \in Nat /\ Bytes[i] \in Nat /\ f[i] <= Bytes[i] /\ i + 1 \in 1 .. n /\ i \in 0 .. n
    BY <1>2
  <2>2. (i + 1) - 1 = i
    BY <2>1
  <2>3. Bytes[i + 1] = Bytes[i] + L[i + 1] /\ f[i + 1] = f[i] + w[i + 1]
    BY <1>1, <1>3, <2>1, <2>2
  <2>4. w[i + 1] \in Nat /\ f[i] \in Nat /\ L[i + 1] \in Nat /\ w[i + 1] <= L[i + 1]
    BY <1>1, <1>2, <2>1
  <2> QED BY <2>1, <2>3, <2>4
<1>6. G \subseteq Nat
  OBVIOUS
<1> HIDE DEF G
<1>7. n \in G
  BY <1>2, <1>4, <1>5, <1>6, Induct
<1>8. f[n] <= Bytes[n]
  BY <1>2, <1>7 DEF G
<1> QED BY <1>1, <1>8 DEF ChargedIsStored, n

LEMMA BookedStep == TypeOK /\ Booked /\ [Next]_vars => Booked'
<1> SUFFICES ASSUME TypeOK, Booked, [Next]_vars PROVE Booked'
  OBVIOUS
<1>0. /\ versions \in Seq(Seq(1 .. total)) /\ charged \in Nat
      /\ \A t \in Task : data[t] \in Seq(1 .. total)
  BY DEF TypeOK
<1>len. Len(versions) \in Nat /\ Lengths \in [1 .. Len(versions) -> Nat]
  BY <1>0, LengthsAre
<1>same. ASSUME UNCHANGED <<versions, charged>>, Charging' \subseteq Charging,
                \A t \in Charging' : data'[t] = data[t]
         PROVE  Booked'
  <2>1. Lengths' = Lengths /\ Len(versions') = Len(versions)
    BY <1>same DEF Lengths
  <2>2. \A t \in Charging' : Owed'[t] = Owed[t]
    BY <1>same DEF Owed, Charging
  <2>3. Ledger(Len(versions), Lengths, charged, Charging', Owed')
    BY <1>same, <2>2, LedgerDrops DEF Booked
  <2> QED BY <1>same, <2>1, <2>3 DEF Booked
<1> USE DEF rowVars, fileVars, storeVars, patchVars, taskVars, clientVars, history
<1>1. ASSUME \/ CreateFile \/ CreateRow \/ Disconnect \/ Resume \/ Cancel
             \/ HeadOffset \/ DeleteFile \/ DeleteRow
             \/ \E p \in Proc, n \in 1 .. total : Send(p, n)
             \/ \E p \in Proc : Check(p) \/ OpenPart(p) \/ WriteBlock(p) \/ PatchFails(p) \/ Drop(p)
             \/ Admit \/ Evict \/ UNCHANGED vars
      PROVE  Booked'
  <2>1. UNCHANGED <<versions, charged, step, data>>
    BY <1>1 DEF CreateFile, CreateRow, Disconnect, Resume, Cancel, HeadOffset, DeleteFile,
           DeleteRow, Send, Check, OpenPart, WriteBlock, PatchFails, Drop, Admit,
           Evict, vars
  <2> QED BY <2>1, <1>same DEF Charging
<1>2. ASSUME NEW p \in Proc, Record(p) PROVE Booked'
  <2>1. /\ UNCHANGED <<versions, charged, data>>
        /\ step' = step \/ step' = [step EXCEPT ![p] = "read"]
    BY <1>2 DEF Record, Run
  <2>2. Charging' \subseteq Charging
    BY <2>1 DEF Charging, TypeOK
  <2> QED BY <2>1, <2>2, <1>same
<1>3. ASSUME NEW t \in Task, ReadPart(t) \/ Remove(t) \/ FinishFails(t) PROVE Booked'
  <2>1. /\ UNCHANGED <<versions, charged>>
        /\ \E l \in {"idle", "insert"} : step' = [step EXCEPT ![t] = l]
        /\ \A u \in Task : u # t => data'[u] = data[u]
    BY <1>3 DEF ReadPart, Remove, FinishFails, Finish, Run, TypeOK
  <2>2. t \notin Charging' /\ Charging' \subseteq Charging
    BY <2>1 DEF Charging, TypeOK
  <2>3. \A u \in Charging' : data'[u] = data[u]
    BY <2>1, <2>2 DEF Charging
  <2> QED BY <2>1, <2>2, <2>3, <1>same
<1>4. ASSUME NEW t \in Task, InsertVersion(t) PROVE Booked'
  <2>1. /\ versions' = Append(versions, data[t]) /\ UNCHANGED <<charged, data>>
        /\ step' = [step EXCEPT ![t] = "account"] /\ step[t] = "insert"
    BY <1>4 DEF InsertVersion, Run
  <2>2. t \notin Charging /\ Charging' = Charging \cup {t}
    BY <2>1 DEF Charging, TypeOK
  <2>3. /\ Len(versions') = Len(versions) + 1 /\ versions'[Len(versions) + 1] = data[t]
        /\ \A i \in 1 .. Len(versions) : versions'[i] = versions[i]
    BY <1>0, <2>1
  <2>4. \A i \in 1 .. Len(versions) : Lengths'[i] = Lengths[i]
    BY <1>len, <2>3 DEF Lengths
  <2>5. Lengths'[Len(versions) + 1] = Len(data[t]) /\ Len(data[t]) \in Nat
    BY <1>0, <1>len, <2>3 DEF Lengths
  <2>6. Owed' = Owed /\ Owed[t] = Len(data[t])
    BY <2>1 DEF Owed
  <2>7. Ledger(Len(versions) + 1, Lengths', charged, Charging \cup {t}, Owed)
    BY <1>len, <2>2, <2>4, <2>5, <2>6, LedgerTakes DEF Booked
  <2> QED BY <2>1, <2>2, <2>3, <2>6, <2>7 DEF Booked
<1>5. ASSUME NEW t \in Task, Account(t) PROVE Booked'
  <2>1. /\ charged' = charged + Len(data[t]) /\ UNCHANGED <<versions, data>>
        /\ step' = [step EXCEPT ![t] = "complete"] /\ step[t] = "account"
    BY <1>5 DEF Account, Run
  <2>2. t \in Charging /\ Charging' = Charging \ {t}
    BY <2>1 DEF Charging, TypeOK
  <2>3. Owed' = Owed /\ Owed[t] = Len(data[t]) /\ Lengths' = Lengths
    BY <2>1 DEF Owed, Lengths
  <2>4. Ledger(Len(versions), Lengths, charged + Owed[t], Charging \ {t}, Owed)
    BY <1>0, <1>len, <2>2, LedgerPays DEF Booked
  <2> QED BY <2>1, <2>2, <2>3, <2>4 DEF Booked
<1>6. ASSUME NEW t \in Task, Complete(t) PROVE Booked'
  <2>1. UNCHANGED <<versions, charged, data>> /\ step' = [step EXCEPT ![t] = "remove"]
    BY <1>6 DEF Complete, Run
  <2>2. Charging' \subseteq Charging
    BY <2>1 DEF Charging, TypeOK
  <2> QED BY <2>1, <2>2, <1>same
<1>7. ASSUME SelectPending \/ CheckPart PROVE Booked'
  <2>1. /\ UNCHANGED <<versions, charged, data>>
        /\ \E l \in {"idle", "check", "read"} : step' = [step EXCEPT ![Resumer] = l]
    BY <1>7 DEF SelectPending, CheckPart, Run
  <2>2. Charging' \subseteq Charging
    BY <2>1 DEF Charging, TypeOK
  <2> QED BY <2>1, <2>2, <1>same
<1>8. ASSUME Crash PROVE Booked'
  <2>1. UNCHANGED <<versions, charged>> /\ Charging' = {}
    BY <1>8 DEF Crash, Charging
  <2> QED BY <2>1, <1>same
<1> QED
  BY <1>1, <1>2, <1>3, <1>4, <1>5, <1>6, <1>7, <1>8
  DEF Next, Client, Handler, Assembly, Resumption, Task

LEMMA BookedAlways == Spec => []Booked
<1>1. Init => Booked
  <2> SUFFICES ASSUME Init PROVE Booked
    OBVIOUS
  <2> DEFINE f == [i \in 0 .. 0 |-> 0]
             w == [i \in 1 .. 0 |-> 0]
             s == [t \in {} |-> 0]
  <2>1. versions = <<>> /\ charged = 0 /\ Charging = {} /\ Len(versions) = 0
    BY DEF Init, Charging
  <2>2. w \in [1 .. 0 -> Nat] /\ f \in [0 .. 0 -> Nat] /\ s \in [{} -> 1 .. 0] /\ f[0] = 0
    OBVIOUS
  <2> HIDE DEF w, f, s
  <2>3. Balanced(0, Lengths, charged, Charging, Owed, w, f, s)
    BY <2>1, <2>2 DEF Balanced
  <2> QED BY <2>1, <2>2, <2>3 DEF Booked, Ledger
<1>2. IInv => TypeOK
  BY DEF IInv
<1> QED BY <1>1, <1>2, BookedStep, Invariance, PTL DEF Spec

-----------------------------------------------------------------------------
(***************************************************************************)
(* The theorems.                                                           *)
(***************************************************************************)
\* Every handler, every assembly and the client keep the state in its types:
\* the offset of the row, in particular, never exceeds Upload-Length, however
\* PATCHes overlap (patch_upload).
THEOREM UploadTypesAreKept == Spec => []TypeOK
<1>1. IInv => TypeOK
  BY DEF IInv
<1> QED
  BY <1>1, Invariance, PTL

\* The offset that HEAD reports is backed by that many bytes of the partial
\* file, in the order the client sent them unless PATCHes were mixed up
\* (patch_upload appends before it records).
THEOREM ReportedBytesAreOnDisk == Spec => []ReportedIsOnDisk
<1>1. IInv => ReportedIsOnDisk
  <2> SUFFICES ASSUME IInv, registered, there
               PROVE  /\ uploaded <= Len(part)
                      /\ mangled \/ \A i \in 1 .. uploaded : part[i] = i
    BY DEF ReportedIsOnDisk
  <2>1. uploaded <= Len(part) /\ uploaded \in Nat /\ Len(part) \in Nat
    BY TusAssumption DEF IInv, TypeOK, OnDisk
  <2>2. ~mangled => \A i \in 1 .. Len(part) : part[i] = i
    BY DEF IInv, Prefix
  <2> QED
    BY <2>1, <2>2
<1> QED
  BY <1>1, Invariance, PTL

\* A client that was told it is done has had every byte recorded, unless
\* PATCHes were mixed up (the answers of patch_upload and head_upload).
THEOREM DoneMeansReceived == Spec => []DoneIsReceived
<1>1. IInv => DoneIsReceived
  BY DEF IInv, Heard, DoneIsReceived
<1> QED
  BY <1>1, Invariance, PTL

\* Every step of an upload is one that UploadPromise allows: its offset only
\* grows, what it stores is what was sent, for a folder that is there, and the
\* partial file goes only once it is stored or the client withdrew, unless PATCHes
\* were mixed up.
THEOREM UploadImplementsPromise ==
    Spec => Promise!Init /\ [][Promise!Next]_(Promise!vars)
<1>1. Init => Promise!Init
  BY DEF Init, Promise!Init
<1> QED
  BY <1>1, Invariance, StepIsPromised, PTL DEF Spec

\* An upload becomes one version, whoever assembles it, the handler of the last
\* PATCH or the resumer, unless two assemblies overlapped, one was cut short
\* between its version and completed = 1, or PATCHes were mixed up
\* (finish_upload, reprendre_envois_inacheves).
THEOREM OneVersionAnUpload == Spec => []StoredOnceUnlessAgain
<1>1. OnceInv => StoredOnceUnlessAgain
  BY DEF OnceInv, Once, Sole, StoredOnceUnlessAgain
<1> QED
  BY <1>1, OnceAlways, PTL

\* Whatever fails, restarts or overlaps, an account is charged for no more bytes
\* than the versions stored for it have: every charge has its own version
\* (finish_upload stores first, then raises used_bytes).
THEOREM NothingUnstoredIsCharged == Spec => []ChargedIsStored
<1>1. IInv /\ Booked => ChargedIsStored
  BY BookedIsStored DEF IInv, TypeOK
<1> QED
  BY <1>1, Invariance, BookedAlways, PTL
=============================================================================
