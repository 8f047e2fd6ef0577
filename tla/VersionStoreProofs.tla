------------------------- MODULE VersionStoreProofs -------------------------
(***************************************************************************)
(* Machine-checked proofs about VersionStore, for every set of hashes,     *)
(* contents and requests: its types, that a count never exceeds the        *)
(* references it stands for, that a stored version holds every reference   *)
(* of its manifest, that its chunks are there unless they clashed, and     *)
(* that its number is its own and follows its base unless it was raced.    *)
(***************************************************************************)
EXTENDS VersionStore, FiniteSetTheorems, WellFoundedInduction, TLAPS

-----------------------------------------------------------------------------
(***************************************************************************)
(* The inductive invariant.                                                *)
(***************************************************************************)
Writing  == {"check", "lookup", "create", "base", "fork", "write"}
Taking   == {"see", "bump", "insert", "rebump"}
Sending  == {"chunkrow", "chunkblob", "chunkinsert"}
Settled  == {"current", "done"}
Owing    == {"unfile", "release", "unrow", "unblob"}
Walking  == {"check", "write"} \cup Taking
Looping  == Walking \cup Sending

\* Version numbers in use have an upper bound, so that LastNo is one of them.
NumsBounded == \E n \in Nat : \A r \in Req : num[r] <= n

\* Inside a loop the cursor stands on a chunk, elsewhere it is at rest; the
\* steps of an upload or a finalize are reached by no other request; only a
\* request past the INSERT of its version has one stored.
PlaceAt(r) ==
    /\ pc[r] \in Looping => idx[r] <= Len(Man(r))
    /\ pc[r] \notin Walking => idx[r] = 1
    /\ pc[r] \in Writing \cup {"see", "bump", "insert"}
         => arg[r].op \in {"upload", "finalize"}
    /\ r \in stored => pc[r] \in Settled
PlaceOK == \A r \in Req : PlaceAt(r)

\* Which references a request holds follows from where it stands, and a
\* stored version holds them all.
Untaken(r) == \/ pc[r] \in {"idle"} \cup Writing
              \/ pc[r] = "number" /\ arg[r].op = "restore"
Taken(r)   == \/ pc[r] = "version" \/ r \in stored
              \/ pc[r] = "number" /\ arg[r].op # "restore"
RefOK(r, i) ==
    /\ <<r, i>> \in refs => i \in 1 .. Len(Man(r)) /\ pc[r] # "idle"
    /\ Untaken(r) => <<r, i>> \notin refs
    /\ pc[r] \in Taking => (<<r, i>> \in refs <=> i \in 1 .. idx[r] - 1)
    /\ Taken(r) /\ i \in 1 .. Len(Man(r)) => <<r, i>> \in refs
RefsOK == \A r \in Req, i \in Nat : RefOK(r, i)

\* What a purge owes belongs to versions of its file, and to no stored
\* version once it has deleted them.
TodoAt(r, v, i) == <<v, i>> \in todo[r] =>
    /\ i \in 1 .. Len(Man(v)) /\ pc[v] \in Settled
    /\ \/ pc[r] = "unversion" /\ file[v] = file[r]
       \/ pc[r] \in Owing /\ v \notin stored
TodoOK == \A r, v \in Req, i \in Nat : TodoAt(r, v, i)

\* A hash without a row counts zero; one with a row at most its references.
CountsOK ==
    /\ \A h \in Hash \ rows : refcount[h] = 0
    /\ IsFiniteSet(refs)
    /\ NeverOverCounted

IInv == TypeOK /\ NumsBounded /\ PlaceOK /\ RefsOK /\ TodoOK /\ CountsOK

-----------------------------------------------------------------------------
(***************************************************************************)
(* Lemmas about the helpers.                                               *)
(***************************************************************************)
\* What TypeOK says of the variables the arguments below look at.
LEMMA Types ==
    ASSUME TypeOK
    PROVE  /\ pc \in [Req -> Label] /\ idx \in [Req -> Nat \ {0}]
           /\ file \in [Req -> FileId \cup {NoFile}] /\ num \in [Req -> Nat]
           /\ DOMAIN arg = Req
           /\ \A r \in Req : Man(r) \in Seq(Hash) /\ Len(Man(r)) \in Nat
           /\ \A r \in Req : \A i \in 1 .. Len(Man(r)) : Man(r)[i] \in Hash
           /\ todo \in [Req -> SUBSET Token] /\ stored \subseteq Req
           /\ refs \subseteq Token
  BY DEF TypeOK, DatabaseTypeOK, RequestTypeOK, DeleterTypeOK,
         HistoryTypeOK, Man

\* A loop over a manifest is entered only if the manifest has a chunk.
LEMMA LoopOrCases ==
    ASSUME NEW man \in Seq(Hash), NEW loop, NEW after
    PROVE  \/ LoopOr(man, loop, after) = loop /\ Len(man) >= 1
           \/ LoopOr(man, loop, after) = after /\ Len(man) = 0
  BY DEF LoopOr

\* Where a write goes once its file is settled (Store).
LEMMA StoreCases ==
    ASSUME TypeOK, NEW r \in Req
    PROVE  \/ Store(r) \in {"write", "see"} /\ Len(Man(r)) >= 1
           \/ Store(r) = "number" /\ Len(Man(r)) = 0
  BY Types, LoopOrCases DEF Store

\* Version numbers are naturals: the set LastNo chooses from has a maximum.
LEMMA LastNoIsMax ==
    ASSUME TypeOK, NumsBounded, NEW f
    PROVE  LastNo(f) \in Nat /\ \A v \in VersionsOf(f) : num[v] <= LastNo(f)
<1> DEFINE nos   == {0} \cup {num[v] : v \in VersionsOf(f)}
           upper == {m \in Nat : \A n \in nos : n <= m}
<1>1. nos \subseteq Nat
  BY Types DEF VersionsOf
<1>2. PICK n \in Nat : \A r \in Req : num[r] <= n
  BY DEF NumsBounded
<1>3. n \in upper
  BY <1>2, Types DEF VersionsOf
<1>4. PICK x \in upper : \A y \in upper : ~(y < x)
  <2>1. PICK x \in upper : \A y \in upper : <<y, x>> \notin OpToRel(<, Nat)
    BY <1>3, NatLessThanWellFounded, WFMin
  <2>2. \A y \in upper : y < x => <<y, x>> \in OpToRel(<, Nat)
    BY DEF OpToRel
  <2>3. QED BY <2>1, <2>2
<1>5. x \in nos
  <2>1. SUFFICES ASSUME x \notin nos PROVE FALSE OBVIOUS
  <2>2. x # 0 BY <2>1
  <2>3. x - 1 \in upper BY <1>1, <2>1, <2>2
  <2>4. QED BY <1>4, <2>3
<1>6. \E m \in nos : \A k \in nos : k <= m
  BY <1>5
<1>7. QED BY <1>1, <1>6 DEF LastNo

LEMMA LastNoIsNat ==
    ASSUME TypeOK, NumsBounded, NEW f
    PROVE  LastNo(f) \in Nat
  BY LastNoIsMax

\* A dropped error is one of the faults that are bounded.
LEMMA IgnoredIsBounded ==
    ASSUME TypeOK, Ignored
    PROVE  faults' \in 0 .. MaxFaults
  BY VersionStoreAssumption DEF Ignored, TypeOK, HistoryTypeOK

\* A release takes one reference, or skips it when its UPDATE fails.
LEMMA ReleaseCases ==
    ASSUME NEW r \in Req, Release(r)
    PROVE  /\ pc[r] = "release" /\ UNCHANGED <<rows, blobs, files, stored, arg>>
           /\ UNCHANGED <<file, num, idx, clash, hollow, raced>>
           /\ UNCHANGED sweepVars
           /\ \E t \in todo[r] :
                /\ todo' = [todo EXCEPT ![r] = @ \ {t}]
                /\ \/ /\ refs' = refs \ {t}
                      /\ refcount' = IF ChunkAt(t) \in rows
                                     THEN [refcount EXCEPT ![ChunkAt(t)] = @ - 1]
                                     ELSE refcount
                      /\ IF ChunkAt(t) \in rows /\ refcount[ChunkAt(t)] <= 1
                         THEN /\ drop' = [drop EXCEPT ![r] = {ChunkAt(t)}]
                              /\ pc' = [pc EXCEPT ![r] = "unrow"]
                         ELSE UNCHANGED <<pc, drop>>
                      /\ UNCHANGED faults
                   \/ Ignored /\ UNCHANGED <<refs, refcount, pc, drop>>
  BY DEF Release, Goto, sweepVars

\* A step that touches neither counts, references nor manifests.
LEMMA CountsFrame ==
    ASSUME CountsOK, UNCHANGED <<rows, refcount, refs, arg>>
    PROVE  CountsOK'
  BY DEF CountsOK, NeverOverCounted, Held, ChunkAt, Man

\* The chunk a loop stands on, and what a purge owes, are hashes.
LEMMA HereIsHash ==
    ASSUME TypeOK, PlaceOK, NEW r \in Req, pc[r] \in Looping
    PROVE  Here(r) \in Hash
  BY Types DEF Here, PlaceOK, PlaceAt

LEMMA OwedIsHash ==
    ASSUME TypeOK, TodoOK, NEW r \in Req, NEW t \in todo[r]
    PROVE  ChunkAt(t) \in Hash
<1>1. PICK v \in Req, i \in Nat : t = <<v, i>>
  BY Types DEF Token
<1>2. QED BY <1>1, Types DEF TodoOK, TodoAt, ChunkAt

LEMMA DeletingIsHash ==
    ASSUME TypeOK, TodoOK
    PROVE  Deleting \subseteq Hash
  BY OwedIsHash DEF Deleting, Condemned, TypeOK, DeleterTypeOK

LEMMA OwedTokens ==
    ASSUME TypeOK, NEW f, NEW t \in RefsOf(VersionsOf(f))
    PROVE  t \in Token /\ ChunkAt(t) \in Hash
<1>1. PICK v \in VersionsOf(f) : t \in {v} \X (1 .. Len(Man(v)))
  BY DEF RefsOf
<1>2. v \in Req /\ t[1] = v /\ t[2] \in 1 .. Len(Man(v)) /\ t[2] \in Nat
  BY <1>1, Types DEF VersionsOf
<1>3. QED BY <1>1, <1>2, Types DEF Token, ChunkAt

\* A turn of a loop, seen by each request.
LEMMA NextChunkMoves ==
    ASSUME TypeOK, NEW r \in Req, NEW loop, NEW after,
           NextChunk(r, loop, after)
    PROVE  /\ \A q \in Req : q # r => pc'[q] = pc[q] /\ idx'[q] = idx[q]
           /\ \/ /\ idx[r] < Len(Man(r))
                 /\ pc'[r] = loop /\ idx'[r] = idx[r] + 1
              \/ /\ idx[r] >= Len(Man(r))
                 /\ pc'[r] = after /\ idx'[r] = 1
<1>1. pc \in [Req -> Label] /\ idx \in [Req -> Nat \ {0}]
      /\ Len(Man(r)) \in Nat
  BY Types
<1>2. QED BY <1>1 DEF NextChunk, Goto

\* A turn of a loop keeps the program counter and the cursor in their types.
LEMMA NextChunkTypes ==
    ASSUME TypeOK, NEW r \in Req, NEW loop \in Label, NEW after \in Label,
           NextChunk(r, loop, after)
    PROVE  pc' \in [Req -> Label] /\ idx' \in [Req -> Nat \ {0}]
<1>1. pc \in [Req -> Label] /\ idx \in [Req -> Nat \ {0}]
  BY Types
<1>2. QED BY <1>1 DEF NextChunk, Goto

\* Every step leaves each request in a place it may be in.
LEMMA PlaceStep ==
    ASSUME IInv, Next, NEW q \in Req
    PROVE  PlaceAt(q)'
<1> TypeOK /\ PlaceOK /\ TodoOK /\ NumsBounded BY DEF IInv
<1> USE Types
<1> \A r \in Req : PlaceAt(r) BY DEF PlaceOK
<1> USE DEF PlaceAt, Writing, Looping, Walking, Taking, Sending, Settled,
      chunkVars, sweepVars, purgeVars, history, Goto, Man, Here
<1>1. ASSUME NEW r \in Req, Begin(r) PROVE PlaceAt(q)'
  <2>1. ASSUME NEW op \in {"upload", "finalize"}, NEW n \in Name,
               NEW man \in Content, NEW base \in Bases(n),
               BeginWrite(r, op, n, man, base)
        PROVE  PlaceAt(q)'
    BY <2>1, LoopOrCases, VersionStoreAssumption DEF BeginWrite
  <2>2. ASSUME NEW h \in Hash, BeginChunk(r, h) PROVE PlaceAt(q)'
    BY <2>2 DEF BeginChunk
  <2>3. ASSUME NEW v \in stored, BeginRestore(r, v) PROVE PlaceAt(q)'
    BY <2>3 DEF BeginRestore
  <2>4. ASSUME NEW f \in FileId, BeginPurge(r, f) PROVE PlaceAt(q)'
    BY <2>4 DEF BeginPurge
  <2>5. QED BY <1>1, <2>1, <2>2, <2>3, <2>4 DEF Begin
<1>2. ASSUME NEW r \in Req, Handler(r) PROVE PlaceAt(q)'
  <2>1. CASE Check(r)
    <3>1. CASE Here(r) \notin rows
      <4>1. /\ pc[r] = "check" /\ UNCHANGED <<arg, stored>>
            /\ pc' = [pc EXCEPT ![r] = "done"] /\ idx' = [idx EXCEPT ![r] = 1]
        BY <2>1, <3>1 DEF Check, Stop
      <4>2. CASE q = r
        <5>1. pc'[q] = "done" /\ idx'[q] = 1 BY <4>1, <4>2
        <5>2. q \notin stored' \/ pc'[q] \in Settled BY <5>1
        <5>3. QED BY <5>1, <5>2
      <4>3. CASE q # r
        <5>1. pc'[q] = pc[q] /\ idx'[q] = idx[q] BY <4>1, <4>3
        <5>2. QED BY <4>1, <5>1
      <4>4. QED BY <4>2, <4>3
    <3>2. CASE Here(r) \in rows
      <4>1. /\ pc[r] = "check" /\ UNCHANGED <<arg, stored>>
            /\ NextChunk(r, "check", "lookup")
        BY <2>1, <3>2 DEF Check
      <4>2. /\ q # r => pc'[q] = pc[q] /\ idx'[q] = idx[q]
            /\ \/ /\ idx[r] < Len(Man(r))
                  /\ pc'[r] = "check" /\ idx'[r] = idx[r] + 1
               \/ pc'[r] = "lookup" /\ idx'[r] = 1
        <5>1. NextChunk(r, "check", "lookup") BY <4>1
        <5>2. QED BY <5>1, NextChunkMoves
      <4>3. CASE q # r
        BY <4>1, <4>2, <4>3
      <4>4. CASE q = r /\ pc'[r] = "lookup" /\ idx'[r] = 1
        <5>1. q \notin stored' BY <4>1, <4>4
        <5>2. QED BY <4>1, <4>4, <5>1
      <4>5. CASE /\ q = r /\ idx[r] < Len(Man(r))
                 /\ pc'[r] = "check" /\ idx'[r] = idx[r] + 1
        <5>1. idx[r] \in Nat /\ Len(Man(r)) \in Nat BY Types
        <5>2. Man(q)' = Man(q) /\ arg'[q] = arg[q] BY <4>1 DEF Man
        <5>3. idx'[q] <= Len(Man(q))' BY <4>5, <5>1, <5>2
        <5>4. arg[q].op \in {"upload", "finalize"} BY <4>1, <4>5
        <5>5. q \notin stored' BY <4>1, <4>5
        <5>6. QED BY <4>5, <5>2, <5>3, <5>4, <5>5
      <4>6. QED BY <4>2, <4>3, <4>4, <4>5
    <3>3. QED BY <3>1, <3>2
  <2>2. CASE Lookup(r)
    BY <2>2 DEF Lookup, Live
  <2>3. CASE Create(r)
    BY <2>3 DEF Create, NewFile
  <2>4. CASE CheckBase(r)
    <3>1. pc[r] = "base" /\ pc' \in {[pc EXCEPT ![r] = Store(r)],
                                  [pc EXCEPT ![r] = "fork"]}
          /\ UNCHANGED <<arg, stored, idx, refs>>
      BY <2>4 DEF CheckBase
    <3>2. QED BY <3>1, StoreCases
  <2>5. CASE Fork(r)
    <3>1. /\ pc[r] = "fork" /\ UNCHANGED <<arg, stored, idx>>
          /\ pc' \in {[pc EXCEPT ![r] = Store(r)], [pc EXCEPT ![r] = "done"]}
      BY <2>5 DEF Fork
    <3>2. QED BY <3>1, StoreCases
  <2>6. CASE WriteBlob(r)
    BY <2>6, NextChunkMoves DEF WriteBlob
  <2>7. CASE SeeRow(r)
    BY <2>7 DEF SeeRow
  <2>8. CASE Bump(r)
    <3>1. pc[r] = "bump" /\ NextChunk(r, "see", "number")
          /\ UNCHANGED <<arg, stored>>
      BY <2>8 DEF Bump, AddRef
    <3>2. QED BY <3>1, NextChunkMoves
  <2>9. CASE InsertRow(r)
    <3>1. CASE Here(r) \in rows BY <2>9, <3>1 DEF InsertRow, Stop
    <3>2. CASE Here(r) \notin rows BY <2>9, <3>2, NextChunkMoves DEF InsertRow
    <3>3. QED BY <3>1, <3>2
  <2>10. CASE Number(r)
    BY <2>10, LoopOrCases, LastNoIsNat DEF Number
  <2>11. CASE Rebump(r)
    <3>1. pc[r] = "rebump" /\ NextChunk(r, "rebump", "version")
          /\ UNCHANGED <<arg, stored>>
      BY <2>11 DEF Rebump, AddRef
    <3>2. CASE q # r BY <3>1, <3>2, NextChunkMoves
    <3>3. CASE q = r /\ idx[r] < Len(Man(r)) BY <3>1, <3>3, NextChunkMoves
    <3>4. CASE q = r /\ idx[r] >= Len(Man(r))
      <4>1. pc'[q] = "version" /\ idx'[q] = 1 BY <3>1, <3>4, NextChunkMoves
      <4>2. q \notin stored' BY <3>1, <3>4
      <4>3. QED BY <4>1, <4>2
    <3>5. QED BY <3>2, <3>3, <3>4
  <2>12. CASE InsertVersion(r)
    <3>1. /\ pc[r] = "version" /\ UNCHANGED <<arg, idx>>
          /\ \/ stored' = stored \cup {r} /\ pc' = [pc EXCEPT ![r] = "current"]
             \/ stored' = stored /\ pc' = [pc EXCEPT ![r] = "done"]
      BY <2>12 DEF InsertVersion
    <3>2. QED BY <3>1
  <2>13. CASE SetCurrent(r)
    BY <2>13 DEF SetCurrent
  <2>14. CASE ChunkRow(r)
    BY <2>14 DEF ChunkRow
  <2>15. CASE ChunkBlob(r)
    BY <2>15 DEF ChunkBlob
  <2>16. CASE ChunkInsert(r)
    BY <2>16 DEF ChunkInsert
  <2>17. CASE SelectManifests(r)
    BY <2>17 DEF SelectManifests
  <2>18. CASE DeleteVersions(r)
    BY <2>18 DEF DeleteVersions
  <2>19. CASE DeleteFileRow(r)
    BY <2>19 DEF DeleteFileRow, Stop
  <2>20. CASE Release(r)
    BY <2>20 DEF Release
  <2>21. CASE DropRow(r)
    BY <2>21 DEF DropRow
  <2>22. CASE DropBlob(r)
    BY <2>22 DEF DropBlob
  <2>23. CASE EndPurge(r)
    BY <2>23 DEF EndPurge
  <2>24. QED BY <1>2, <2>1, <2>2, <2>3, <2>4, <2>5, <2>6, <2>7, <2>8, <2>9,
           <2>10, <2>11, <2>12, <2>13, <2>14, <2>15, <2>16, <2>17, <2>18,
           <2>19, <2>20, <2>21, <2>22, <2>23 DEF Handler
<1>3. ASSUME NEW r \in Req, Abort(r) PROVE PlaceAt(q)'
  BY <1>3 DEF Abort, Stop, Active
<1>4. ASSUME NEW f \in FileId, DeleteFile(f) \/ TrashRestore(f)
      PROVE  PlaceAt(q)'
  BY <1>4 DEF DeleteFile, TrashRestore
<1>5. CASE SweepSelect
  BY <1>5 DEF SweepSelect
<1>6. CASE SweepRow
  BY <1>6 DEF SweepRow
<1>7. CASE SweepBlob
  BY <1>7 DEF SweepBlob
<1>8. CASE Crash
  BY <1>8 DEF Crash, Active
<1>9. QED BY <1>1, <1>2, <1>3, <1>4, <1>5, <1>6, <1>7, <1>8 DEF Next, Sweep

\* Only Number assigns a version number, one above those in use.
LEMMA NumsStep ==
    ASSUME IInv, Next
    PROVE  NumsBounded'
<1> TypeOK /\ PlaceOK /\ TodoOK /\ NumsBounded BY DEF IInv
<1> USE Types
<1> \A r \in Req : PlaceAt(r) BY DEF PlaceOK
<1> USE DEF NumsBounded, chunkVars, sweepVars, purgeVars, history, Goto
<1>1. ASSUME NEW r \in Req, Begin(r) PROVE NumsBounded'
  <2>1. ASSUME NEW op \in {"upload", "finalize"}, NEW n \in Name,
               NEW man \in Content, NEW base \in Bases(n),
               BeginWrite(r, op, n, man, base)
        PROVE  NumsBounded'
    BY <2>1, LoopOrCases, VersionStoreAssumption DEF BeginWrite
  <2>2. ASSUME NEW h \in Hash, BeginChunk(r, h) PROVE NumsBounded'
    BY <2>2 DEF BeginChunk
  <2>3. ASSUME NEW v \in stored, BeginRestore(r, v) PROVE NumsBounded'
    BY <2>3 DEF BeginRestore
  <2>4. ASSUME NEW f \in FileId, BeginPurge(r, f) PROVE NumsBounded'
    BY <2>4 DEF BeginPurge
  <2>5. QED BY <1>1, <2>1, <2>2, <2>3, <2>4 DEF Begin
<1>2. ASSUME NEW r \in Req, Handler(r) PROVE NumsBounded'
  <2>1. CASE Check(r)
    <3>1. CASE Here(r) \notin rows BY <2>1, <3>1 DEF Check, Stop
    <3>2. CASE Here(r) \in rows BY <2>1, <3>2 DEF Check, NextChunk
    <3>3. QED BY <3>1, <3>2
  <2>2. CASE Lookup(r)
    BY <2>2 DEF Lookup, Live
  <2>3. CASE Create(r)
    BY <2>3 DEF Create, NewFile
  <2>4. CASE CheckBase(r)
    BY <2>4, StoreCases DEF CheckBase
  <2>5. CASE Fork(r)
    BY <2>5, StoreCases DEF Fork, NewFile
  <2>6. CASE WriteBlob(r)
    BY <2>6 DEF WriteBlob, PutBlob, NextChunk
  <2>7. CASE SeeRow(r)
    BY <2>7 DEF SeeRow
  <2>8. CASE Bump(r)
    BY <2>8 DEF Bump, AddRef, NextChunk
  <2>9. CASE InsertRow(r)
    <3>1. CASE Here(r) \in rows BY <2>9, <3>1 DEF InsertRow, Stop
    <3>2. CASE Here(r) \notin rows BY <2>9, <3>2 DEF InsertRow, NextChunk
    <3>3. QED BY <3>1, <3>2
  <2>10. CASE Number(r)
    <3>1. PICK n \in Nat : \A p \in Req : num[p] <= n BY DEF NumsBounded
    <3>2. LastNo(file[r]) \in Nat BY LastNoIsNat
    <3>3. \A p \in Req : num'[p] <= n + LastNo(file[r]) + 1
      BY <2>10, <3>1, <3>2 DEF Number
    <3>4. n + LastNo(file[r]) + 1 \in Nat BY <3>2
    <3>5. QED BY <3>3, <3>4 DEF NumsBounded
  <2>11. CASE Rebump(r)
    BY <2>11 DEF Rebump, AddRef, NextChunk
  <2>12. CASE InsertVersion(r)
    BY <2>12 DEF InsertVersion
  <2>13. CASE SetCurrent(r)
    BY <2>13 DEF SetCurrent
  <2>14. CASE ChunkRow(r)
    BY <2>14 DEF ChunkRow
  <2>15. CASE ChunkBlob(r)
    BY <2>15 DEF ChunkBlob
  <2>16. CASE ChunkInsert(r)
    BY <2>16 DEF ChunkInsert
  <2>17. CASE SelectManifests(r)
    BY <2>17 DEF SelectManifests
  <2>18. CASE DeleteVersions(r)
    BY <2>18 DEF DeleteVersions
  <2>19. CASE DeleteFileRow(r)
    BY <2>19 DEF DeleteFileRow, Stop
  <2>20. CASE Release(r)
    BY <2>20 DEF Release
  <2>21. CASE DropRow(r)
    BY <2>21 DEF DropRow
  <2>22. CASE DropBlob(r)
    BY <2>22 DEF DropBlob
  <2>23. CASE EndPurge(r)
    BY <2>23 DEF EndPurge
  <2>24. QED BY <1>2, <2>1, <2>2, <2>3, <2>4, <2>5, <2>6, <2>7, <2>8, <2>9,
           <2>10, <2>11, <2>12, <2>13, <2>14, <2>15, <2>16, <2>17, <2>18,
           <2>19, <2>20, <2>21, <2>22, <2>23 DEF Handler
<1>3. ASSUME NEW r \in Req, Abort(r) PROVE NumsBounded'
  BY <1>3 DEF Abort, Stop, Active
<1>4. ASSUME NEW f \in FileId, DeleteFile(f) \/ TrashRestore(f)
      PROVE  NumsBounded'
  BY <1>4 DEF DeleteFile, TrashRestore
<1>5. CASE SweepSelect
  BY <1>5 DEF SweepSelect
<1>6. CASE SweepRow
  BY <1>6 DEF SweepRow
<1>7. CASE SweepBlob
  BY <1>7 DEF SweepBlob
<1>8. CASE Crash
  BY <1>8 DEF Crash, Active
<1>9. QED BY <1>1, <1>2, <1>3, <1>4, <1>5, <1>6, <1>7, <1>8 DEF Next, Sweep

\* Types of the database and the blob store.
LEMMA DatabaseStep ==
    ASSUME IInv, Next
    PROVE  DatabaseTypeOK'
<1> TypeOK /\ PlaceOK /\ TodoOK /\ NumsBounded BY DEF IInv
<1> USE DEF TypeOK, DatabaseTypeOK, Status, Looping, Walking, Taking, Sending,
      chunkVars, sweepVars, purgeVars, history, Goto
<1>1. ASSUME NEW r \in Req, Begin(r) PROVE DatabaseTypeOK'
  <2>1. ASSUME NEW op \in {"upload", "finalize"}, NEW n \in Name,
               NEW man \in Content, NEW base \in Bases(n),
               BeginWrite(r, op, n, man, base)
        PROVE  DatabaseTypeOK'
    BY <2>1 DEF BeginWrite
  <2>2. ASSUME NEW h \in Hash, BeginChunk(r, h) PROVE DatabaseTypeOK'
    BY <2>2 DEF BeginChunk
  <2>3. ASSUME NEW v \in stored, BeginRestore(r, v) PROVE DatabaseTypeOK'
    BY <2>3, Types DEF BeginRestore
  <2>4. ASSUME NEW f \in FileId, BeginPurge(r, f) PROVE DatabaseTypeOK'
    BY <2>4 DEF BeginPurge
  <2>5. QED BY <1>1, <2>1, <2>2, <2>3, <2>4 DEF Begin
<1>2. ASSUME NEW r \in Req, Handler(r) PROVE DatabaseTypeOK'
  <2>1. CASE Check(r)
    <3>1. CASE Here(r) \notin rows BY <2>1, <3>1, HereIsHash DEF Check, Stop
    <3>2. CASE Here(r) \in rows BY <2>1, <3>2, HereIsHash DEF Check, NextChunk
    <3>3. QED BY <3>1, <3>2
  <2>2. CASE Lookup(r)
    BY <2>2 DEF Lookup, Live
  <2>3. CASE Create(r)
    BY <2>3 DEF Create, NewFile, RequestTypeOK, Op
  <2>4. CASE CheckBase(r)
    BY <2>4, StoreCases DEF CheckBase
  <2>5. CASE Fork(r)
    BY SMTT(30), <2>5, StoreCases DEF Fork, NewFile
  <2>6. CASE WriteBlob(r)
    BY <2>6, HereIsHash DEF WriteBlob, PutBlob, NextChunk
  <2>7. CASE SeeRow(r)
    BY <2>7 DEF SeeRow
  <2>8. CASE Bump(r)
    BY <2>8 DEF Bump, AddRef, TakeRef, NextChunk
  <2>9. CASE InsertRow(r)
    <3>1. CASE Here(r) \in rows BY <2>9, <3>1, HereIsHash DEF InsertRow, Stop
    <3>2. CASE Here(r) \notin rows
      BY <2>9, <3>2, HereIsHash DEF InsertRow, NextChunk, TakeRef
    <3>3. QED BY <3>1, <3>2
  <2>10. CASE Number(r)
    BY <2>10 DEF Number
  <2>11. CASE Rebump(r)
    BY <2>11 DEF Rebump, AddRef, TakeRef, NextChunk
  <2>12. CASE InsertVersion(r)
    BY <2>12 DEF InsertVersion
  <2>13. CASE SetCurrent(r)
    BY <2>13 DEF SetCurrent
  <2>14. CASE ChunkRow(r)
    BY <2>14 DEF ChunkRow
  <2>15. CASE ChunkBlob(r)
    BY <2>15, HereIsHash DEF ChunkBlob, PutBlob
  <2>16. CASE ChunkInsert(r)
    BY <2>16, HereIsHash DEF ChunkInsert
  <2>17. CASE SelectManifests(r)
    BY <2>17, OwedTokens DEF SelectManifests
  <2>18. CASE DeleteVersions(r)
    BY <2>18 DEF DeleteVersions
  <2>19. CASE DeleteFileRow(r)
    BY <2>19 DEF DeleteFileRow, Stop
  <2>20. CASE Release(r)
    BY <2>20, OwedIsHash DEF Release
  <2>21. CASE DropRow(r)
    BY <2>21 DEF DropRow, RemoveRow
  <2>22. CASE DropBlob(r)
    BY <2>22 DEF DropBlob, RemoveBlob
  <2>23. CASE EndPurge(r)
    BY <2>23 DEF EndPurge
  <2>24. QED BY <1>2, <2>1, <2>2, <2>3, <2>4, <2>5, <2>6, <2>7, <2>8, <2>9,
           <2>10, <2>11, <2>12, <2>13, <2>14, <2>15, <2>16, <2>17, <2>18,
           <2>19, <2>20, <2>21, <2>22, <2>23 DEF Handler
<1>3. ASSUME NEW r \in Req, Abort(r) PROVE DatabaseTypeOK'
  BY <1>3 DEF Abort, Stop, Active
<1>4. ASSUME NEW f \in FileId, DeleteFile(f) \/ TrashRestore(f)
      PROVE  DatabaseTypeOK'
  BY <1>4 DEF DeleteFile, TrashRestore
<1>5. CASE SweepSelect
  BY <1>5 DEF SweepSelect, DatabaseTypeOK
<1>6. CASE SweepRow
  BY <1>6 DEF SweepRow, RemoveRow
<1>7. CASE SweepBlob
  BY <1>7 DEF SweepBlob, RemoveBlob
<1>8. CASE Crash
  BY <1>8 DEF Crash, Active
<1>9. QED BY <1>1, <1>2, <1>3, <1>4, <1>5, <1>6, <1>7, <1>8 DEF Next, Sweep

\* Types of the requests: only hashes and natural positions are worked on.
LEMMA RequestStep ==
    ASSUME IInv, Next
    PROVE  RequestTypeOK'
<1> TypeOK /\ PlaceOK /\ TodoOK /\ NumsBounded BY DEF IInv
<1> USE DEF TypeOK, RequestTypeOK, Label, Op, chunkVars, sweepVars, purgeVars,
      history, Goto, Man
<1>1. ASSUME NEW r \in Req, Begin(r) PROVE RequestTypeOK'
  <2>1. ASSUME NEW op \in {"upload", "finalize"}, NEW n \in Name,
               NEW man \in Content, NEW base \in Bases(n),
               BeginWrite(r, op, n, man, base)
        PROVE  RequestTypeOK'
    BY SMTT(30), <2>1, LoopOrCases, VersionStoreAssumption, LastNoIsNat,
       DeletingIsHash
        DEF BeginWrite, UseChunks, Bases, NoBase
  <2>2. ASSUME NEW h \in Hash, BeginChunk(r, h) PROVE RequestTypeOK'
    BY <2>2, DeletingIsHash DEF BeginChunk, UseChunks, NoBase
  <2>3. ASSUME NEW v \in stored, BeginRestore(r, v) PROVE RequestTypeOK'
    BY SMTT(30), <2>3, DeletingIsHash, Types
    DEF BeginRestore, UseChunks, ShareFile,
        NoBase
  <2>4. ASSUME NEW f \in FileId, BeginPurge(r, f) PROVE RequestTypeOK'
    <3>1. /\ pc' = [pc EXCEPT ![r] = "select"] /\ UNCHANGED <<num, idx>>
          /\ arg' = [arg EXCEPT ![r].op = "purge"]
          /\ file' = [file EXCEPT ![r] = f]
      BY <2>4 DEF BeginPurge
    <3>2. arg' \in [Req -> [op : Op \cup {"none"}, name : Name \cup {CopyName},
                           man : Seq(Hash), base : Int]]
      BY ZenonT(30), <3>1
    <3>3. QED BY <3>1, <3>2
  <2>5. QED BY <1>1, <2>1, <2>2, <2>3, <2>4 DEF Begin
<1>2. ASSUME NEW r \in Req, Handler(r) PROVE RequestTypeOK'
  <2>1. CASE Check(r)
    <3>1. CASE Here(r) \notin rows
      <4>1. /\ UNCHANGED <<arg, file, num>>
            /\ pc' = [pc EXCEPT ![r] = "done"] /\ idx' = [idx EXCEPT ![r] = 1]
        BY <2>1, <3>1 DEF Check, Stop
      <4>2. QED BY <4>1
    <3>2. CASE Here(r) \in rows
      BY <2>1, <3>2, HereIsHash, NextChunkTypes DEF Check, NextChunk
    <3>3. QED BY <3>1, <3>2
  <2>2. CASE Lookup(r)
    <3>1. /\ UNCHANGED <<arg, num, idx>>
          /\ pc' \in {[pc EXCEPT ![r] = "create"], [pc EXCEPT ![r] = "base"]}
          /\ file' = file \/ \E f \in FileId : file' = [file EXCEPT ![r] = f]
      BY <2>2 DEF Lookup, Live
    <3>2. QED BY <3>1
  <2>3. CASE Create(r)
    BY <2>3 DEF Create, NewFile, RequestTypeOK, Op
  <2>4. CASE CheckBase(r)
    BY <2>4, StoreCases DEF CheckBase
  <2>5. CASE Fork(r)
    <3>1. /\ UNCHANGED <<arg, num, idx>>
          /\ pc' \in {[pc EXCEPT ![r] = Store(r)], [pc EXCEPT ![r] = "done"]}
      BY <2>5 DEF Fork
    <3>2. file' = file \/ \E f \in FileId : file' = [file EXCEPT ![r] = f]
      BY <2>5 DEF Fork, NewFile
    <3>3. pc' \in [Req -> Label] BY <3>1, StoreCases
    <3>4. QED BY ZenonT(30), <3>1, <3>2, <3>3
  <2>6. CASE WriteBlob(r)
    BY <2>6, HereIsHash, NextChunkTypes DEF WriteBlob, PutBlob, NextChunk
  <2>7. CASE SeeRow(r)
    BY <2>7 DEF SeeRow
  <2>8. CASE Bump(r)
    BY <2>8, NextChunkTypes DEF Bump, AddRef, TakeRef, NextChunk
  <2>9. CASE InsertRow(r)
    <3>1. CASE Here(r) \in rows
      <4>1. /\ UNCHANGED <<arg, file, num>>
            /\ pc' = [pc EXCEPT ![r] = "done"] /\ idx' = [idx EXCEPT ![r] = 1]
        BY <2>9, <3>1 DEF InsertRow, Stop
      <4>2. QED BY <4>1
    <3>2. CASE Here(r) \notin rows
      BY <2>9, <3>2, HereIsHash, NextChunkTypes DEF InsertRow, NextChunk,
          TakeRef
    <3>3. QED BY <3>1, <3>2
  <2>10. CASE Number(r)
    BY <2>10, LoopOrCases, LastNoIsNat DEF Number
  <2>11. CASE Rebump(r)
    BY <2>11, NextChunkTypes DEF Rebump, AddRef, TakeRef, NextChunk
  <2>12. CASE InsertVersion(r)
    BY <2>12 DEF InsertVersion
  <2>13. CASE SetCurrent(r)
    BY <2>13 DEF SetCurrent
  <2>14. CASE ChunkRow(r)
    BY <2>14 DEF ChunkRow
  <2>15. CASE ChunkBlob(r)
    BY <2>15, HereIsHash DEF ChunkBlob, PutBlob
  <2>16. CASE ChunkInsert(r)
    BY <2>16, HereIsHash DEF ChunkInsert
  <2>17. CASE SelectManifests(r)
    BY <2>17, OwedTokens DEF SelectManifests
  <2>18. CASE DeleteVersions(r)
    BY <2>18 DEF DeleteVersions
  <2>19. CASE DeleteFileRow(r)
    <3>1. CASE VersionsOf(file[r]) # {}
      <4>1. Stop(r) /\ UNCHANGED <<arg, file, num>> BY <2>19, <3>1 DEF
              DeleteFileRow
      <4>2. QED BY <4>1 DEF Stop
    <3>2. CASE VersionsOf(file[r]) = {} BY <2>19, <3>2 DEF DeleteFileRow
    <3>3. QED BY <3>1, <3>2
  <2>20. CASE Release(r)
    BY <2>20, OwedIsHash DEF Release
  <2>21. CASE DropRow(r)
    BY <2>21 DEF DropRow, RemoveRow
  <2>22. CASE DropBlob(r)
    BY <2>22 DEF DropBlob
  <2>23. CASE EndPurge(r)
    BY <2>23 DEF EndPurge
  <2>24. QED BY <1>2, <2>1, <2>2, <2>3, <2>4, <2>5, <2>6, <2>7, <2>8, <2>9,
           <2>10, <2>11, <2>12, <2>13, <2>14, <2>15, <2>16, <2>17, <2>18,
           <2>19, <2>20, <2>21, <2>22, <2>23 DEF Handler
<1>3. ASSUME NEW r \in Req, Abort(r) PROVE RequestTypeOK'
  BY <1>3 DEF Abort, Stop, Active
<1>4. ASSUME NEW f \in FileId, DeleteFile(f) \/ TrashRestore(f)
      PROVE  RequestTypeOK'
  BY <1>4 DEF DeleteFile, TrashRestore
<1>5. CASE SweepSelect
  BY <1>5 DEF SweepSelect, DatabaseTypeOK
<1>6. CASE SweepRow
  BY <1>6 DEF SweepRow, RemoveRow
<1>7. CASE SweepBlob
  BY <1>7 DEF SweepBlob
<1>8. CASE Crash
  BY <1>8 DEF Crash, Active
<1>9. QED BY <1>1, <1>2, <1>3, <1>4, <1>5, <1>6, <1>7, <1>8 DEF Next, Sweep

\* Types of what purges and the sweep are about to delete.
LEMMA DeleterStep ==
    ASSUME IInv, Next
    PROVE  DeleterTypeOK'
<1> TypeOK /\ PlaceOK /\ TodoOK /\ NumsBounded BY DEF IInv
<1> USE DEF TypeOK, DeleterTypeOK, chunkVars, sweepVars, purgeVars, history,
      Goto
<1>1. ASSUME NEW r \in Req, Begin(r) PROVE DeleterTypeOK'
  <2>1. ASSUME NEW op \in {"upload", "finalize"}, NEW n \in Name,
               NEW man \in Content, NEW base \in Bases(n),
               BeginWrite(r, op, n, man, base)
        PROVE  DeleterTypeOK'
    BY <2>1 DEF BeginWrite
  <2>2. ASSUME NEW h \in Hash, BeginChunk(r, h) PROVE DeleterTypeOK'
    BY <2>2 DEF BeginChunk
  <2>3. ASSUME NEW v \in stored, BeginRestore(r, v) PROVE DeleterTypeOK'
    BY <2>3, Types DEF BeginRestore
  <2>4. ASSUME NEW f \in FileId, BeginPurge(r, f) PROVE DeleterTypeOK'
    BY <2>4 DEF BeginPurge
  <2>5. QED BY <1>1, <2>1, <2>2, <2>3, <2>4 DEF Begin
<1>2. ASSUME NEW r \in Req, Handler(r) PROVE DeleterTypeOK'
  <2>1. CASE Check(r)
    <3>1. CASE Here(r) \notin rows BY <2>1, <3>1, HereIsHash DEF Check, Stop
    <3>2. CASE Here(r) \in rows BY <2>1, <3>2, HereIsHash DEF Check, NextChunk
    <3>3. QED BY <3>1, <3>2
  <2>2. CASE Lookup(r)
    BY <2>2 DEF Lookup, Live
  <2>3. CASE Create(r)
    BY <2>3 DEF Create, NewFile, RequestTypeOK, Op
  <2>4. CASE CheckBase(r)
    BY <2>4, StoreCases DEF CheckBase
  <2>5. CASE Fork(r)
    BY <2>5, StoreCases DEF Fork, NewFile
  <2>6. CASE WriteBlob(r)
    BY <2>6, HereIsHash DEF WriteBlob, PutBlob, NextChunk
  <2>7. CASE SeeRow(r)
    BY <2>7 DEF SeeRow
  <2>8. CASE Bump(r)
    BY <2>8 DEF Bump, AddRef, TakeRef, NextChunk
  <2>9. CASE InsertRow(r)
    <3>1. CASE Here(r) \in rows BY <2>9, <3>1, HereIsHash DEF InsertRow, Stop
    <3>2. CASE Here(r) \notin rows
      BY <2>9, <3>2, HereIsHash DEF InsertRow, NextChunk, TakeRef
    <3>3. QED BY <3>1, <3>2
  <2>10. CASE Number(r)
    BY <2>10 DEF Number
  <2>11. CASE Rebump(r)
    BY <2>11 DEF Rebump, AddRef, TakeRef, NextChunk
  <2>12. CASE InsertVersion(r)
    BY <2>12 DEF InsertVersion
  <2>13. CASE SetCurrent(r)
    BY <2>13 DEF SetCurrent
  <2>14. CASE ChunkRow(r)
    BY <2>14 DEF ChunkRow
  <2>15. CASE ChunkBlob(r)
    BY <2>15, HereIsHash DEF ChunkBlob, PutBlob
  <2>16. CASE ChunkInsert(r)
    BY <2>16, HereIsHash DEF ChunkInsert
  <2>17. CASE SelectManifests(r)
    BY <2>17, OwedTokens DEF SelectManifests
  <2>18. CASE DeleteVersions(r)
    BY <2>18 DEF DeleteVersions
  <2>19. CASE DeleteFileRow(r)
    BY <2>19 DEF DeleteFileRow, Stop
  <2>20. CASE Release(r)
    BY <2>20, OwedIsHash DEF Release
  <2>21. CASE DropRow(r)
    BY <2>21 DEF DropRow, RemoveRow
  <2>22. CASE DropBlob(r)
    BY <2>22 DEF DropBlob
  <2>23. CASE EndPurge(r)
    BY <2>23 DEF EndPurge
  <2>24. QED BY <1>2, <2>1, <2>2, <2>3, <2>4, <2>5, <2>6, <2>7, <2>8, <2>9,
           <2>10, <2>11, <2>12, <2>13, <2>14, <2>15, <2>16, <2>17, <2>18,
           <2>19, <2>20, <2>21, <2>22, <2>23 DEF Handler
<1>3. ASSUME NEW r \in Req, Abort(r) PROVE DeleterTypeOK'
  BY <1>3 DEF Abort, Stop, Active
<1>4. ASSUME NEW f \in FileId, DeleteFile(f) \/ TrashRestore(f)
      PROVE  DeleterTypeOK'
  BY <1>4 DEF DeleteFile, TrashRestore
<1>5. CASE SweepSelect
  BY <1>5 DEF SweepSelect, DatabaseTypeOK
<1>6. CASE SweepRow
  BY <1>6 DEF SweepRow, RemoveRow
<1>7. CASE SweepBlob
  BY <1>7 DEF SweepBlob
<1>8. CASE Crash
  BY <1>8 DEF Crash, Active
<1>9. QED BY <1>1, <1>2, <1>3, <1>4, <1>5, <1>6, <1>7, <1>8 DEF Next, Sweep

\* Types of the history variables.
LEMMA HistoryStep ==
    ASSUME IInv, Next
    PROVE  HistoryTypeOK'
<1> TypeOK /\ PlaceOK /\ TodoOK /\ NumsBounded BY DEF IInv
<1> USE DEF TypeOK, HistoryTypeOK, Token, RequestTypeOK, chunkVars, sweepVars,
      purgeVars, history, Goto
<1>1. ASSUME NEW r \in Req, Begin(r) PROVE HistoryTypeOK'
  <2>1. ASSUME NEW op \in {"upload", "finalize"}, NEW n \in Name,
               NEW man \in Content, NEW base \in Bases(n),
               BeginWrite(r, op, n, man, base)
        PROVE  HistoryTypeOK'
    BY <2>1, LoopOrCases, VersionStoreAssumption, LastNoIsNat, DeletingIsHash
        DEF BeginWrite, UseChunks, Bases, NoBase
  <2>2. ASSUME NEW h \in Hash, BeginChunk(r, h) PROVE HistoryTypeOK'
    BY <2>2, DeletingIsHash DEF BeginChunk, UseChunks, NoBase
  <2>3. ASSUME NEW v \in stored, BeginRestore(r, v) PROVE HistoryTypeOK'
    BY <2>3, DeletingIsHash, Types DEF BeginRestore, UseChunks, ShareFile,
        NoBase
  <2>4. ASSUME NEW f \in FileId, BeginPurge(r, f) PROVE HistoryTypeOK'
    BY <2>4 DEF BeginPurge, ShareFile
  <2>5. QED BY <1>1, <2>1, <2>2, <2>3, <2>4 DEF Begin
<1>2. ASSUME NEW r \in Req, Handler(r) PROVE HistoryTypeOK'
  <2>1. CASE Check(r)
    <3>1. CASE Here(r) \notin rows BY <2>1, <3>1, HereIsHash DEF Check, Stop
    <3>2. CASE Here(r) \in rows BY <2>1, <3>2, HereIsHash DEF Check, NextChunk
    <3>3. QED BY <3>1, <3>2
  <2>2. CASE Lookup(r)
    BY <2>2, IgnoredIsBounded DEF Lookup, ShareFile, Live
  <2>3. CASE Create(r)
    BY <2>3 DEF Create, NewFile, RequestTypeOK, Op
  <2>4. CASE CheckBase(r)
    BY <2>4, StoreCases DEF CheckBase
  <2>5. CASE Fork(r)
    BY <2>5, StoreCases DEF Fork, NewFile
  <2>6. CASE WriteBlob(r)
    BY <2>6, HereIsHash DEF WriteBlob, PutBlob, NextChunk
  <2>7. CASE SeeRow(r)
    BY <2>7, IgnoredIsBounded DEF SeeRow
  <2>8. CASE Bump(r)
    BY <2>8 DEF Bump, AddRef, TakeRef, NextChunk
  <2>9. CASE InsertRow(r)
    <3>1. CASE Here(r) \in rows BY <2>9, <3>1, HereIsHash DEF InsertRow, Stop
    <3>2. CASE Here(r) \notin rows
      <4>1. refs' = refs \cup {<<r, idx[r]>>} /\ UNCHANGED <<faults, clash,
              hollow, raced>>
        BY <2>9, <3>2 DEF InsertRow, TakeRef
      <4>2. QED BY <4>1
    <3>3. QED BY <3>1, <3>2
  <2>10. CASE Number(r)
    BY <2>10, LoopOrCases, LastNoIsNat DEF Number
  <2>11. CASE Rebump(r)
    BY <2>11 DEF Rebump, AddRef, TakeRef, NextChunk
  <2>12. CASE InsertVersion(r)
    BY <2>12 DEF InsertVersion
  <2>13. CASE SetCurrent(r)
    BY <2>13 DEF SetCurrent
  <2>14. CASE ChunkRow(r)
    BY <2>14, IgnoredIsBounded DEF ChunkRow
  <2>15. CASE ChunkBlob(r)
    BY <2>15, HereIsHash DEF ChunkBlob, PutBlob
  <2>16. CASE ChunkInsert(r)
    BY <2>16, HereIsHash DEF ChunkInsert
  <2>17. CASE SelectManifests(r)
    BY SMTT(30), <2>17, OwedTokens DEF SelectManifests
  <2>18. CASE DeleteVersions(r)
    BY <2>18 DEF DeleteVersions
  <2>19. CASE DeleteFileRow(r)
    BY <2>19 DEF DeleteFileRow, Stop
  <2>20. CASE Release(r)
    BY <2>20, ReleaseCases, IgnoredIsBounded
  <2>21. CASE DropRow(r)
    <3>1. /\ UNCHANGED <<refs, clash, raced>> /\ (faults' = faults \/ Ignored)
          /\ hollow' \subseteq hollow \cup rows
      BY <2>21 DEF DropRow, RemoveRow
    <3>2. faults' \in 0 .. MaxFaults BY <3>1, IgnoredIsBounded
    <3>3. hollow' \subseteq Hash BY <3>1 DEF DatabaseTypeOK
    <3>4. QED BY <3>1, <3>2, <3>3
  <2>22. CASE DropBlob(r)
    BY <2>22, IgnoredIsBounded DEF DropBlob, RemoveBlob
  <2>23. CASE EndPurge(r)
    BY <2>23 DEF EndPurge
  <2>24. QED BY <1>2, <2>1, <2>2, <2>3, <2>4, <2>5, <2>6, <2>7, <2>8, <2>9,
           <2>10, <2>11, <2>12, <2>13, <2>14, <2>15, <2>16, <2>17, <2>18,
           <2>19, <2>20, <2>21, <2>22, <2>23 DEF Handler
<1>3. ASSUME NEW r \in Req, Abort(r) PROVE HistoryTypeOK'
  BY <1>3, VersionStoreAssumption DEF Abort, Stop, Active
<1>4. ASSUME NEW f \in FileId, DeleteFile(f) \/ TrashRestore(f)
      PROVE  HistoryTypeOK'
  BY <1>4 DEF DeleteFile, TrashRestore
<1>5. CASE SweepSelect
  BY <1>5 DEF SweepSelect, DatabaseTypeOK
<1>6. CASE SweepRow
  <2>1. /\ UNCHANGED <<refs, clash, raced>> /\ (faults' = faults \/ Ignored)
        /\ hollow' \subseteq hollow \cup rows
    BY <1>6 DEF SweepRow, RemoveRow
  <2>2. faults' \in 0 .. MaxFaults BY <2>1, IgnoredIsBounded
  <2>3. hollow' \subseteq Hash BY <2>1 DEF DatabaseTypeOK
  <2>4. QED BY <2>1, <2>2, <2>3
<1>7. CASE SweepBlob
  BY <1>7, IgnoredIsBounded DEF SweepBlob, RemoveBlob
<1>8. CASE Crash
  BY <1>8, VersionStoreAssumption DEF Crash, Active
<1>9. QED BY <1>1, <1>2, <1>3, <1>4, <1>5, <1>6, <1>7, <1>8 DEF Next, Sweep

\* A request gains one reference per turn of its loop, in order; a purge
\* takes references only from requests that have no version stored.
LEMMA RefsStep ==
    ASSUME IInv, Next, NEW q \in Req, NEW i \in Nat
    PROVE  RefOK(q, i)'
<1> TypeOK /\ PlaceOK /\ TodoOK /\ NumsBounded BY DEF IInv
<1> USE Types
<1> \A r \in Req : PlaceAt(r) BY DEF PlaceOK
<1> RefOK(q, i) BY DEF IInv, RefsOK
<1> USE DEF RefOK, PlaceAt, TodoOK, TodoAt, Untaken, Taken, Owing, Writing,
      Looping, Walking, Taking, Sending, Settled, chunkVars, sweepVars,
      purgeVars, history, Goto, Man, Here
<1>1. ASSUME NEW r \in Req, Begin(r) PROVE RefOK(q, i)'
  <2>1. ASSUME NEW op \in {"upload", "finalize"}, NEW n \in Name,
               NEW man \in Content, NEW base \in Bases(n),
               BeginWrite(r, op, n, man, base)
        PROVE  RefOK(q, i)'
    <3>1. CASE q = r
      <4>1. pc'[r] \in {"check", "lookup"} /\ UNCHANGED <<refs, stored>>
        BY <2>1 DEF BeginWrite, LoopOr
      <4>2. pc[r] = "idle" /\ PlaceAt(r) BY <2>1 DEF BeginWrite
      <4>3. r \notin stored BY <4>2
      <4>4. <<q, i>> \notin refs BY <3>1, <4>2
      <4>5. pc'[q] \in {"check", "lookup"} BY <3>1, <4>1
      <4>6. QED BY <3>1, <4>1, <4>3, <4>4, <4>5
    <3>2. CASE q # r BY <2>1, <3>2 DEF BeginWrite
    <3>3. QED BY <3>1, <3>2
  <2>2. ASSUME NEW h \in Hash, BeginChunk(r, h) PROVE RefOK(q, i)'
    BY <2>2 DEF BeginChunk
  <2>3. ASSUME NEW v \in stored, BeginRestore(r, v) PROVE RefOK(q, i)'
    BY <2>3 DEF BeginRestore
  <2>4. ASSUME NEW f \in FileId, BeginPurge(r, f) PROVE RefOK(q, i)'
    BY <2>4 DEF BeginPurge
  <2>5. QED BY <1>1, <2>1, <2>2, <2>3, <2>4 DEF Begin
<1>2. ASSUME NEW r \in Req, Handler(r) PROVE RefOK(q, i)'
  <2>1. CASE Check(r)
    <3>1. CASE Here(r) \notin rows BY <2>1, <3>1 DEF Check, Stop
    <3>2. CASE Here(r) \in rows
      <4>1. /\ pc[r] = "check" /\ NextChunk(r, "check", "lookup")
            /\ UNCHANGED <<refs, arg, stored>>
        BY <2>1, <3>2 DEF Check
      <4>2. CASE q # r BY <4>1, <4>2, NextChunkMoves
      <4>3. CASE q = r
        <5>1. pc'[q] \in {"check", "lookup"} BY <4>1, <4>3, NextChunkMoves
        <5>2. <<q, i>> \notin refs /\ q \notin stored BY <4>1, <4>3
        <5>3. QED BY <4>1, <5>1, <5>2
      <4>4. QED BY <4>2, <4>3
    <3>3. QED BY <3>1, <3>2
  <2>2. CASE Lookup(r)
    BY <2>2 DEF Lookup, Live
  <2>3. CASE Create(r)
    BY <2>3 DEF Create, NewFile
  <2>4. CASE CheckBase(r)
    <3>1. pc[r] = "base" /\ pc' \in {[pc EXCEPT ![r] = Store(r)],
                                  [pc EXCEPT ![r] = "fork"]}
          /\ UNCHANGED <<arg, stored, idx, refs>>
      BY <2>4 DEF CheckBase
    <3>2. CASE q # r BY <3>1, <3>2
    <3>3. CASE q = r
      <4>1. r \notin stored /\ arg[r].op # "restore" /\ <<q, i>> \notin refs
        BY <3>1, <3>3
      <4>2. pc'[r] = "fork" \/ pc'[r] = Store(r) BY <3>1
      <4>3. CASE pc'[r] \in {"fork", "write"} BY <3>1, <3>3, <4>1, <4>3
      <4>4. CASE pc'[r] = "see"
        <5>1. idx'[q] = 1 /\ ~(i \in 1 .. 0) BY <3>1, <3>3
        <5>2. QED BY <3>1, <3>3, <4>1, <4>4, <5>1
      <4>5. CASE pc'[r] = "number" /\ Len(Man(r)) = 0
        BY <3>1, <3>3, <4>1, <4>5
      <4>6. QED BY <4>2, <4>3, <4>4, <4>5, StoreCases
    <3>4. QED BY <3>2, <3>3
  <2>5. CASE Fork(r)
    BY <2>5, StoreCases DEF Fork, NewFile
  <2>6. CASE WriteBlob(r)
    <3>1. CASE q = r BY <2>6, <3>1, NextChunkMoves DEF WriteBlob
    <3>2. CASE q # r BY <2>6, <3>2, NextChunkMoves DEF WriteBlob
    <3>3. QED BY <3>1, <3>2
  <2>7. CASE SeeRow(r)
    BY <2>7 DEF SeeRow
  <2>8. CASE Bump(r)
    <3>1. /\ pc[r] = "bump" /\ NextChunk(r, "see", "number")
          /\ refs' = refs \cup {<<r, idx[r]>>} /\ UNCHANGED <<arg, stored>>
      BY <2>8 DEF Bump, AddRef, TakeRef
    <3>2. CASE q # r BY <3>1, <3>2, NextChunkMoves
    <3>3. CASE q = r
      <4>1. arg[r].op # "restore" /\ r \notin stored BY <3>1
      <4>2. \A k \in Nat : <<r, k>> \in refs' <=> <<r, k>> \in refs \/ k = idx[r]
        BY <3>1
      <4>3. CASE idx[r] < Len(Man(r))
        BY <3>1, <3>3, <4>1, <4>2, <4>3, NextChunkMoves
      <4>4. CASE idx[r] >= Len(Man(r))
        BY <3>1, <3>3, <4>1, <4>2, <4>4, NextChunkMoves
      <4>5. QED BY <4>3, <4>4
    <3>4. QED BY <3>2, <3>3
  <2>9. CASE InsertRow(r)
    <3>1. CASE Here(r) \in rows BY <2>9, <3>1 DEF InsertRow, Stop
    <3>2. CASE Here(r) \notin rows /\ q = r
      <4>1. /\ refs' = refs \cup {<<r, idx[r]>>} /\ pc[r] = "insert"
            /\ NextChunk(r, "see", "number") /\ UNCHANGED <<arg, stored>>
        BY <2>9, <3>2 DEF InsertRow, TakeRef
      <4>2. CASE idx[r] < Len(Man(r)) BY <3>2, <4>1, <4>2 DEF NextChunk
      <4>3. CASE ~(idx[r] < Len(Man(r)))
        <5>1. pc' = [pc EXCEPT ![r] = "number"] BY <4>1, <4>3 DEF NextChunk
        <5>2. idx[r] = Len(Man(r)) BY <4>1, <4>3
        <5>3. <<q, i>> \in refs' <=> i \in 1 .. Len(Man(q)) BY <3>2, <4>1,
                <5>2
        <5>4. arg[q].op # "restore" BY <3>2, <4>1
        <5>5. QED BY <3>2, <4>1, <5>1, <5>3, <5>4
      <4>4. QED BY <4>2, <4>3
    <3>3. CASE Here(r) \notin rows /\ q # r
      BY <2>9, <3>3, NextChunkMoves DEF InsertRow, TakeRef
    <3>4. QED BY <3>1, <3>2, <3>3
  <2>10. CASE Number(r)
    BY <2>10, LoopOrCases, LastNoIsNat DEF Number
  <2>11. CASE Rebump(r)
    BY <2>11, NextChunkMoves DEF Rebump, AddRef, TakeRef
  <2>12. CASE InsertVersion(r)
    BY <2>12 DEF InsertVersion
  <2>13. CASE SetCurrent(r)
    BY <2>13 DEF SetCurrent
  <2>14. CASE ChunkRow(r)
    BY <2>14 DEF ChunkRow
  <2>15. CASE ChunkBlob(r)
    BY <2>15 DEF ChunkBlob
  <2>16. CASE ChunkInsert(r)
    BY <2>16 DEF ChunkInsert
  <2>17. CASE SelectManifests(r)
    BY <2>17 DEF SelectManifests
  <2>18. CASE DeleteVersions(r)
    BY <2>18 DEF DeleteVersions
  <2>19. CASE DeleteFileRow(r)
    BY <2>19 DEF DeleteFileRow, Stop
  <2>20. CASE Release(r)
    <3>1. PICK t \in todo[r] : /\ refs' \in {refs, refs \ {t}}
                             /\ pc' \in {pc, [pc EXCEPT ![r] = "unrow"]}
      BY <2>20, ReleaseCases
    <3>2. pc[r] = "release" /\ UNCHANGED <<idx, arg, stored>> BY <2>20 DEF
            Release
    <3>3. CASE t = <<q, i>>
      <4>1. TodoAt(r, q, i) BY DEF TodoOK
      <4>2. pc[q] \in Settled /\ q \notin stored BY <3>1, <3>2, <3>3, <4>1
      <4>3. QED BY <3>1, <3>2, <3>3, <4>2
    <3>4. CASE t # <<q, i>>
      <4>1. <<q, i>> \in refs' <=> <<q, i>> \in refs BY <3>1, <3>4
      <4>2. QED BY <3>1, <3>2, <4>1
    <3>5. QED BY <3>3, <3>4
  <2>21. CASE DropRow(r)
    BY <2>21 DEF DropRow
  <2>22. CASE DropBlob(r)
    BY <2>22 DEF DropBlob
  <2>23. CASE EndPurge(r)
    BY <2>23 DEF EndPurge
  <2>24. QED BY <1>2, <2>1, <2>2, <2>3, <2>4, <2>5, <2>6, <2>7, <2>8, <2>9,
           <2>10, <2>11, <2>12, <2>13, <2>14, <2>15, <2>16, <2>17, <2>18,
           <2>19, <2>20, <2>21, <2>22, <2>23 DEF Handler
<1>3. ASSUME NEW r \in Req, Abort(r) PROVE RefOK(q, i)'
  BY <1>3 DEF Abort, Stop, Active
<1>4. ASSUME NEW f \in FileId, DeleteFile(f) \/ TrashRestore(f)
      PROVE  RefOK(q, i)'
  BY <1>4 DEF DeleteFile, TrashRestore
<1>5. CASE SweepSelect
  BY <1>5 DEF SweepSelect
<1>6. CASE SweepRow
  BY <1>6 DEF SweepRow
<1>7. CASE SweepBlob
  BY <1>7 DEF SweepBlob
<1>8. CASE Crash
  BY <1>8 DEF Crash, Active
<1>9. QED BY <1>1, <1>2, <1>3, <1>4, <1>5, <1>6, <1>7, <1>8 DEF Next, Sweep

\* A purge owes what it selected, and deletes the versions before it pays.
LEMMA TodoStep ==
    ASSUME IInv, Next, NEW q \in Req, NEW i \in Nat, NEW w \in Req
    PROVE  TodoAt(q, w, i)'
<1> TypeOK /\ PlaceOK /\ TodoOK /\ NumsBounded BY DEF IInv
<1> USE Types
<1> \A r \in Req : PlaceAt(r) BY DEF PlaceOK
<1> TodoAt(q, w, i) BY DEF TodoOK
<1> USE DEF TodoAt, PlaceAt, Settled, Owing, VersionsOf, RefsOf, chunkVars,
      sweepVars, purgeVars, history, Goto, Man, Here
<1>1. ASSUME NEW r \in Req, Begin(r) PROVE TodoAt(q, w, i)'
  <2>1. ASSUME NEW op \in {"upload", "finalize"}, NEW n \in Name,
               NEW man \in Content, NEW base \in Bases(n),
               BeginWrite(r, op, n, man, base)
        PROVE  TodoAt(q, w, i)'
    BY <2>1, LoopOrCases, VersionStoreAssumption DEF BeginWrite
  <2>2. ASSUME NEW h \in Hash, BeginChunk(r, h) PROVE TodoAt(q, w, i)'
    BY <2>2 DEF BeginChunk
  <2>3. ASSUME NEW v \in stored, BeginRestore(r, v) PROVE TodoAt(q, w, i)'
    BY <2>3 DEF BeginRestore
  <2>4. ASSUME NEW f \in FileId, BeginPurge(r, f) PROVE TodoAt(q, w, i)'
    BY <2>4 DEF BeginPurge
  <2>5. QED BY <1>1, <2>1, <2>2, <2>3, <2>4 DEF Begin
<1>2. ASSUME NEW r \in Req, Handler(r) PROVE TodoAt(q, w, i)'
  <2>1. CASE Check(r)
    <3>1. CASE Here(r) \notin rows BY <2>1, <3>1 DEF Check, Stop
    <3>2. CASE Here(r) \in rows BY <2>1, <3>2 DEF Check, NextChunk
    <3>3. QED BY <3>1, <3>2
  <2>2. CASE Lookup(r)
    BY <2>2 DEF Lookup, Live
  <2>3. CASE Create(r)
    BY <2>3 DEF Create, NewFile
  <2>4. CASE CheckBase(r)
    BY <2>4, StoreCases DEF CheckBase
  <2>5. CASE Fork(r)
    BY <2>5, StoreCases DEF Fork, NewFile
  <2>6. CASE WriteBlob(r)
    BY <2>6 DEF WriteBlob, PutBlob, NextChunk
  <2>7. CASE SeeRow(r)
    BY <2>7 DEF SeeRow
  <2>8. CASE Bump(r)
    BY <2>8 DEF Bump, AddRef, NextChunk
  <2>9. CASE InsertRow(r)
    <3>1. CASE Here(r) \in rows BY <2>9, <3>1 DEF InsertRow, Stop
    <3>2. CASE Here(r) \notin rows BY <2>9, <3>2 DEF InsertRow, NextChunk
    <3>3. QED BY <3>1, <3>2
  <2>10. CASE Number(r)
    BY <2>10, LoopOrCases, LastNoIsNat DEF Number
  <2>11. CASE Rebump(r)
    BY <2>11 DEF Rebump, AddRef, NextChunk
  <2>12. CASE InsertVersion(r)
    BY <2>12 DEF InsertVersion
  <2>13. CASE SetCurrent(r)
    BY <2>13 DEF SetCurrent
  <2>14. CASE ChunkRow(r)
    BY <2>14 DEF ChunkRow
  <2>15. CASE ChunkBlob(r)
    BY <2>15 DEF ChunkBlob
  <2>16. CASE ChunkInsert(r)
    BY <2>16 DEF ChunkInsert
  <2>17. CASE SelectManifests(r)
    BY <2>17 DEF SelectManifests
  <2>18. CASE DeleteVersions(r)
    BY <2>18 DEF DeleteVersions
  <2>19. CASE DeleteFileRow(r)
    BY <2>19 DEF DeleteFileRow, Stop
  <2>20. CASE Release(r)
    BY <2>20 DEF Release
  <2>21. CASE DropRow(r)
    BY <2>21 DEF DropRow
  <2>22. CASE DropBlob(r)
    BY <2>22 DEF DropBlob
  <2>23. CASE EndPurge(r)
    BY <2>23 DEF EndPurge
  <2>24. QED BY <1>2, <2>1, <2>2, <2>3, <2>4, <2>5, <2>6, <2>7, <2>8, <2>9,
           <2>10, <2>11, <2>12, <2>13, <2>14, <2>15, <2>16, <2>17, <2>18,
           <2>19, <2>20, <2>21, <2>22, <2>23 DEF Handler
<1>3. ASSUME NEW r \in Req, Abort(r) PROVE TodoAt(q, w, i)'
  BY <1>3 DEF Abort, Stop, Active
<1>4. ASSUME NEW f \in FileId, DeleteFile(f) \/ TrashRestore(f)
      PROVE  TodoAt(q, w, i)'
  BY <1>4 DEF DeleteFile, TrashRestore
<1>5. CASE SweepSelect
  BY <1>5 DEF SweepSelect
<1>6. CASE SweepRow
  BY <1>6 DEF SweepRow
<1>7. CASE SweepBlob
  BY <1>7 DEF SweepBlob
<1>8. CASE Crash
  BY <1>8 DEF Crash, Active
<1>9. QED BY <1>1, <1>2, <1>3, <1>4, <1>5, <1>6, <1>7, <1>8 DEF Next, Sweep

\* A reference is added: the hash it names is held once more.
LEMMA HeldGrows ==
    ASSUME CountsOK, NEW t, t \notin refs, refs' = refs \cup {t}, arg' = arg,
           NEW h
    PROVE  /\ Held(h)' = IF ChunkAt(t) = h THEN Held(h) \cup {t} ELSE Held(h)
           /\ IsFiniteSet(refs') /\ Cardinality(Held(h)) \in Nat
           /\ Cardinality(Held(h)') =
                Cardinality(Held(h)) + (IF ChunkAt(t) = h THEN 1 ELSE 0)
<1>1. Held(h)' = IF ChunkAt(t) = h THEN Held(h) \cup {t} ELSE Held(h)
  BY DEF Held, ChunkAt, Man
<1>2. IsFiniteSet(refs) /\ Held(h) \in SUBSET refs /\ t \notin Held(h)
  BY DEF CountsOK, Held
<1>3. IsFiniteSet(Held(h)) /\ Cardinality(Held(h)) \in Nat
  BY <1>2, FS_Subset, FS_CardinalityType
<1>4. IsFiniteSet(refs') BY <1>2, FS_AddElement
<1>5. Cardinality(Held(h) \cup {t}) = Cardinality(Held(h)) + 1
  BY <1>2, <1>3, FS_AddElement
<1>6. QED BY <1>1, <1>3, <1>4, <1>5

\* A reference is released: the hash it names is held at most once less.
LEMMA HeldShrinks ==
    ASSUME CountsOK, NEW t, refs' = refs \ {t}, arg' = arg, NEW h
    PROVE  /\ IsFiniteSet(refs') /\ Cardinality(Held(h)) \in Nat
           /\ Cardinality(Held(h)') \in Nat
           /\ ChunkAt(t) # h => Held(h)' = Held(h)
           /\ Cardinality(Held(h)') >= Cardinality(Held(h)) - 1
<1>1. Held(h)' = Held(h) \ {t} /\ (ChunkAt(t) # h => t \notin Held(h))
  BY DEF Held, ChunkAt, Man
<1>2. IsFiniteSet(refs) /\ Held(h) \in SUBSET refs
  BY DEF CountsOK, Held
<1>3. IsFiniteSet(Held(h)) /\ Cardinality(Held(h)) \in Nat
  BY <1>2, FS_Subset, FS_CardinalityType
<1>4. IsFiniteSet(refs') BY <1>2, FS_RemoveElement
<1>5. /\ IsFiniteSet(Held(h) \ {t})
      /\ Cardinality(Held(h) \ {t}) = IF t \in Held(h)
             THEN Cardinality(Held(h)) - 1 ELSE Cardinality(Held(h))
  BY <1>3, FS_RemoveElement
<1>6. Cardinality(Held(h) \ {t}) \in Nat BY <1>5, FS_CardinalityType
<1>7. ChunkAt(t) # h => Held(h)' = Held(h) BY <1>1
<1>8. QED BY <1>1, <1>3, <1>4, <1>5, <1>6, <1>7

\* A request that starts holds no reference yet, so its manifest is nobody's.
LEMMA CountsNewRequest ==
    ASSUME TypeOK, RefsOK, CountsOK, NEW r \in Req, pc[r] = "idle",
           UNCHANGED <<rows, refcount, refs>>,
           \A q \in Req \ {r} : arg'[q] = arg[q]
    PROVE  CountsOK'
<1>1. ASSUME NEW t \in refs PROVE ChunkAt(t)' = ChunkAt(t)
  <2>1. PICK q \in Req, i \in Nat : t = <<q, i>>
    BY Types DEF Token
  <2>2. q # r BY <2>1 DEF RefsOK, RefOK
  <2>3. QED BY <2>1, <2>2 DEF ChunkAt, Man
<1>2. \A h : Held(h)' = Held(h)
  BY <1>1 DEF Held
<1>3. QED BY <1>2 DEF CountsOK, NeverOverCounted

LEMMA CountsStart ==
    ASSUME IInv, NEW r \in Req, Begin(r)
    PROVE  CountsOK'
<1> TypeOK /\ RefsOK /\ CountsOK BY DEF IInv
<1> DOMAIN arg = Req BY Types
<1>1. ASSUME NEW op \in {"upload", "finalize"}, NEW n \in Name,
             NEW man \in Content, NEW base \in Bases(n),
             BeginWrite(r, op, n, man, base)
      PROVE  CountsOK'
  BY <1>1, CountsNewRequest DEF BeginWrite, chunkVars
<1>2. ASSUME NEW h \in Hash, BeginChunk(r, h) PROVE CountsOK'
  BY <1>2, CountsNewRequest DEF BeginChunk, chunkVars
<1>3. ASSUME NEW v \in stored, BeginRestore(r, v) PROVE CountsOK'
  BY <1>3, CountsNewRequest DEF BeginRestore, chunkVars
<1>4. ASSUME NEW f \in FileId, BeginPurge(r, f) PROVE CountsOK'
  BY <1>4, CountsNewRequest DEF BeginPurge, chunkVars
<1>5. QED BY <1>1, <1>2, <1>3, <1>4 DEF Begin

\* The reference a loop takes at the chunk it stands on is a new one.
LEMMA CountsTake ==
    ASSUME IInv, NEW r \in Req, Bump(r) \/ Rebump(r) \/ InsertRow(r)
    PROVE  CountsOK'
<1> DEFINE t == <<r, idx[r]>>
<1> TypeOK /\ PlaceOK /\ RefsOK /\ CountsOK BY DEF IInv
<1>1. pc[r] \in Taking /\ arg' = arg
  BY DEF Bump, Rebump, InsertRow, AddRef, Taking
<1>2. idx[r] \in Nat BY Types
<1>3. t \notin refs
  BY <1>1, <1>2 DEF RefsOK, RefOK
<1>4. Here(r) \in Hash /\ ChunkAt(t) = Here(r)
  BY <1>1, HereIsHash DEF ChunkAt, Here, Looping, Walking
<1>5. refcount \in [Hash -> Int] BY DEF TypeOK, DatabaseTypeOK
<1>6. CASE Bump(r) \/ Rebump(r)
  <2>1. /\ refs' = refs \cup {t} /\ rows' = rows
        /\ refcount' = IF Here(r) \in rows
                       THEN [refcount EXCEPT ![Here(r)] = @ + 1] ELSE refcount
    BY <1>6 DEF Bump, Rebump, AddRef, TakeRef
  <2>2. \A h \in rows' : refcount'[h] <= Cardinality(Held(h)')
    <3> SUFFICES ASSUME NEW h \in rows
                 PROVE  refcount'[h] <= Cardinality(Held(h)')
      BY <2>1
    <3>1. h \in Hash /\ refcount[h] <= Cardinality(Held(h))
      BY DEF CountsOK, NeverOverCounted, TypeOK, DatabaseTypeOK
    <3>2. Cardinality(Held(h)') =
            Cardinality(Held(h)) + (IF Here(r) = h THEN 1 ELSE 0)
      BY <1>1, <1>3, <1>4, <2>1, HeldGrows
    <3>3. Cardinality(Held(h)) \in Nat
      BY <1>1, <1>3, <2>1, HeldGrows
    <3>4. refcount'[h] = refcount[h] + (IF Here(r) = h THEN 1 ELSE 0)
      BY <1>4, <1>5, <2>1, <3>1
    <3>5. QED BY <1>5, <3>1, <3>2, <3>3, <3>4
  <2>3. \A h \in Hash \ rows' : refcount'[h] = 0
    BY <1>4, <1>5, <2>1 DEF CountsOK
  <2>4. IsFiniteSet(refs') BY <1>1, <1>3, <2>1, HeldGrows
  <2>5. QED BY <2>2, <2>3, <2>4 DEF CountsOK, NeverOverCounted
<1>7. CASE InsertRow(r) /\ Here(r) \in rows
  BY <1>7, CountsFrame DEF InsertRow
<1>8. CASE InsertRow(r) /\ Here(r) \notin rows
  <2>1. /\ refs' = refs \cup {t} /\ rows' = rows \cup {Here(r)}
        /\ refcount' = [refcount EXCEPT ![Here(r)] = 1]
    BY <1>8 DEF InsertRow, TakeRef
  <2>2. \A h \in rows' : refcount'[h] <= Cardinality(Held(h)')
    <3> SUFFICES ASSUME NEW h \in rows'
                 PROVE  refcount'[h] <= Cardinality(Held(h)')
      OBVIOUS
    <3>1. /\ Cardinality(Held(h)) \in Nat
          /\ Cardinality(Held(h)') =
               Cardinality(Held(h)) + (IF Here(r) = h THEN 1 ELSE 0)
      BY <1>1, <1>3, <1>4, <2>1, HeldGrows
    <3>2. CASE h = Here(r) BY <1>4, <1>5, <2>1, <3>1, <3>2
    <3>3. CASE h # Here(r)
      <4>1. h \in rows /\ h \in Hash
        BY <2>1, <3>3 DEF TypeOK, DatabaseTypeOK
      <4>2. refcount'[h] = refcount[h] /\ refcount[h] <= Cardinality(Held(h))
        BY <1>4, <1>5, <2>1, <3>3, <4>1 DEF CountsOK, NeverOverCounted
      <4>3. QED BY <3>1, <3>3, <4>2
    <3>4. QED BY <3>2, <3>3
  <2>3. \A h \in Hash \ rows' : refcount'[h] = 0
    BY <1>4, <1>5, <2>1 DEF CountsOK
  <2>4. IsFiniteSet(refs') BY <1>1, <1>3, <2>1, HeldGrows
  <2>5. QED BY <2>2, <2>3, <2>4 DEF CountsOK, NeverOverCounted
<1>9. QED BY <1>6, <1>7, <1>8

\* A release lowers the count whenever it drops the reference, if not twice.
LEMMA CountsRelease ==
    ASSUME IInv, NEW r \in Req, Release(r)
    PROVE  CountsOK'
<1> TypeOK /\ TodoOK /\ CountsOK BY DEF IInv
<1>2. rows' = rows /\ arg' = arg BY ReleaseCases
<1>0. SUFFICES ASSUME ~UNCHANGED <<refs, refcount>> PROVE CountsOK'
  BY <1>2, CountsFrame
<1>1. PICK t \in todo[r] :
        /\ refs' = refs \ {t}
        /\ refcount' = IF ChunkAt(t) \in rows
                       THEN [refcount EXCEPT ![ChunkAt(t)] = @ - 1]
                       ELSE refcount
  BY <1>0, ReleaseCases
<1>3. ChunkAt(t) \in Hash BY OwedIsHash
<1>4. refcount \in [Hash -> Int] /\ rows \subseteq Hash
  BY DEF TypeOK, DatabaseTypeOK
<1>5. \A h \in rows' : refcount'[h] <= Cardinality(Held(h)')
  <2> SUFFICES ASSUME NEW h \in rows
               PROVE  refcount'[h] <= Cardinality(Held(h)')
    BY <1>2
  <2>1. refcount[h] <= Cardinality(Held(h))
    BY DEF CountsOK, NeverOverCounted
  <2>2. /\ Cardinality(Held(h)) \in Nat /\ Cardinality(Held(h)') \in Nat
        /\ ChunkAt(t) # h => Held(h)' = Held(h)
        /\ Cardinality(Held(h)') >= Cardinality(Held(h)) - 1
    BY <1>1, <1>2, HeldShrinks
  <2>3. CASE ChunkAt(t) = h
    <3>1. refcount'[h] = refcount[h] - 1 BY <1>1, <1>3, <1>4, <2>3
    <3>2. refcount[h] \in Int BY <1>4
    <3>3. QED BY <2>1, <2>2, <3>1, <3>2
  <2>4. CASE ChunkAt(t) # h
    <3>1. refcount'[h] = refcount[h] BY <1>1, <1>3, <1>4, <2>4
    <3>2. QED BY <2>1, <2>2, <2>4, <3>1
  <2>5. QED BY <2>3, <2>4
<1>6. \A h \in Hash \ rows' : refcount'[h] = 0
  BY <1>1, <1>2, <1>3, <1>4 DEF CountsOK
<1>7. IsFiniteSet(refs') BY <1>1, <1>2, HeldShrinks
<1>8. QED BY <1>5, <1>6, <1>7 DEF CountsOK, NeverOverCounted

\* A deleted row takes its count with it.
LEMMA CountsRemove ==
    ASSUME CountsOK, NEW hs, RemoveRow(hs), UNCHANGED <<refs, arg>>, TypeOK
    PROVE  CountsOK'
<1>1. \A h : Held(h)' = Held(h) BY DEF Held, ChunkAt, Man
<1>2. \A h \in rows' : h \in rows /\ h \in Hash /\ refcount'[h] = refcount[h]
  BY DEF RemoveRow, TypeOK, DatabaseTypeOK
<1>3. \A h \in Hash \ rows' : refcount'[h] = 0
  BY DEF RemoveRow, CountsOK
<1>4. QED BY <1>1, <1>2, <1>3 DEF CountsOK, NeverOverCounted

LEMMA CountsChunkInsert ==
    ASSUME IInv, NEW r \in Req, ChunkInsert(r)
    PROVE  CountsOK'
<1> TypeOK /\ CountsOK /\ PlaceOK BY DEF IInv
<1>1. rows' = rows \cup {Here(r)} /\ UNCHANGED <<refcount, refs, arg>>
  BY DEF ChunkInsert, history
<1>2. \A h : Held(h)' = Held(h) BY <1>1 DEF Held, ChunkAt, Man
<1>3. Here(r) \in Hash BY HereIsHash DEF ChunkInsert, Looping, Sending
<1>4. \A h \in Hash : Cardinality(Held(h)) \in Nat
  <2> TAKE h \in Hash
  <2>1. Held(h) \in SUBSET refs BY DEF Held
  <2>2. QED BY <2>1, FS_Subset, FS_CardinalityType DEF CountsOK
<1>5. \A h \in rows' : refcount'[h] <= Cardinality(Held(h))
  BY <1>1, <1>3, <1>4 DEF CountsOK, NeverOverCounted
<1>6. QED BY <1>1, <1>2, <1>5 DEF CountsOK, NeverOverCounted

LEMMA CountsStep ==
    ASSUME IInv, Next
    PROVE  CountsOK'
<1> TypeOK /\ CountsOK BY DEF IInv
<1> USE DEF chunkVars, sweepVars, purgeVars, history
<1>1. ASSUME NEW r \in Req, Begin(r) PROVE CountsOK'
  BY <1>1, CountsStart
<1>2. ASSUME NEW r \in Req, Handler(r) PROVE CountsOK'
  <2>1. CASE Bump(r) \/ Rebump(r) \/ InsertRow(r)
    BY <2>1, CountsTake
  <2>2. CASE Release(r)
    BY <2>2, CountsRelease
  <2>3. CASE DropRow(r)
    BY <2>3, CountsRemove DEF DropRow
  <2>4. CASE ChunkInsert(r)
    BY <2>4, CountsChunkInsert
  <2>5. CASE Check(r) \/ Lookup(r) \/ Create(r) \/ CheckBase(r) \/ Fork(r)
    BY <2>5, CountsFrame DEF Check, Lookup, Create, CheckBase, Fork
  <2>6. CASE WriteBlob(r) \/ SeeRow(r) \/ Number(r) \/ InsertVersion(r)
             \/ SetCurrent(r) \/ ChunkRow(r) \/ ChunkBlob(r)
    BY <2>6, CountsFrame DEF WriteBlob, SeeRow, Number, InsertVersion,
                             SetCurrent, ChunkRow, ChunkBlob
  <2>7. CASE SelectManifests(r) \/ DeleteVersions(r) \/ DeleteFileRow(r)
             \/ DropBlob(r) \/ EndPurge(r)
    BY <2>7, CountsFrame DEF SelectManifests, DeleteVersions, DeleteFileRow,
                             DropBlob, EndPurge
  <2>8. QED BY <1>2, <2>1, <2>2, <2>3, <2>4, <2>5, <2>6, <2>7 DEF Handler
<1>3. ASSUME NEW r \in Req, Abort(r) PROVE CountsOK'
  BY <1>3, CountsFrame DEF Abort
<1>4. ASSUME NEW f \in FileId, DeleteFile(f) \/ TrashRestore(f) PROVE CountsOK'
  BY <1>4, CountsFrame DEF DeleteFile, TrashRestore
<1>5. CASE SweepSelect \/ SweepBlob \/ Crash
  BY <1>5, CountsFrame DEF SweepSelect, SweepBlob, Crash
<1>6. CASE SweepRow
  BY <1>6, CountsRemove DEF SweepRow
<1>7. QED BY <1>1, <1>2, <1>3, <1>4, <1>5, <1>6 DEF Next, Sweep

-----------------------------------------------------------------------------
(***************************************************************************)
(* The invariant, and the theorems.                                        *)
(***************************************************************************)
LEMMA Start == Init => IInv
<1> SUFFICES ASSUME Init PROVE IInv OBVIOUS
<1> USE VersionStoreAssumption DEF Init
<1>1. TypeOK
  BY DEF TypeOK, DatabaseTypeOK, RequestTypeOK, DeleterTypeOK, HistoryTypeOK,
         Status, Label, Op, NoFile, NoBase
<1>2. NumsBounded BY SMTT(30) DEF NumsBounded
<1>3. PlaceOK
  BY DEF PlaceOK, PlaceAt, Looping, Walking, Taking, Sending, Writing
<1>4. RefsOK BY DEF RefsOK, RefOK, Taken, Untaken, Taking
<1>5. TodoOK BY DEF TodoOK, TodoAt
<1>6. CountsOK BY FS_EmptySet DEF CountsOK, NeverOverCounted
<1>7. QED BY <1>1, <1>2, <1>3, <1>4, <1>5, <1>6 DEF IInv

LEMMA Stutter == IInv /\ UNCHANGED vars => IInv'
<1> SUFFICES ASSUME IInv, UNCHANGED vars PROVE IInv' OBVIOUS
<1> USE DEF vars, chunkVars, sweepVars, purgeVars, history
<1>1. TypeOK'
  BY DEF IInv, TypeOK, DatabaseTypeOK, RequestTypeOK, DeleterTypeOK,
         HistoryTypeOK
<1>2. NumsBounded' BY DEF IInv, NumsBounded
<1>3. PlaceOK' BY DEF IInv, PlaceOK, PlaceAt, Man
<1>4. RefsOK' BY DEF IInv, RefsOK, RefOK, Taken, Untaken, Man
<1>5. TodoOK' BY DEF IInv, TodoOK, TodoAt, Man
<1>6. CountsOK' BY CountsFrame DEF IInv
<1>7. QED BY <1>1, <1>2, <1>3, <1>4, <1>5, <1>6 DEF IInv

LEMMA Preserved == IInv /\ [Next]_vars => IInv'
<1>1. ASSUME IInv, Next PROVE IInv'
  <2>1. TypeOK'
    BY <1>1, DatabaseStep, RequestStep, DeleterStep, HistoryStep DEF TypeOK
  <2>2. NumsBounded' BY <1>1, NumsStep
  <2>3. PlaceOK' BY <1>1, PlaceStep DEF PlaceOK
  <2>4. RefsOK' BY <1>1, RefsStep DEF RefsOK
  <2>5. TodoOK' BY <1>1, TodoStep DEF TodoOK
  <2>6. CountsOK' BY <1>1, CountsStep
  <2>7. QED BY <2>1, <2>2, <2>3, <2>4, <2>5, <2>6 DEF IInv
<1>2. QED BY <1>1, Stutter

LEMMA Invariance == Spec => []IInv
<1>1. QED BY Start, Preserved, PTL DEF Spec

\* The variables keep their types: no loop leaves its manifest, every hash a
\* deleter is about to delete is one, every number assigned is a natural.
THEOREM TypesAreKept == Spec => []TypeOK
<1>1. IInv => TypeOK BY DEF IInv
<1>2. QED BY <1>1, Invariance, PTL

\* However handlers, sweeps, failures and crashes overlap, a count never
\* exceeds the references taken and not released (files.rs 150-174, gc.rs
\* 19-35, chunk_upload.rs 93-121): no chunk is kept for a phantom reference.
THEOREM CountsNeverExceedReferences == Spec => []NeverOverCounted
<1>1. IInv => NeverOverCounted BY DEF IInv, CountsOK
<1>2. QED BY <1>1, Invariance, PTL

\* A stored version holds every reference of its manifest, whatever purges
\* of its file overlap (files.rs 226-289, trash.rs 213-241).
THEOREM StoredVersionsKeepTheirReferences ==
    Spec => []StoredVersionsHoldTheirReferences
<1>1. IInv => StoredVersionsHoldTheirReferences
  <2> SUFFICES ASSUME IInv PROVE RefsOf(stored) \subseteq refs
    BY DEF StoredVersionsHoldTheirReferences
  <2>1. SUFFICES ASSUME NEW v \in stored, NEW i \in 1 .. Len(Man(v))
                 PROVE  <<v, i>> \in refs
    BY DEF RefsOf
  <2>2. v \in Req /\ i \in Nat BY Types DEF IInv
  <2>3. QED BY <2>2 DEF IInv, RefsOK, RefOK, Taken
<1>2. QED BY <1>1, Invariance, PTL

-----------------------------------------------------------------------------
(***************************************************************************)
(* A chunk outside clash: nobody deletes it while somebody uses it, so its *)
(* count is exact and its blob is there as long as its row is.             *)
(***************************************************************************)
\* Somebody is about to delete the row or the blob.
Doomed(h) == h \in sweepTodo \cup sweepDrop \/ \E r \in Req : h \in drop[r]

ApartAt(h) == h \in Deleting => \A r \in Req : Active(r) => h \notin Chunks(r)

\* What a purge owes is still held, and owed by no other purge.
OwedAt(h) ==
    \A r \in Req : \A t \in todo[r] :
        ChunkAt(t) = h => t \in refs /\ \A q \in Req \ {r} : t \notin todo[q]

CountedAt(h) ==
    /\ Held(h) # {} => h \in rows /\ ~Doomed(h)
    /\ h \in rows => /\ h \in blobs \cup hollow
                     /\ refcount[h] = Cardinality(Held(h))
    /\ h \in sweepDrop \/ (\E r \in Req : h \in drop[r] /\ pc[r] = "unblob")
         => h \notin rows \/ h \in hollow

\* What a request has made sure of by the step it stands on.
Rowed(r) ==
    \/ pc[r] \in {"lookup", "create", "base", "fork", "see", "bump", "insert"}
       /\ arg[r].op = "finalize"
    \/ pc[r] = "rebump" \/ (pc[r] = "number" /\ arg[r].op = "restore")
Blobbed(r) ==
    \/ pc[r] \in {"see", "bump", "insert"} /\ arg[r].op = "upload"
    \/ pc[r] = "chunkinsert"
SeenAt(r, h) == h \in Chunks(r) =>
    /\ Rowed(r) \/ (pc[r] = "bump" /\ Here(r) = h) => h \in rows
    /\ Blobbed(r) => h \in blobs
    /\ \A i \in 1 .. idx[r] - 1 : Man(r)[i] = h =>
         (pc[r] = "check" => h \in rows) /\ (pc[r] = "write" => h \in blobs)

SoundAt(h) == h \notin clash =>
    ApartAt(h) /\ OwedAt(h) /\ CountedAt(h) /\ \A r \in Req : SeenAt(r, h)
SoundOK == \A h \in Hash : SoundAt(h)

\* A request that has not begun, and a purge, have no manifest; a chunk that is
\* sent ahead is the only one of its manifest.
BlankAt(r) ==
    /\ pc[r] = "idle" \/ arg[r].op = "purge" => Man(r) = <<>>
    /\ pc[r] = "write" => arg[r].op = "upload"
    /\ pc[r] \in Sending => Len(Man(r)) = 1
BlankOK == \A r \in Req : BlankAt(r)

-----------------------------------------------------------------------------
\* A step of a request that only moves on: what it has made sure of is all
\* that there is to show.
Moves(r) ==
    /\ Active(r) /\ pc'[r] # "unblob"
    /\ UNCHANGED <<arg, refs, clash>> /\ UNCHANGED <<todo, drop>>
    /\ UNCHANGED sweepVars
    /\ \A q \in Req \ {r} : pc'[q] = pc[q] /\ idx'[q] = idx[q]

LEMMA MoveKeeps ==
    ASSUME NEW h \in Hash, SoundAt(h), NEW r \in Req, Moves(r),
           UNCHANGED <<rows, refcount>>, blobs \subseteq blobs',
           h \in hollow => h \in hollow' \/ h \in blobs' \cap Chunks(r),
           h \notin clash /\ SeenAt(r, h) => SeenAt(r, h)'
    PROVE  SoundAt(h)'
<1> SUFFICES ASSUME h \notin clash PROVE SoundAt(h)'
  BY DEF SoundAt, Moves
<1>1. ApartAt(h)'
  BY DEF SoundAt, ApartAt, Moves, Deleting, Condemned, ChunkAt, Man, Chunks, Active, sweepVars
<1>2. OwedAt(h)'
  BY DEF SoundAt, OwedAt, Moves, ChunkAt, Man
<1>3. CountedAt(h)'
  <2>1. Held(h)' = Held(h) /\ (Doomed(h)' <=> Doomed(h))
    BY DEF Moves, Held, Doomed, ChunkAt, Man, sweepVars
  <2>2. h \in Chunks(r) => h \notin Deleting
    BY DEF SoundAt, ApartAt, Moves
  <2>3. /\ h \in sweepDrop => h \in Deleting
        /\ \A q \in Req : h \in drop[q] => h \in Deleting
    BY DEF Deleting, Condemned
  <2>4. \A q \in Req : pc'[q] = "unblob" => pc[q] = "unblob"
    BY DEF Moves
  <2>5. h \in rows' => h \in blobs' \cup hollow' /\ refcount'[h] = Cardinality(Held(h)')
    BY <2>1 DEF SoundAt, CountedAt
  <2>6. ASSUME h \in sweepDrop' \/ (\E q \in Req : h \in drop'[q] /\ pc'[q] = "unblob")
        PROVE  h \notin rows' \/ h \in hollow'
    <3>1. h \in sweepDrop \/ (\E q \in Req : h \in drop[q] /\ pc[q] = "unblob")
      BY <2>4, <2>6 DEF Moves, sweepVars
    <3>2. h \notin Chunks(r) /\ (h \notin rows \/ h \in hollow)
      BY <2>2, <2>3, <3>1 DEF SoundAt, CountedAt
    <3> QED BY <3>2
  <2>7. Held(h)' # {} => h \in rows' /\ ~Doomed(h)'
    BY <2>1 DEF SoundAt, CountedAt
  <2> QED BY <2>5, <2>6, <2>7 DEF CountedAt
<1>4. ASSUME NEW q \in Req PROVE SeenAt(q, h)'
  <2>1. CASE q = r
    BY <2>1 DEF SoundAt
  <2>2. CASE q # r
    BY <2>2 DEF SoundAt, SeenAt, Rowed, Blobbed, Moves, Chunks, Man, Here
  <2> QED BY <2>1, <2>2
<1> QED BY <1>1, <1>2, <1>3, <1>4 DEF SoundAt

\* A turn of the loop over the manifest, past the chunk it stood on.
LEMMA TurnSees ==
    ASSUME TypeOK, NEW r \in Req, NEW loop, NEW after, NextChunk(r, loop, after),
           UNCHANGED arg, NEW h \in Chunks(r), loop # after
    PROVE  /\ pc'[r] \in {loop, after}
           /\ pc'[r] = loop => idx'[r] = idx[r] + 1
           /\ pc'[r] = after => \E i \in 1 .. idx[r] : Man(r)[i] = h
<1>1. Len(Man(r)) \in Nat /\ idx[r] \in Nat
  BY Types
<1>2. PICK i \in 1 .. Len(Man(r)) : Man(r)[i] = h
  BY DEF Chunks
<1> QED BY <1>1, <1>2, NextChunkMoves

LEMMA MovesKeep ==
    ASSUME IInv, BlankOK, NEW h \in Hash, SoundAt(h), NEW r \in Req,
           \/ Check(r) /\ Here(r) \in rows
           \/ Lookup(r) \/ Create(r) \/ CheckBase(r) \/ Fork(r) \/ SeeRow(r) \/ Number(r)
           \/ InsertVersion(r) \/ SetCurrent(r) \/ ChunkRow(r) \/ DeleteVersions(r)
           \/ EndPurge(r) \/ (DeleteFileRow(r) /\ VersionsOf(file[r]) = {})
           \/ WriteBlob(r) \/ ChunkBlob(r)
    PROVE  SoundAt(h)'
<1> TypeOK /\ PlaceAt(r) /\ BlankAt(r)
  BY DEF IInv, PlaceOK, BlankOK
<1> USE Types DEF chunkVars, sweepVars, purgeVars, history, Goto
<1>1. CASE Check(r) /\ Here(r) \in rows
  <2>2. /\ pc[r] = "check" /\ NextChunk(r, "check", "lookup")
        /\ UNCHANGED chunkVars /\ UNCHANGED <<arg, refs, clash, hollow>>
        /\ UNCHANGED purgeVars /\ UNCHANGED sweepVars
    BY <1>1 DEF Check
  <2>1. Moves(r) /\ UNCHANGED chunkVars /\ NextChunk(r, "check", "lookup") /\ hollow' = hollow
    <3>1. /\ pc'[r] \in {"check", "lookup"}
          /\ \A q \in Req \ {r} : pc'[q] = pc[q] /\ idx'[q] = idx[q]
      BY <2>2, NextChunkMoves
    <3> QED BY <2>2, <3>1 DEF Moves, Active
  <2>3. ASSUME SeenAt(r, h) PROVE SeenAt(r, h)'
    <3> SUFFICES ASSUME h \in Chunks(r) PROVE SeenAt(r, h)'
      BY <2>2 DEF SeenAt, Chunks, Man
    <3>1. \A i \in 1 .. idx[r] : Man(r)[i] = h => h \in rows
      BY <1>1, <2>2, <2>3 DEF SeenAt, Here
    <3>t. /\ pc'[r] \in {"check", "lookup"}
          /\ pc'[r] = "check" => idx'[r] = idx[r] + 1
          /\ pc'[r] = "lookup" => \E i \in 1 .. idx[r] : Man(r)[i] = h
      <4> HIDE Types
      <4>1. TypeOK /\ NextChunk(r, "check", "lookup") /\ UNCHANGED arg
        BY <2>1, <2>2
      <4> QED BY <4>1, TurnSees
    <3>2. pc'[r] \in {"check", "lookup"} /\ (pc'[r] = "check" => idx'[r] = idx[r] + 1)
          /\ (pc'[r] = "lookup" => h \in rows)
      BY <3>1, <3>t
    <3>3. UNCHANGED <<rows, blobs>> /\ Man(r)' = Man(r)
      BY <2>1, <2>2 DEF Man
    <3>4. CASE pc'[r] = "check"
      <4>1. \A i \in 1 .. idx'[r] - 1 : i \in 1 .. idx[r]
        BY <3>2, <3>4
      <4> QED BY <3>1, <3>3, <3>4, <4>1 DEF SeenAt, Rowed, Blobbed
    <3>5. CASE pc'[r] = "lookup"
      BY <3>2, <3>3, <3>5 DEF SeenAt, Rowed, Blobbed
    <3> QED
      BY <3>2, <3>4, <3>5
  <2> QED BY <2>1, <2>3, MoveKeeps
<1>2. CASE Lookup(r) \/ Create(r)
  <2>1. Moves(r) /\ UNCHANGED chunkVars /\ hollow' = hollow /\ idx' = idx /\ pc[r] \in {"lookup", "create"}
        /\ pc'[r] \in {"create", "base"}
    BY <1>2 DEF Lookup, Create, Moves, Active
  <2>2. SeenAt(r, h) => SeenAt(r, h)'
    BY <2>1 DEF SeenAt, Rowed, Blobbed, Chunks, Man, Here, Moves
  <2> QED BY <2>1, <2>2, MoveKeeps
<1>3. CASE CheckBase(r) \/ Fork(r)
  <2>1. Moves(r) /\ UNCHANGED chunkVars /\ hollow' = hollow /\ idx' = idx /\ pc[r] \in {"base", "fork"}
        /\ pc'[r] \in {"fork", "done", Store(r)}
    BY <1>3, StoreCases DEF CheckBase, Fork, Moves, Active
  <2>2. Store(r) \in {"write", "see", "number"} /\ (Store(r) = "see" => arg[r].op # "upload")
        /\ arg[r].op \in {"upload", "finalize"} /\ idx[r] = 1
    BY <2>1, StoreCases DEF Store, LoopOr, PlaceAt, Writing, Walking, Taking
  <2>3. SeenAt(r, h) => SeenAt(r, h)'
    BY <2>1, <2>2 DEF SeenAt, Rowed, Blobbed, Chunks, Man, Here, Moves
  <2> QED BY <2>1, <2>3, MoveKeeps
<1>4. CASE SeeRow(r)
  <2>1. Moves(r) /\ UNCHANGED chunkVars /\ hollow' = hollow /\ idx' = idx /\ pc[r] = "see"
        /\ pc'[r] \in {"bump", "insert"} /\ (pc'[r] = "bump" => Here(r) \in rows)
    BY <1>4 DEF SeeRow, Moves, Active
  <2>2. SeenAt(r, h) => SeenAt(r, h)'
    BY <2>1 DEF SeenAt, Rowed, Blobbed, Chunks, Man, Here, Moves
  <2> QED BY <2>1, <2>2, MoveKeeps
<1>5. CASE Number(r)
  <2>1. Moves(r) /\ UNCHANGED chunkVars /\ hollow' = hollow /\ idx' = idx /\ pc[r] = "number"
        /\ pc'[r] \in {"rebump", "version"} /\ (pc'[r] = "rebump" => arg[r].op = "restore")
    BY <1>5, LoopOrCases DEF Number, Moves, Active
  <2>2. SeenAt(r, h) => SeenAt(r, h)'
    BY <2>1 DEF SeenAt, Rowed, Blobbed, Chunks, Man, Here, Moves
  <2> QED BY <2>1, <2>2, MoveKeeps
<1>6. CASE WriteBlob(r)
  <2>1. /\ pc[r] = "write" /\ NextChunk(r, "write", "see") /\ UNCHANGED arg
        /\ UNCHANGED <<rows, refcount>> /\ blobs' = blobs \cup {Here(r)}
        /\ hollow' = hollow \ {Here(r)}
        /\ UNCHANGED <<refs, clash>> /\ UNCHANGED <<todo, drop>> /\ UNCHANGED sweepVars
    BY <1>6 DEF WriteBlob, PutBlob
  <2>2. pc'[r] \in {"write", "see"} /\ \A q \in Req \ {r} : pc'[q] = pc[q] /\ idx'[q] = idx[q]
    BY <2>1, NextChunkMoves
  <2>4. Moves(r)
    BY <2>1, <2>2 DEF Moves, Active
  <2>5. Here(r) \in Chunks(r)
    <3>1. idx[r] \in 1 .. Len(Man(r))
      BY <2>1 DEF PlaceAt, Looping, Walking
    <3> QED BY <3>1 DEF Here, Chunks
  <2>3. ASSUME SeenAt(r, h) PROVE SeenAt(r, h)'
    <3> SUFFICES ASSUME h \in Chunks(r) PROVE SeenAt(r, h)'
      BY <2>1 DEF SeenAt, Chunks, Man
    <3>1. \A i \in 1 .. idx[r] : Man(r)[i] = h => h \in blobs'
      BY <2>1, <2>3 DEF SeenAt, Here
    <3>t. /\ pc'[r] = "write" => idx'[r] = idx[r] + 1
          /\ pc'[r] = "see" => \E i \in 1 .. idx[r] : Man(r)[i] = h
      <4> HIDE Types
      <4>1. TypeOK /\ NextChunk(r, "write", "see") /\ UNCHANGED arg
        BY <2>1
      <4> QED BY <4>1, TurnSees
    <3>2. pc'[r] \in {"write", "see"} /\ (pc'[r] = "write" => idx'[r] = idx[r] + 1)
          /\ (pc'[r] = "see" => h \in blobs')
      BY <2>2, <3>1, <3>t
    <3>3. arg'[r].op = "upload" /\ Man(r)' = Man(r)
      BY <2>1 DEF BlankAt, Man
    <3>4. CASE pc'[r] = "write"
      <4>1. \A i \in 1 .. idx'[r] - 1 : i \in 1 .. idx[r]
        BY <3>2, <3>4
      <4> QED BY <3>1, <3>3, <3>4, <4>1 DEF SeenAt, Rowed, Blobbed
    <3>5. CASE pc'[r] = "see"
      BY <3>2, <3>3, <3>5 DEF SeenAt, Rowed, Blobbed
    <3> QED
      BY <3>2, <3>4, <3>5
  <2>6. h \in hollow => h \in hollow' \/ h \in blobs' \cap Chunks(r)
    BY <2>1, <2>5
  <2> QED BY <2>1, <2>3, <2>4, <2>6, MoveKeeps
<1>7. CASE ChunkBlob(r)
  <2>1. Moves(r) /\ UNCHANGED <<rows, refcount>> /\ blobs' = blobs \cup {Here(r)}
        /\ pc[r] = "chunkblob" /\ pc'[r] = "chunkinsert" /\ hollow' = hollow \ {Here(r)}
    BY <1>7 DEF ChunkBlob, PutBlob, Moves, Active
  <2>2. \A g \in Chunks(r) : g = Here(r)
    BY <2>1 DEF BlankAt, Sending, PlaceAt, Walking, Taking, Chunks, Here
  <2>3. Chunks(r)' = Chunks(r)
    BY <2>1 DEF Chunks, Man, Moves
  <2>4. SeenAt(r, h)'
    BY <2>1, <2>2, <2>3 DEF SeenAt, Rowed, Blobbed
  <2>5. Here(r) \in Chunks(r)
    <3>1. idx[r] = 1 /\ Len(Man(r)) = 1
      BY <2>1 DEF BlankAt, PlaceAt, Sending, Walking, Taking
    <3>2. idx[r] \in 1 .. Len(Man(r))
      BY <3>1
    <3> QED BY <3>2 DEF Here, Chunks
  <2>6. h \in hollow => h \in hollow' \/ h \in blobs' \cap Chunks(r)
    BY <2>1, <2>5
  <2> QED BY <2>1, <2>4, <2>6, MoveKeeps
<1>8. CASE \/ InsertVersion(r) \/ SetCurrent(r) \/ ChunkRow(r) \/ DeleteVersions(r)
           \/ EndPurge(r) \/ (DeleteFileRow(r) /\ VersionsOf(file[r]) = {})
  <2>1. Moves(r) /\ UNCHANGED chunkVars /\ hollow' = hollow
        /\ pc'[r] \in {"current", "done", "chunkblob", "unfile", "release"}
    BY <1>8 DEF InsertVersion, SetCurrent, ChunkRow, DeleteVersions, EndPurge, DeleteFileRow,
                Moves, Active
  <2>2. SeenAt(r, h)'
    BY <2>1 DEF SeenAt, Rowed, Blobbed
  <2> QED BY <2>1, <2>2, MoveKeeps
<1> QED BY <1>1, <1>2, <1>3, <1>4, <1>5, <1>6, <1>7, <1>8

\* A request that stops, or all of them: what it was about to do is forgotten.
LEMMA StopKeeps ==
    ASSUME NEW h \in Hash, SoundAt(h), NEW R \in SUBSET Req,
           UNCHANGED <<chunkVars, arg, refs, clash, hollow>>,
           \A q \in R : todo'[q] = {} /\ drop'[q] = {} /\ pc'[q] \in {"done", "idle"},
           \A q \in Req \ R : /\ todo'[q] = todo[q] /\ drop'[q] = drop[q]
                              /\ pc'[q] = pc[q] /\ idx'[q] = idx[q],
           sweepTodo' \subseteq sweepTodo, sweepDrop' \subseteq sweepDrop
    PROVE  SoundAt(h)'
<1> SUFFICES ASSUME h \notin clash PROVE SoundAt(h)'
  BY DEF SoundAt
<1>1. Deleting' \subseteq Deleting
  BY DEF Deleting, Condemned, ChunkAt, Man
<1>2. \A q \in Req : Active(q)' => Active(q)
  BY DEF Active
<1>3. ApartAt(h)'
  BY <1>1, <1>2 DEF SoundAt, ApartAt, Chunks, Man
<1>4. OwedAt(h)'
  BY DEF SoundAt, OwedAt, ChunkAt, Man
<1>5. CountedAt(h)'
  BY DEF SoundAt, CountedAt, Held, Doomed, ChunkAt, Man, chunkVars
<1>6. \A q \in Req : SeenAt(q, h)'
  <2> TAKE q \in Req
  <2>1. CASE q \in R
    BY <2>1 DEF SeenAt, Rowed, Blobbed
  <2>2. CASE q \notin R
    BY <2>2 DEF SoundAt, SeenAt, Rowed, Blobbed, Chunks, Man, Here, chunkVars
  <2> QED BY <2>1, <2>2
<1> QED BY <1>3, <1>4, <1>5, <1>6 DEF SoundAt

LEMMA StopsKeep ==
    ASSUME IInv, NEW h \in Hash, SoundAt(h),
           \/ \E r \in Req : \/ Abort(r) \/ (Check(r) /\ Here(r) \notin rows)
                             \/ (InsertRow(r) /\ Here(r) \in rows)
                             \/ (DeleteFileRow(r) /\ VersionsOf(file[r]) # {})
           \/ Crash
    PROVE  SoundAt(h)'
<1> TypeOK
  BY DEF IInv
<1> USE Types DEF chunkVars, sweepVars, purgeVars, history, Goto
<1> drop \in [Req -> SUBSET Hash]
  BY DEF TypeOK, DeleterTypeOK
<1>1. ASSUME NEW r \in Req,
             \/ Abort(r) \/ (Check(r) /\ Here(r) \notin rows)
             \/ (InsertRow(r) /\ Here(r) \in rows)
             \/ (DeleteFileRow(r) /\ VersionsOf(file[r]) # {})
      PROVE  SoundAt(h)'
  <2>1. Stop(r) /\ UNCHANGED <<chunkVars, arg, refs, clash, hollow, sweepTodo, sweepDrop>>
    BY <1>1 DEF Abort, Check, InsertRow, DeleteFileRow
  <2>2. {r} \in SUBSET Req
    OBVIOUS
  <2> QED BY <2>1, <2>2, StopKeeps DEF Stop
<1>2. CASE Crash
  <2>1. /\ UNCHANGED <<chunkVars, arg, refs, clash, hollow>> /\ sweepTodo' = {} /\ sweepDrop' = {}
        /\ \A q \in Req : todo'[q] = {} /\ drop'[q] = {} /\ pc'[q] \in {"done", "idle"}
    BY <1>2 DEF Crash, Active
  <2>2. Req \in SUBSET Req
    OBVIOUS
  <2> QED BY <2>1, <2>2, StopKeeps
<1> QED BY <1>1, <1>2

\* A request that begins uses no chunk that somebody has to delete.
LEMMA BeginKeeps ==
    ASSUME IInv, BlankOK, NEW h \in Hash, SoundAt(h), NEW r \in Req, pc[r] = "idle",
           UNCHANGED <<chunkVars, sweepVars, purgeVars, refs, hollow>>, idx' = idx, clash \subseteq clash',
           \A q \in Req \ {r} : arg'[q] = arg[q] /\ pc'[q] = pc[q],
           pc'[r] # "unblob",
           h \notin clash' /\ h \in Chunks(r)' => h \notin Deleting,
           h \notin clash' /\ h \in Chunks(r)' /\ Rowed(r)' => h \in rows,
           ~Blobbed(r)', pc'[r] # "bump"
    PROVE  SoundAt(h)'
<1> SUFFICES ASSUME h \notin clash' PROVE SoundAt(h)'
  BY DEF SoundAt
<1> h \notin clash /\ TypeOK /\ RefsOK /\ TodoOK /\ PlaceAt(r)
  BY DEF IInv, PlaceOK
<1> USE Types DEF chunkVars, sweepVars, purgeVars
<1>1. \A q \in Req, i \in Nat : <<q, i>> \in refs \/ (\E p \in Req : <<q, i>> \in todo[p]) => q # r
  BY DEF RefsOK, RefOK, TodoOK, TodoAt, Settled
<1>2. \A t \in refs \cup UNION {todo[p] : p \in Req} : ChunkAt(t)' = ChunkAt(t)
  <2> TAKE t \in refs \cup UNION {todo[p] : p \in Req}
  <2>1. PICK q \in Req, i \in Nat : t = <<q, i>>
    BY DEF Token
  <2> QED BY <1>1, <2>1 DEF ChunkAt, Man
<1>3. Held(h)' = Held(h) /\ Deleting' = Deleting
  BY <1>2 DEF Held, Deleting, Condemned
<1>4. ApartAt(h)'
  BY <1>3 DEF SoundAt, ApartAt, Active, Chunks, Man
<1>5. OwedAt(h)'
  BY <1>2 DEF SoundAt, OwedAt
<1>6. CountedAt(h)'
  BY <1>3 DEF SoundAt, CountedAt, Doomed
<1>7. \A q \in Req : SeenAt(q, h)'
  <2> TAKE q \in Req
  <2>1. CASE q = r
    <3>1. idx'[r] = 1
      BY DEF PlaceAt, Walking, Taking
    <3> QED BY <2>1, <3>1 DEF SeenAt
  <2>2. CASE q # r
    BY <2>2 DEF SoundAt, SeenAt, Rowed, Blobbed, Chunks, Man, Here
  <2> QED BY <2>1, <2>2
<1> QED BY <1>4, <1>5, <1>6, <1>7 DEF SoundAt

LEMMA BeginsKeep ==
    ASSUME IInv, BlankOK, NEW h \in Hash, SoundAt(h), NEW r \in Req, Begin(r)
    PROVE  SoundAt(h)'
<1> TypeOK /\ RefsOK
  BY DEF IInv
<1> USE Types DEF chunkVars, sweepVars, purgeVars, history, Goto
<1>1. ASSUME NEW op \in {"upload", "finalize"}, NEW n \in Name, NEW man \in Content,
             NEW base \in Bases(n), BeginWrite(r, op, n, man, base)
      PROVE  SoundAt(h)'
  <2>1. LoopOr(man, "check", "lookup") \in {"check", "lookup"}
        /\ (LoopOr(man, "check", "lookup") = "lookup" => man = <<>>)
    BY DEF LoopOr
  <2>2. /\ pc[r] = "idle" /\ pc'[r] \in {"check", "lookup"} /\ Man(r)' = man
        /\ arg'[r].op = op
        /\ (pc'[r] = "lookup" /\ op = "finalize" => man = <<>>)
        /\ \A q \in Req \ {r} : arg'[q] = arg[q] /\ pc'[q] = pc[q]
        /\ UseChunks(man)
    BY <1>1, <2>1 DEF BeginWrite, Man
  <2>3. man = <<>> => Chunks(r)' = {}
    BY <2>2 DEF Chunks
  <2>4. h \in Chunks(r)' /\ h \in Deleting => h \in clash'
    BY <2>2 DEF Chunks, UseChunks
  <2>5. h \in Chunks(r)' => ~Rowed(r)'
    BY <2>2, <2>3 DEF Rowed
  <2>6. ~Blobbed(r)' /\ clash \subseteq clash'
    BY <2>2 DEF Blobbed, UseChunks
  <2> QED BY <1>1, <2>2, <2>4, <2>5, <2>6, BeginKeeps DEF BeginWrite
<1>2. ASSUME NEW g \in Hash, BeginChunk(r, g)
      PROVE  SoundAt(h)'
  <2>1. /\ pc[r] = "idle" /\ pc'[r] = "chunkrow" /\ Man(r)' = <<g>>
        /\ \A q \in Req \ {r} : arg'[q] = arg[q] /\ pc'[q] = pc[q]
        /\ UseChunks(<<g>>)
    BY <1>2 DEF BeginChunk, Man
  <2>2. h \in Chunks(r)' /\ h \in Deleting => h \in clash'
    BY <2>1 DEF Chunks, UseChunks
  <2>3. ~Rowed(r)' /\ ~Blobbed(r)' /\ clash \subseteq clash'
    BY <2>1 DEF Rowed, Blobbed, UseChunks
  <2> QED BY <1>2, <2>1, <2>2, <2>3, BeginKeeps DEF BeginChunk
<1>3. ASSUME NEW v \in stored, BeginRestore(r, v)
      PROVE  SoundAt(h)'
  <2>1. /\ pc[r] = "idle" /\ pc'[r] = "number" /\ Man(r)' = Man(v) /\ v \in Req
        /\ \A q \in Req \ {r} : arg'[q] = arg[q] /\ pc'[q] = pc[q]
        /\ UseChunks(Man(v))
    BY <1>3 DEF BeginRestore, Man
  <2>2. h \in Chunks(r)' /\ h \in Deleting => h \in clash'
    BY <2>1 DEF Chunks, UseChunks
  <2>3. h \in Chunks(r)' /\ h \notin clash' => h \in rows
    <3> SUFFICES ASSUME h \in Chunks(r)', h \notin clash' PROVE h \in rows
      OBVIOUS
    <3>1. PICK i \in 1 .. Len(Man(v)) : Man(v)[i] = h
      BY <2>1 DEF Chunks
    <3>2. i \in Nat /\ <<v, i>> \in refs /\ ChunkAt(<<v, i>>) = h
      BY <2>1, <3>1 DEF RefsOK, RefOK, Taken, ChunkAt
    <3>3. h \notin clash
      BY <2>1 DEF UseChunks
    <3> QED BY <3>2, <3>3 DEF SoundAt, CountedAt, Held
  <2>4. ~Blobbed(r)' /\ clash \subseteq clash'
    BY <2>1 DEF Blobbed, UseChunks
  <2> QED BY <1>3, <2>1, <2>2, <2>3, <2>4, BeginKeeps DEF BeginRestore
<1>4. ASSUME NEW f \in FileId, BeginPurge(r, f)
      PROVE  SoundAt(h)'
  <2>1. /\ pc[r] = "idle" /\ pc'[r] = "select" /\ Man(r)' = Man(r) /\ clash' = clash
        /\ \A q \in Req \ {r} : arg'[q] = arg[q] /\ pc'[q] = pc[q]
    BY <1>4 DEF BeginPurge, Man
  <2>2. Chunks(r)' = {}
    BY <2>1 DEF BlankOK, BlankAt, Chunks
  <2>3. ~Rowed(r)' /\ ~Blobbed(r)'
    BY <2>1 DEF Rowed, Blobbed
  <2> QED BY <1>4, <2>1, <2>2, <2>3, BeginKeeps DEF BeginPurge
<1> QED BY <1>1, <1>2, <1>3, <1>4 DEF Begin


\* Somebody who uses the chunk adds a row, a blob or a reference.
LEMMA UsersKeep ==
    ASSUME IInv, NEW h \in Hash, SoundAt(h), h \notin clash, NEW r \in Req,
           Active(r), pc'[r] # "unblob", UNCHANGED <<arg, clash, hollow>>,
           UNCHANGED <<todo, drop>>, UNCHANGED sweepVars,
           \A q \in Req \ {r} : pc'[q] = pc[q] /\ idx'[q] = idx[q],
           rows \subseteq rows', rows' \subseteq rows \cup {Here(r)}, blobs' = blobs,
           Here(r) \in Chunks(r),
           refs \subseteq refs', \A t \in refs' \ refs : ChunkAt(t) = Here(r),
           h = Here(r) => h \in rows' /\ h \in blobs \cup hollow /\ refcount'[h] = Cardinality(Held(h)'),
           h # Here(r) => refcount'[h] = refcount[h],
           SeenAt(r, h) => SeenAt(r, h)'
    PROVE  SoundAt(h)'
<1>1. ApartAt(h)'
  BY DEF SoundAt, ApartAt, Deleting, Condemned, ChunkAt, Man, Chunks, Active, sweepVars
<1>2. OwedAt(h)'
  BY DEF SoundAt, OwedAt, ChunkAt, Man
<1>3. h # Here(r) => CountedAt(h)'
  <2> SUFFICES ASSUME h # Here(r) PROVE CountedAt(h)'
    OBVIOUS
  <2>1. Held(h)' = Held(h) /\ (h \in rows' <=> h \in rows)
    BY DEF Held, ChunkAt, Man
  <2> QED BY <2>1 DEF SoundAt, CountedAt, Doomed, sweepVars
<1>4. h = Here(r) => CountedAt(h)'
  <2> SUFFICES ASSUME h = Here(r) PROVE CountedAt(h)'
    OBVIOUS
  <2>1. h \notin Deleting
    BY DEF SoundAt, ApartAt
  <2>2. ~Doomed(h)
    BY <2>1 DEF Doomed, Deleting, Condemned
  <2> QED BY <2>2 DEF CountedAt, Doomed, sweepVars
<1>5. ASSUME NEW q \in Req PROVE SeenAt(q, h)'
  BY DEF SoundAt, SeenAt, Rowed, Blobbed, Chunks, Man, Here
<1> QED BY <1>1, <1>2, <1>3, <1>4, <1>5 DEF SoundAt

\* The chunk that the loop stands on, its new reference, and its count.
LEMMA TakesRef ==
    ASSUME IInv, NEW r \in Req, pc[r] \in Taking, TakeRef(r), arg' = arg, NEW h
    PROVE  /\ Here(r) \in Hash /\ Here(r) \in Chunks(r)
           /\ refs \subseteq refs' /\ \A t \in refs' \ refs : ChunkAt(t) = Here(r)
           /\ Cardinality(Held(h)) \in Nat
           /\ Cardinality(Held(h)') = Cardinality(Held(h)) + (IF Here(r) = h THEN 1 ELSE 0)
<1> TypeOK /\ PlaceOK /\ PlaceAt(r) /\ RefsOK /\ CountsOK
  BY DEF IInv, PlaceOK
<1>1. idx[r] \in 1 .. Len(Man(r))
  BY Types DEF PlaceAt, Looping, Walking
<1>2. <<r, idx[r]>> \notin refs /\ ChunkAt(<<r, idx[r]>>) = Here(r)
  BY Types, <1>1 DEF RefsOK, RefOK, ChunkAt, Here
<1>3. Here(r) \in Hash /\ Here(r) \in Chunks(r)
  BY <1>1, HereIsHash DEF Looping, Walking, Here, Chunks
<1> QED BY <1>2, <1>3, HeldGrows DEF TakeRef

LEMMA TakersKeep ==
    ASSUME IInv, BlankOK, NEW h \in Hash, SoundAt(h), NEW r \in Req,
           Bump(r) \/ Rebump(r) \/ (InsertRow(r) /\ Here(r) \notin rows)
    PROVE  SoundAt(h)'
<1> SUFFICES ASSUME h \notin clash PROVE SoundAt(h)'
  BY DEF SoundAt, Bump, Rebump, AddRef, InsertRow
<1> TypeOK /\ PlaceAt(r) /\ BlankAt(r)
  BY DEF IInv, PlaceOK, BlankOK
<1> DEFINE loop  == IF Rebump(r) THEN "rebump" ELSE "see"
           after == IF Rebump(r) THEN "version" ELSE "number"
<1>1. /\ pc[r] \in Taking /\ Active(r) /\ NextChunk(r, loop, after)
      /\ UNCHANGED <<arg, clash, hollow>> /\ UNCHANGED <<todo, drop>> /\ UNCHANGED sweepVars
      /\ blobs' = blobs /\ TakeRef(r)
  BY DEF Bump, Rebump, AddRef, InsertRow, Taking, Active, purgeVars, sweepVars
<1>2. /\ pc'[r] \in {loop, after}
      /\ \A q \in Req \ {r} : pc'[q] = pc[q] /\ idx'[q] = idx[q]
  BY <1>1, NextChunkMoves
<1>3. /\ rows \subseteq rows' /\ rows' \subseteq rows \cup {Here(r)}
      /\ refcount' = IF Here(r) \in rows THEN [refcount EXCEPT ![Here(r)] = @ + 1]
                     ELSE IF Here(r) \in rows' THEN [refcount EXCEPT ![Here(r)] = 1]
                     ELSE refcount
      /\ InsertRow(r) => Here(r) \in rows'
  BY DEF Bump, Rebump, AddRef, InsertRow
<1>4. /\ Here(r) \in Hash /\ Here(r) \in Chunks(r) /\ refs \subseteq refs'
      /\ \A t \in refs' \ refs : ChunkAt(t) = Here(r)
      /\ Cardinality(Held(h)) \in Nat
      /\ Cardinality(Held(h)') = Cardinality(Held(h)) + (IF Here(r) = h THEN 1 ELSE 0)
  BY <1>1, TakesRef
<1>5. refcount \in [Hash -> Int] /\ rows \subseteq Hash
  BY DEF TypeOK, DatabaseTypeOK
<1>6. h # Here(r) => refcount'[h] = refcount[h]
  BY <1>3, <1>4, <1>5
<1>7. h = Here(r) => h \in rows' /\ h \in blobs \cup hollow /\ refcount'[h] = Cardinality(Held(h)')
  <2> SUFFICES ASSUME h = Here(r) PROVE h \in rows' /\ h \in blobs \cup hollow /\ refcount'[h] = Cardinality(Held(h)')
    OBVIOUS
  <2>1. CASE h \in rows
    BY <1>3, <1>4, <1>5, <2>1 DEF SoundAt, CountedAt
  <2>2. CASE h \notin rows
    <3>1. InsertRow(r)
      BY <1>4, <2>2 DEF SoundAt, SeenAt, Rowed, Bump, Rebump
    <3>2. h \in blobs
      BY <1>4, <2>2, <3>1 DEF SoundAt, SeenAt, Rowed, Blobbed, InsertRow, PlaceAt
    <3>3. Cardinality(Held(h)) = 0
      BY <2>2, FS_EmptySet DEF SoundAt, CountedAt
    <3> QED BY <1>3, <1>4, <1>5, <2>2, <3>1, <3>2, <3>3
  <2> QED BY <2>1, <2>2
<1>8. SeenAt(r, h) => SeenAt(r, h)'
  <2> SUFFICES ASSUME SeenAt(r, h), h \in Chunks(r) PROVE SeenAt(r, h)'
    BY <1>1 DEF SeenAt, Chunks, Man
  <2>1. pc'[r] \in {"see", "number", "rebump", "version"} /\ arg'[r].op = arg[r].op
        /\ (pc'[r] = "rebump" => Rebump(r)) /\ (pc'[r] \in {"see", "number"} => ~Rebump(r))
    BY <1>1, <1>2
  <2>2. Rowed(r)' => Rowed(r)
    BY <2>1, <1>1 DEF Rowed, Bump, Rebump, InsertRow, PlaceAt, Taking
  <2>3. Blobbed(r)' => Blobbed(r)
    BY <2>1, <1>1 DEF Blobbed, Bump, Rebump, InsertRow, PlaceAt, Taking
  <2> QED BY <1>1, <1>3, <2>1, <2>2, <2>3 DEF SeenAt
<1>9. pc'[r] # "unblob"
  BY <1>2
<1> QED BY <1>1, <1>2, <1>3, <1>4, <1>6, <1>7, <1>8, <1>9, UsersKeep

\* A row sent ahead counts nothing.
LEMMA SendersKeep ==
    ASSUME IInv, BlankOK, NEW h \in Hash, SoundAt(h), NEW r \in Req, ChunkInsert(r)
    PROVE  SoundAt(h)'
<1> SUFFICES ASSUME h \notin clash PROVE SoundAt(h)'
  BY DEF SoundAt, ChunkInsert, history
<1> TypeOK /\ PlaceAt(r) /\ BlankAt(r) /\ CountsOK
  BY DEF IInv, PlaceOK, BlankOK
<1>1. /\ pc[r] = "chunkinsert" /\ pc'[r] = "done" /\ Active(r)
      /\ rows' = rows \cup {Here(r)} /\ blobs' = blobs /\ refcount' = refcount
      /\ UNCHANGED <<arg, clash, hollow, refs>> /\ UNCHANGED <<todo, drop>> /\ UNCHANGED sweepVars
      /\ \A q \in Req \ {r} : pc'[q] = pc[q] /\ idx'[q] = idx[q]
  BY Types DEF ChunkInsert, Goto, Active, history, purgeVars
<1>2. Here(r) \in Chunks(r)
  <2>1. idx[r] = 1 /\ Len(Man(r)) = 1
    BY <1>1 DEF BlankAt, PlaceAt, Sending, Walking, Taking
  <2>2. idx[r] \in 1 .. Len(Man(r))
    BY <2>1
  <2> QED BY <2>2 DEF Here, Chunks
<1>3. Held(h)' = Held(h)
  BY <1>1 DEF Held, ChunkAt, Man
<1>4. h = Here(r) => h \in blobs \cup hollow /\ refcount[h] = Cardinality(Held(h))
  <2> SUFFICES ASSUME h = Here(r) PROVE h \in blobs \cup hollow /\ refcount[h] = Cardinality(Held(h))
    OBVIOUS
  <2>1. CASE h \in rows
    BY <2>1 DEF SoundAt, CountedAt
  <2>2. CASE h \notin rows
    <3>1. h \in blobs
      BY <1>1, <1>2 DEF SoundAt, SeenAt, Blobbed
    <3>2. Cardinality(Held(h)) = 0
      BY <2>2, FS_EmptySet DEF SoundAt, CountedAt
    <3> QED BY <2>2, <3>1, <3>2 DEF CountsOK
  <2> QED BY <2>1, <2>2
<1>5. SeenAt(r, h)'
  BY <1>1 DEF SeenAt, Rowed, Blobbed
<1> QED BY <1>1, <1>2, <1>3, <1>4, <1>5, UsersKeep

\* What a purge selects is held by stored versions, and by nothing else that
\* still uses it.
LEMMA SelectKeeps ==
    ASSUME IInv, BlankOK, NEW h \in Hash, SoundAt(h), NEW r \in Req, SelectManifests(r)
    PROVE  SoundAt(h)'
<1> DEFINE owed == RefsOf(VersionsOf(file[r]))
<1> SUFFICES ASSUME h \notin clash' PROVE SoundAt(h)'
  BY DEF SoundAt
<1> TypeOK /\ RefsOK /\ TodoOK
  BY DEF IInv
<1>1. /\ todo' = [todo EXCEPT ![r] = owed]
      /\ h \notin clash
      /\ \A t \in owed : ChunkAt(t) = h =>
           /\ \A q \in Req \ {r} : t \notin todo[q]
           /\ \A q \in Req : Active(q) => h \notin Chunks(q)
      /\ UNCHANGED chunkVars /\ UNCHANGED <<arg, refs, drop, idx, hollow>> /\ UNCHANGED sweepVars
      /\ pc[r] = "select" /\ pc'[r] = "unversion" /\ \A q \in Req \ {r} : pc'[q] = pc[q]
  BY Types DEF SelectManifests, Using, Goto
<1>2. todo'[r] = owed /\ \A q \in Req \ {r} : todo'[q] = todo[q]
  BY <1>1, Types
<1>3. \A t \in owed : t \in refs
  <2> SUFFICES ASSUME NEW v \in VersionsOf(file[r]), NEW i \in 1 .. Len(Man(v))
               PROVE  <<v, i>> \in refs
    BY DEF RefsOf
  <2> QED BY Types DEF VersionsOf, RefsOK, RefOK, Taken
<1>4. \A q \in Req : Active(q)' => Active(q)
  BY <1>1 DEF Active
<1>5. UNCHANGED <<Held(h), Doomed(h)>> /\ \A t : ChunkAt(t)' = ChunkAt(t)
  BY <1>1 DEF Held, Doomed, ChunkAt, Man, sweepVars
<1>6. ApartAt(h)'
  <2> SUFFICES ASSUME h \in Deleting', NEW q \in Req, Active(q) PROVE h \notin Chunks(q)
    BY <1>1, <1>4 DEF ApartAt, Chunks, Man
  <2>1. CASE h \in Deleting
    BY <1>1, <2>1 DEF SoundAt, ApartAt
  <2>2. CASE h \notin Deleting
    <3>1. \E t \in owed : ChunkAt(t) = h
      BY <1>1, <1>2, <1>5, <2>2 DEF Deleting, Condemned, sweepVars
    <3> QED BY <1>1, <3>1
  <2> QED BY <2>1, <2>2
<1>7. OwedAt(h)'
  BY <1>1, <1>2, <1>3, <1>5 DEF SoundAt, OwedAt
<1>8. CountedAt(h)'
  BY <1>1, <1>5 DEF SoundAt, CountedAt, chunkVars, sweepVars
<1>9. \A q \in Req : SeenAt(q, h)'
  BY <1>1 DEF SoundAt, SeenAt, Rowed, Blobbed, Chunks, Man, Here, chunkVars
<1> QED BY <1>6, <1>7, <1>8, <1>9 DEF SoundAt

\* A release that fails forgets a reference: what it held is still counted.
LEMMA SkipKeeps ==
    ASSUME IInv, NEW h \in Hash, SoundAt(h), NEW r \in Req, Release(r),
           UNCHANGED <<refs, refcount, pc, drop>>
    PROVE  SoundAt(h)'
<1> SUFFICES ASSUME h \notin clash PROVE SoundAt(h)'
  BY ReleaseCases DEF SoundAt
<1>1. UNCHANGED <<rows, blobs, arg, idx, clash, hollow>> /\ UNCHANGED sweepVars
  BY ReleaseCases
<1>2. \A q \in Req : todo'[q] \subseteq todo[q]
  <2>1. todo \in [Req -> SUBSET Token]
    BY Types DEF IInv
  <2> QED BY <2>1, ReleaseCases
<1>3. \A u : ChunkAt(u)' = ChunkAt(u)
  BY <1>1 DEF ChunkAt, Man
<1>4. Held(h)' = Held(h) /\ Deleting' \subseteq Deleting /\ (Doomed(h)' <=> Doomed(h))
  BY <1>1, <1>2, <1>3 DEF Held, Deleting, Condemned, Doomed, sweepVars
<1>5. ApartAt(h)'
  BY <1>1, <1>4 DEF SoundAt, ApartAt, Active, Chunks, Man
<1>6. OwedAt(h)'
  BY <1>2, <1>3 DEF SoundAt, OwedAt
<1>7. CountedAt(h)'
  BY <1>1, <1>4 DEF SoundAt, CountedAt, sweepVars
<1>8. \A q \in Req : SeenAt(q, h)'
  BY <1>1 DEF SoundAt, SeenAt, Rowed, Blobbed, Chunks, Man, Here
<1> QED BY <1>5, <1>6, <1>7, <1>8 DEF SoundAt

\* The last reference released is the last one held.
LEMMA ReleaseKeeps ==
    ASSUME IInv, BlankOK, NEW h \in Hash, SoundAt(h), NEW r \in Req, Release(r)
    PROVE  SoundAt(h)'
<1> SUFFICES ASSUME h \notin clash PROVE SoundAt(h)'
  BY ReleaseCases DEF SoundAt
<1> TypeOK /\ TodoOK /\ CountsOK
  BY DEF IInv
<1>0. SUFFICES ASSUME ~UNCHANGED <<refs, refcount, pc, drop>> PROVE SoundAt(h)'
  BY SkipKeeps
<1>1. PICK t \in todo[r] :
        /\ todo' = [todo EXCEPT ![r] = @ \ {t}]
        /\ refs' = refs \ {t}
        /\ refcount' = IF ChunkAt(t) \in rows THEN [refcount EXCEPT ![ChunkAt(t)] = @ - 1] ELSE refcount
        /\ IF ChunkAt(t) \in rows /\ refcount[ChunkAt(t)] <= 1
           THEN /\ drop' = [drop EXCEPT ![r] = {ChunkAt(t)}]
                /\ pc' = [pc EXCEPT ![r] = "unrow"]
           ELSE UNCHANGED <<pc, drop>>
  BY <1>0, ReleaseCases
<1>2. /\ pc[r] = "release" /\ UNCHANGED <<rows, blobs, arg, idx, clash, hollow>> /\ UNCHANGED sweepVars
      /\ \A u : ChunkAt(u)' = ChunkAt(u)
  BY ReleaseCases DEF ChunkAt, Man
<1>3. /\ pc'[r] \in {"release", "unrow"} /\ \A q \in Req \ {r} : pc'[q] = pc[q]
      /\ todo'[r] = todo[r] \ {t} /\ \A q \in Req \ {r} : todo'[q] = todo[q]
      /\ \A q \in Req \ {r} : drop'[q] = drop[q]
      /\ drop'[r] = IF ChunkAt(t) \in rows /\ refcount[ChunkAt(t)] <= 1 THEN {ChunkAt(t)} ELSE drop[r]
  <2>1. drop \in [Req -> SUBSET Hash]
    BY DEF TypeOK, DeleterTypeOK
  <2> QED BY <1>1, <1>2, <2>1, Types
<1>4. Deleting' \subseteq Deleting
  BY <1>1, <1>2, <1>3 DEF Deleting, Condemned, sweepVars
<1>5. \A q \in Req : Active(q)' => Active(q)
  BY <1>2, <1>3 DEF Active
<1>6. ApartAt(h)'
  BY <1>2, <1>4, <1>5 DEF SoundAt, ApartAt, Chunks, Man
<1>7. OwedAt(h)'
  <2> SUFFICES ASSUME NEW q \in Req, NEW u \in todo'[q], ChunkAt(u) = h
               PROVE  u \in refs' /\ \A p \in Req \ {q} : u \notin todo'[p]
    BY <1>2 DEF OwedAt
  <2>1. u \in todo[q] /\ u \in refs /\ \A p \in Req \ {q} : u \notin todo[p]
    BY <1>3 DEF SoundAt, OwedAt
  <2>2. u # t
    BY <1>3, <2>1
  <2> QED BY <1>1, <1>3, <2>1, <2>2
<1>8. CountedAt(h)'
  <2>1. refcount \in [Hash -> Int] /\ ChunkAt(t) \in Hash
    BY OwedIsHash DEF TypeOK, DatabaseTypeOK
  <2>2. CASE h # ChunkAt(t)
    <3>1. Held(h)' = Held(h) /\ refcount'[h] = refcount[h]
      BY <1>1, <1>2, <2>1, <2>2 DEF Held
    <3>2. Doomed(h)' => Doomed(h)
      BY <1>2, <1>3, <2>2 DEF Doomed, sweepVars
    <3>3. \A q \in Req : h \in drop'[q] /\ pc'[q] = "unblob" => h \in drop[q] /\ pc[q] = "unblob"
      BY <1>3, <2>2
    <3> QED BY <1>2, <3>1, <3>2, <3>3 DEF SoundAt, CountedAt, sweepVars
  <2>3. CASE h = ChunkAt(t)
    <3>1. t \in Held(h)
      BY <2>3 DEF SoundAt, OwedAt, Held
    <3>2. h \in rows /\ h \in blobs \cup hollow /\ ~Doomed(h) /\ refcount[h] = Cardinality(Held(h))
      BY <3>1 DEF SoundAt, CountedAt
    <3>3. Held(h)' = Held(h) \ {t} /\ IsFiniteSet(Held(h))
      <4>1. Held(h) \in SUBSET refs
        BY DEF Held
      <4> QED BY <1>1, <1>2, <4>1, FS_Subset DEF Held, CountsOK
    <3>4. Cardinality(Held(h)) \in Nat /\ Cardinality(Held(h)') = Cardinality(Held(h)) - 1
          /\ IsFiniteSet(Held(h)')
      BY <3>1, <3>3, FS_RemoveElement, FS_CardinalityType
    <3>5. refcount'[h] = Cardinality(Held(h)')
      BY <1>1, <2>1, <2>3, <3>2, <3>4
    <3>6. refcount[h] <= 1 => Held(h)' = {}
      BY <3>2, <3>4, FS_EmptySet, FS_CardinalityType
    <3>7. refcount[h] > 1 => ~Doomed(h)'
      BY <1>2, <1>3, <2>1, <2>3, <3>2 DEF Doomed, sweepVars
    <3>8. ~(h \in sweepDrop') /\ \A q \in Req : ~(h \in drop'[q] /\ pc'[q] = "unblob")
      BY <1>2, <1>3, <3>2 DEF Doomed, sweepVars
    <3> QED BY <1>2, <2>1, <3>2, <3>5, <3>6, <3>7, <3>8 DEF CountedAt
  <2> QED BY <2>2, <2>3
<1>9. \A q \in Req : SeenAt(q, h)'
  BY <1>2, <1>3 DEF SoundAt, SeenAt, Rowed, Blobbed, Chunks, Man, Here
<1> QED BY <1>6, <1>7, <1>8, <1>9 DEF SoundAt

\* A deleter removes the row, then the blob, of a chunk nobody holds or uses.
Removes(h) ==
    /\ UNCHANGED <<arg, refs, clash, todo, idx>>
    /\ h \in rows => h \in rows' \/ (h \in Deleting /\ Held(h) = {})
    /\ h \in rows' => /\ h \in rows /\ refcount'[h] = refcount[h]
                      /\ h \in hollow => h \in hollow'
    /\ h \in blobs => \/ h \in blobs'
                      \/ h \in Deleting /\ (h \notin rows' \/ h \in hollow')
    /\ Deleting' \subseteq Deleting
    /\ Doomed(h)' => Doomed(h) /\ h \in Deleting
    /\ h \in sweepDrop' \/ (\E r \in Req : h \in drop'[r] /\ pc'[r] = "unblob")
         => h \notin rows' \/ h \in hollow'
    /\ \A q \in Req : pc'[q] = pc[q] \/ (pc'[q] \in {"unblob", "release"} /\ Active(q))

LEMMA RemoveKeeps ==
    ASSUME NEW h \in Hash, SoundAt(h), h \notin clash, Removes(h)
    PROVE  SoundAt(h)'
<1> USE DEF Removes
<1>1. Held(h)' = Held(h)
  BY DEF Held, ChunkAt, Man
<1>2. \A q \in Req : Active(q)' => Active(q)
  BY DEF Active
<1>3. ApartAt(h)'
  BY <1>2 DEF SoundAt, ApartAt, Chunks, Man
<1>4. OwedAt(h)'
  BY DEF SoundAt, OwedAt, ChunkAt, Man
<1>5. CountedAt(h)'
  BY <1>1 DEF SoundAt, CountedAt
<1>6. \A q \in Req : SeenAt(q, h)'
  <2> SUFFICES ASSUME NEW q \in Req PROVE SeenAt(q, h)'
    OBVIOUS
  <2>1. CASE pc'[q] # pc[q]
    BY <2>1 DEF SeenAt, Rowed, Blobbed
  <2>2. CASE pc'[q] = pc[q] /\ h \in Deleting
    <3>1. h \in Chunks(q) => ~Active(q)
      BY <2>2 DEF SoundAt, ApartAt
    <3> QED BY <2>2, <3>1 DEF SeenAt, Rowed, Blobbed, Active, Chunks, Man
  <2>3. CASE pc'[q] = pc[q] /\ h \notin Deleting
    BY <2>3 DEF SoundAt, SeenAt, Rowed, Blobbed, Chunks, Man, Here
  <2> QED BY <2>1, <2>2, <2>3
<1> QED BY <1>3, <1>4, <1>5, <1>6 DEF SoundAt

LEMMA DeletersKeep ==
    ASSUME IInv, NEW h \in Hash, SoundAt(h),
           (\E r \in Req : DropRow(r) \/ DropBlob(r)) \/ SweepRow \/ SweepBlob
    PROVE  SoundAt(h)'
<1> SUFFICES ASSUME h \notin clash PROVE SoundAt(h)'
  BY DEF SoundAt, DropRow, DropBlob, SweepRow, SweepBlob, history
<1> TypeOK /\ drop \in [Req -> SUBSET Hash] /\ sweepTodo \subseteq Hash /\ sweepDrop \subseteq Hash
  BY DEF IInv, TypeOK, DeleterTypeOK
<1> USE Types DEF sweepVars, purgeVars, history, Goto
<1>1. ASSUME NEW r \in Req, DropRow(r) PROVE SoundAt(h)'
  <2>1. /\ pc[r] = "unrow" /\ pc'[r] = "unblob" /\ \A q \in Req \ {r} : pc'[q] = pc[q]
        /\ UNCHANGED <<arg, refs, clash, todo, idx, drop, sweepTodo, sweepDrop, blobs>>
        /\ RemoveRow(drop[r])
    BY <1>1 DEF DropRow
  <2>r. /\ rows' \subseteq rows /\ (h \in rows \ rows' => h \in drop[r])
        /\ (h \in rows' => refcount'[h] = refcount[h] /\ (h \in hollow => h \in hollow'))
        /\ (h \in drop[r] => h \notin rows' \/ h \in hollow')
    BY <2>1 DEF RemoveRow
  <2>2. h \in drop[r] => h \in Deleting /\ Held(h) = {}
    BY DEF Deleting, Condemned, SoundAt, CountedAt, Doomed
  <2>3. Deleting' = Deleting /\ (Doomed(h)' <=> Doomed(h)) /\ (Doomed(h) => h \in Deleting)
    BY <2>1 DEF Deleting, Condemned, Doomed, ChunkAt, Man
  <2>4. h \in sweepDrop' \/ (\E q \in Req : h \in drop'[q] /\ pc'[q] = "unblob")
          => h \notin rows' \/ h \in hollow'
    BY <2>1, <2>r DEF SoundAt, CountedAt
  <2>5. \A q \in Req : pc'[q] = pc[q] \/ (pc'[q] \in {"unblob", "release"} /\ Active(q))
    BY <2>1 DEF Active
  <2>6. Removes(h)
    BY <2>1, <2>r, <2>2, <2>3, <2>4, <2>5 DEF Removes
  <2> QED BY <2>6, RemoveKeeps
<1>2. ASSUME NEW r \in Req, DropBlob(r) PROVE SoundAt(h)'
  <2>1. /\ pc[r] = "unblob" /\ pc'[r] = "release" /\ \A q \in Req \ {r} : pc'[q] = pc[q]
        /\ UNCHANGED <<arg, refs, clash, hollow, todo, idx, sweepTodo, sweepDrop, rows, refcount>>
        /\ blobs' \in {blobs, blobs \ drop[r]}
        /\ drop'[r] = {} /\ \A q \in Req \ {r} : drop'[q] = drop[q]
    BY <1>2 DEF DropBlob, RemoveBlob
  <2>2. h \in drop[r] => h \in Deleting /\ (h \notin rows \/ h \in hollow)
    BY <2>1 DEF Deleting, Condemned, SoundAt, CountedAt
  <2>3. Deleting' \subseteq Deleting /\ (Doomed(h)' => Doomed(h)) /\ (Doomed(h) => h \in Deleting)
    <3>1. \A q \in Req : drop'[q] \subseteq drop[q] /\ (pc'[q] = "unrow" => pc[q] = "unrow")
      BY <2>1
    <3>2. \A t : ChunkAt(t)' = ChunkAt(t)
      BY <2>1 DEF ChunkAt, Man
    <3>3. Deleting' \subseteq Deleting
      BY <2>1, <3>1, <3>2 DEF Deleting, Condemned
    <3>4. Doomed(h)' => Doomed(h)
      BY <2>1, <3>1 DEF Doomed
    <3>5. Doomed(h) => h \in Deleting
      BY DEF Doomed, Deleting, Condemned
    <3> QED BY <3>3, <3>4, <3>5
  <2>4. h \in sweepDrop' \/ (\E q \in Req : h \in drop'[q] /\ pc'[q] = "unblob")
          => h \notin rows' \/ h \in hollow'
    BY <2>1 DEF SoundAt, CountedAt
  <2>5. \A q \in Req : pc'[q] = pc[q] \/ (pc'[q] \in {"unblob", "release"} /\ Active(q))
    BY <2>1 DEF Active
  <2>6. Removes(h)
    BY <2>1, <2>2, <2>3, <2>4, <2>5 DEF Removes
  <2> QED BY <2>6, RemoveKeeps
<1>3. CASE SweepRow
  <2>1. PICK g \in sweepTodo :
          sweepTodo' = sweepTodo \ {g} /\ sweepDrop' = {g} /\ RemoveRow({g})
    BY <1>3 DEF SweepRow
  <2>r. /\ rows' \subseteq rows /\ (h \in rows \ rows' => h = g)
        /\ (h \in rows' => refcount'[h] = refcount[h] /\ (h \in hollow => h \in hollow'))
        /\ (h = g => h \notin rows' \/ h \in hollow')
    BY <2>1 DEF RemoveRow
  <2>2. UNCHANGED <<arg, refs, clash, todo, idx, drop, pc, blobs>>
    BY <1>3 DEF SweepRow
  <2>3. h = g => h \in Deleting /\ Held(h) = {}
    BY <2>1 DEF Deleting, SoundAt, CountedAt, Doomed
  <2>4. Deleting' \subseteq Deleting /\ (Doomed(h)' => Doomed(h)) /\ (Doomed(h) => h \in Deleting)
    BY <2>1, <2>2 DEF Deleting, Condemned, Doomed, ChunkAt, Man
  <2>5. h \in sweepDrop' \/ (\E q \in Req : h \in drop'[q] /\ pc'[q] = "unblob")
          => h \notin rows' \/ h \in hollow'
    BY <2>1, <2>r, <2>2 DEF SoundAt, CountedAt
  <2>6. Removes(h)
    BY <2>1, <2>r, <2>2, <2>3, <2>4, <2>5 DEF Removes
  <2> QED BY <2>6, RemoveKeeps
<1>4. CASE SweepBlob
  <2>1. /\ UNCHANGED <<arg, refs, clash, hollow, todo, idx, drop, pc, rows, refcount, sweepTodo>>
        /\ blobs' \in {blobs, blobs \ sweepDrop} /\ sweepDrop' = {}
    BY <1>4 DEF SweepBlob, RemoveBlob
  <2>2. h \in sweepDrop => h \in Deleting /\ (h \notin rows \/ h \in hollow)
    BY DEF Deleting, SoundAt, CountedAt
  <2>3. Deleting' \subseteq Deleting /\ (Doomed(h)' => Doomed(h)) /\ (Doomed(h) => h \in Deleting)
    BY <2>1 DEF Deleting, Condemned, Doomed, ChunkAt, Man
  <2>4. h \in sweepDrop' \/ (\E q \in Req : h \in drop'[q] /\ pc'[q] = "unblob")
          => h \notin rows' \/ h \in hollow'
    BY <2>1 DEF SoundAt, CountedAt
  <2>5. Removes(h)
    BY <2>1, <2>2, <2>3, <2>4 DEF Removes
  <2> QED BY <2>5, RemoveKeeps
<1> QED BY <1>1, <1>2, <1>3, <1>4

\* The sweep selects rows that count nothing: nobody holds them, nobody uses them.
LEMMA SweepSelectKeeps ==
    ASSUME IInv, NEW h \in Hash, SoundAt(h), SweepSelect
    PROVE  SoundAt(h)'
<1> DEFINE idle == {g \in rows : refcount[g] <= 0}
<1> SUFFICES ASSUME h \notin clash' PROVE SoundAt(h)'
  BY DEF SoundAt
<1> TypeOK /\ CountsOK
  BY DEF IInv
<1>1. /\ h \notin clash /\ sweepTodo' = idle /\ sweepTodo = {}
      /\ h \in idle => \A q \in Req : Active(q) => h \notin Chunks(q)
      /\ UNCHANGED chunkVars /\ UNCHANGED <<arg, refs, pc, idx, sweepDrop, hollow>> /\ UNCHANGED purgeVars
  BY DEF SweepSelect, Using
<1>2. Held(h)' = Held(h) /\ (h \in Deleting' => h \in Deleting \/ h \in idle)
      /\ (Doomed(h)' => Doomed(h) \/ h \in idle)
  BY <1>1 DEF Held, Deleting, Condemned, Doomed, ChunkAt, Man, purgeVars
<1>3. h \in idle => Held(h) = {}
  <2> SUFFICES ASSUME h \in idle PROVE Held(h) = {}
    OBVIOUS
  <2>1. Held(h) \in SUBSET refs
    BY DEF Held
  <2>2. IsFiniteSet(Held(h)) /\ Cardinality(Held(h)) \in Nat
    BY <2>1, FS_Subset, FS_CardinalityType DEF CountsOK
  <2>3. Cardinality(Held(h)) <= 0
    BY <1>1 DEF SoundAt, CountedAt
  <2> QED BY <2>2, <2>3, FS_EmptySet
<1>4. ApartAt(h)'
  BY <1>1, <1>2 DEF SoundAt, ApartAt, Active, Chunks, Man
<1>5. OwedAt(h)'
  BY <1>1 DEF SoundAt, OwedAt, ChunkAt, Man, purgeVars
<1>6. CountedAt(h)'
  BY <1>1, <1>2, <1>3 DEF SoundAt, CountedAt, chunkVars, purgeVars
<1>7. \A q \in Req : SeenAt(q, h)'
  BY <1>1 DEF SoundAt, SeenAt, Rowed, Blobbed, Chunks, Man, Here, chunkVars
<1> QED BY <1>4, <1>5, <1>6, <1>7 DEF SoundAt

LEMMA SoundStutters ==
    ASSUME NEW h \in Hash, SoundAt(h), UNCHANGED chunkVars, UNCHANGED <<arg, refs, clash, hollow, pc, idx>>,
           UNCHANGED purgeVars, UNCHANGED sweepVars
    PROVE  SoundAt(h)'
<1> USE DEF chunkVars, purgeVars, sweepVars
<1>1. Held(h)' = Held(h) /\ Deleting' = Deleting /\ Doomed(h)' = Doomed(h) /\ clash' = clash
  BY DEF Held, Deleting, Condemned, Doomed, ChunkAt, Man
<1>2. ApartAt(h) => ApartAt(h)'
  BY <1>1 DEF ApartAt, Active, Chunks, Man
<1>3. OwedAt(h) => OwedAt(h)'
  BY DEF OwedAt, ChunkAt, Man
<1>4. CountedAt(h) => CountedAt(h)'
  BY <1>1 DEF CountedAt
<1>5. \A q \in Req : SeenAt(q, h) => SeenAt(q, h)'
  BY DEF SeenAt, Rowed, Blobbed, Chunks, Man, Here
<1> QED BY <1>1, <1>2, <1>3, <1>4, <1>5 DEF SoundAt

LEMMA SoundStep ==
    ASSUME IInv, BlankOK, SoundOK, Next, NEW h \in Hash
    PROVE  SoundAt(h)'
<1> SoundAt(h)
  BY DEF SoundOK
<1>1. ASSUME NEW r \in Req, Begin(r) PROVE SoundAt(h)'
  BY <1>1, BeginsKeep
<1>2. ASSUME NEW r \in Req, Handler(r) PROVE SoundAt(h)'
  <2>1. CASE Check(r) \/ DeleteFileRow(r) \/ InsertRow(r)
    BY <2>1, MovesKeep, StopsKeep, TakersKeep
  <2>2. CASE \/ Lookup(r) \/ Create(r) \/ CheckBase(r) \/ Fork(r) \/ SeeRow(r) \/ Number(r)
             \/ InsertVersion(r) \/ SetCurrent(r) \/ ChunkRow(r) \/ DeleteVersions(r)
             \/ EndPurge(r) \/ WriteBlob(r) \/ ChunkBlob(r)
    BY <2>2, MovesKeep
  <2>3. CASE Bump(r) \/ Rebump(r)
    BY <2>3, TakersKeep
  <2>4. CASE ChunkInsert(r)
    BY <2>4, SendersKeep
  <2>5. CASE SelectManifests(r)
    BY <2>5, SelectKeeps
  <2>6. CASE Release(r)
    BY <2>6, ReleaseKeeps
  <2>7. CASE DropRow(r) \/ DropBlob(r)
    BY <2>7, DeletersKeep
  <2> QED BY <1>2, <2>1, <2>2, <2>3, <2>4, <2>5, <2>6, <2>7 DEF Handler
<1>3. ASSUME NEW r \in Req, Abort(r) PROVE SoundAt(h)'
  BY <1>3, StopsKeep
<1>4. ASSUME NEW f \in FileId, DeleteFile(f) \/ TrashRestore(f) PROVE SoundAt(h)'
  BY <1>4, SoundStutters DEF DeleteFile, TrashRestore, history
<1>5. CASE SweepSelect
  BY <1>5, SweepSelectKeeps
<1>6. CASE SweepRow \/ SweepBlob
  BY <1>6, DeletersKeep
<1>7. CASE Crash
  BY <1>7, StopsKeep
<1> QED BY <1>1, <1>2, <1>3, <1>4, <1>5, <1>6, <1>7 DEF Next, Sweep

\* A request keeps its manifest, and gets it when it begins.
LEMMA BlankStep ==
    ASSUME IInv, BlankOK, Next, NEW q \in Req
    PROVE  BlankAt(q)'
<1> TypeOK /\ BlankAt(q) /\ PlaceAt(q)
  BY DEF IInv, BlankOK, PlaceOK
<1> USE Types DEF BlankAt, Sending, Man, Goto
<1>1. ASSUME NEW r \in Req, Begin(r) PROVE BlankAt(q)'
  <2>1. ASSUME NEW op \in {"upload", "finalize"}, NEW n \in Name, NEW man \in Content,
               NEW base \in Bases(n), BeginWrite(r, op, n, man, base)
        PROVE  BlankAt(q)'
    BY <2>1 DEF BeginWrite, LoopOr
  <2>2. ASSUME NEW h \in Hash, BeginChunk(r, h) PROVE BlankAt(q)'
    BY <2>2 DEF BeginChunk
  <2>3. ASSUME NEW v \in stored, BeginRestore(r, v) PROVE BlankAt(q)'
    BY <2>3 DEF BeginRestore
  <2>4. ASSUME NEW f \in FileId, BeginPurge(r, f) PROVE BlankAt(q)'
    BY <2>4 DEF BeginPurge
  <2> QED BY <1>1, <2>1, <2>2, <2>3, <2>4 DEF Begin
<1>2. ASSUME NEW r \in Req, Handler(r) PROVE BlankAt(q)'
  <2>1. CASE Check(r) \/ WriteBlob(r) \/ Bump(r) \/ Rebump(r) \/ InsertRow(r)
    <3>1. arg' = arg /\ (pc'[q] # pc[q] => pc'[q] \in {"check", "lookup", "write", "see", "number",
                                                       "rebump", "version", "done"})
          /\ (pc'[q] = "write" => pc[q] = "write")
      BY <2>1 DEF Check, WriteBlob, Bump, Rebump, InsertRow, AddRef, NextChunk, Stop
    <3>2. pc'[q] = "idle" => pc[q] = "idle"
      BY <3>1
    <3> QED BY <3>1, <3>2
  <2>2. CASE CheckBase(r) \/ Fork(r)
    <3>1. arg' = arg /\ (pc'[q] # pc[q] => q = r /\ pc'[r] \in {"fork", "done", Store(r)})
      BY <2>2 DEF CheckBase, Fork
    <3>2. Store(r) \in {"write", "see", "number"} /\ (Store(r) = "write" => arg[r].op = "upload")
      BY DEF Store, LoopOr
    <3> QED BY <3>1, <3>2
  <2>3. CASE Lookup(r) \/ Create(r) \/ SeeRow(r) \/ InsertVersion(r) \/ SetCurrent(r)
    BY <2>3 DEF Lookup, Create, SeeRow, InsertVersion, SetCurrent
  <2>4. CASE Number(r)
    BY <2>4 DEF Number, LoopOr
  <2>5. CASE ChunkRow(r) \/ ChunkBlob(r) \/ ChunkInsert(r)
    BY <2>5 DEF ChunkRow, ChunkBlob, ChunkInsert
  <2>6. CASE SelectManifests(r) \/ DeleteVersions(r) \/ DeleteFileRow(r) \/ EndPurge(r)
    BY <2>6 DEF SelectManifests, DeleteVersions, DeleteFileRow, EndPurge, Stop
  <2>7. CASE Release(r) \/ DropRow(r) \/ DropBlob(r)
    BY <2>7 DEF Release, DropRow, DropBlob
  <2> QED BY <1>2, <2>1, <2>2, <2>3, <2>4, <2>5, <2>6, <2>7 DEF Handler
<1>3. ASSUME NEW r \in Req, Abort(r) PROVE BlankAt(q)'
  BY <1>3 DEF Abort, Stop
<1>4. ASSUME NEW f \in FileId, DeleteFile(f) \/ TrashRestore(f) PROVE BlankAt(q)'
  BY <1>4 DEF DeleteFile, TrashRestore
<1>5. CASE Sweep
  BY <1>5 DEF Sweep, SweepSelect, SweepRow, SweepBlob
<1>6. CASE Crash
  BY <1>6 DEF Crash
<1> QED BY <1>1, <1>2, <1>3, <1>4, <1>5, <1>6 DEF Next

LEMMA SoundInvariance == Spec => [](IInv /\ BlankOK /\ SoundOK)
<1>1. Init => BlankOK /\ SoundOK
  <2> SUFFICES ASSUME Init PROVE BlankOK /\ SoundOK
    OBVIOUS
  <2>1. BlankOK
    BY DEF Init, BlankOK, BlankAt, Man, Sending
  <2>2. SoundOK
    <3>1. \A h : Held(h) = {} /\ ~Doomed(h)
      BY DEF Init, Held, Doomed
    <3> QED BY <3>1 DEF Init, SoundOK, SoundAt, ApartAt, OwedAt, CountedAt, SeenAt, Rowed, Blobbed, Active
  <2> QED BY <2>1, <2>2
<1>2. IInv /\ BlankOK /\ SoundOK /\ [Next]_vars => BlankOK' /\ SoundOK'
  <2> SUFFICES ASSUME IInv, BlankOK, SoundOK, [Next]_vars PROVE BlankOK' /\ SoundOK'
    OBVIOUS
  <2>1. CASE Next
    BY <2>1, BlankStep, SoundStep DEF BlankOK, SoundOK
  <2>2. CASE UNCHANGED vars
    <3>1. BlankOK'
      BY <2>2 DEF vars, BlankOK, BlankAt, Man
    <3>2. SoundOK'
      BY <2>2, SoundStutters DEF vars, history, SoundOK
    <3> QED BY <3>1, <3>2
  <2> QED BY <2>1, <2>2
<1> QED BY <1>1, <1>2, Start, Preserved, PTL DEF Spec

\* A chunk that a stored version lists has its row and its blob, for any number of
\* uploads, restores, purges and sweeps that fail or overlap, unless one that uses
\* it ran at the same time as one that deletes it, or the DELETE of its row failed
\* unseen (files.rs 150-174, trash.rs 202-245, gc.rs 19-72).
THEOREM StoredVersionsAreIntact == Spec => []IntactUnlessExcused
<1>1. IInv /\ SoundOK => IntactUnlessExcused
  <2> SUFFICES ASSUME IInv, SoundOK, NEW v \in stored, NEW h \in Chunks(v) \ (clash \cup hollow)
               PROVE  h \in rows /\ h \in blobs
    BY DEF IntactUnlessExcused
  <2> TypeOK /\ RefsOK
    BY DEF IInv
  <2>1. PICK i \in 1 .. Len(Man(v)) : Man(v)[i] = h
    BY DEF Chunks
  <2>2. v \in Req /\ i \in Nat /\ h \in Hash
    BY <2>1, Types
  <2>3. <<v, i>> \in refs
    BY <2>1, <2>2 DEF RefsOK, RefOK, Taken
  <2>4. Held(h) # {}
    BY <2>1, <2>3 DEF Held, ChunkAt
  <2> QED BY <2>2, <2>4 DEF SoundOK, SoundAt, CountedAt
<1> QED BY <1>1, SoundInvariance, PTL

-----------------------------------------------------------------------------
(***************************************************************************)
(* A request outside raced has its files row to itself while it runs, so   *)
(* the number it computed is still free when it inserts its version.       *)
(***************************************************************************)
Placed == {"base", "fork", "write", "see", "bump", "insert", "number",
           "rebump", "version", "current"}
Based  == {"write", "see", "bump", "insert", "number"}

\* A request has no file before it runs, and works on one that was created.
FiledAt(r) ==
    /\ pc[r] = "idle" => file[r] = NoFile
    /\ pc[r] \in Placed \/ r \in stored => file[r] # NoFile
    /\ file[r] # NoFile => files[file[r]].status # "none"

UnsharedAt(r) ==
    r \notin raced /\ Active(r) /\ file[r] # NoFile
        => \A q \in Req \ {r} : Active(q) => file[q] # file[r]

NumberAt(r) ==
    r \notin raced /\ pc[r] \in {"rebump", "version"}
        => \A v \in VersionsOf(file[r]) : num[v] < num[r]

BaseAt(r) ==
    /\ r \notin raced /\ arg[r].base # NoBase
    /\ file[r] # NoFile /\ files[file[r]].name # CopyName
    => /\ pc[r] \in Based => LastNo(file[r]) = arg[r].base
       /\ pc[r] \in {"rebump", "version"} \/ r \in stored => num[r] = arg[r].base + 1

AloneAt(r) == FiledAt(r) /\ UnsharedAt(r) /\ NumberAt(r) /\ BaseAt(r)
AloneOK == (\A r \in Req : AloneAt(r)) /\ NumbersDistinctUnlessRaced

LEMMA LastNoFrame ==
    ASSUME NEW f, VersionsOf(f)' = VersionsOf(f), \A v \in VersionsOf(f) : num'[v] = num[v]
    PROVE  LastNo(f)' = LastNo(f)
<1>1. {num'[v] : v \in VersionsOf(f)} = {num[v] : v \in VersionsOf(f)}
  OBVIOUS
<1> QED BY <1>1 DEF LastNo

\* The rows of files only gain names: a row that was created keeps its own.
Kept == \A f \in FileId : files[f].status # "none" =>
           files'[f].status # "none" /\ files'[f].name = files[f].name


\* A step in which requests only move on, or stop: nobody takes a file, a number
\* or a version.
MovesOn(q) ==
    \/ pc'[q] = pc[q]
    \/ Active(q) /\ pc'[q] \notin Placed \cup {"idle"}
    \/ /\ pc[q] \in Placed /\ pc'[q] \in Placed
       /\ pc'[q] \in {"rebump", "version"} => pc[q] \in {"rebump", "version"}
       /\ pc'[q] \in Based => pc[q] \in Based \/ arg[q].base \in {NoBase, LastNo(file[q])}

LEMMA AllMoveOn ==
    ASSUME TypeOK, PlaceOK, AloneOK, Kept, UNCHANGED <<arg, file, num, stored, raced>>,
           \A q \in Req : MovesOn(q)
    PROVE  AloneOK'
<1>1. ASSUME NEW q \in Req PROVE AloneAt(q)'
  <2>1. /\ AloneAt(q) /\ (file[q] # NoFile => file[q] \in FileId)
        /\ \A p \in Req : Active(p)' => Active(p)
    BY Types DEF AloneOK, Active, MovesOn, Placed
  <2>2. FiledAt(q)'
    BY <2>1 DEF AloneAt, FiledAt, Kept, MovesOn, Placed
  <2>3. UnsharedAt(q)'
    BY <2>1 DEF AloneAt, UnsharedAt
  <2>4. VersionsOf(file[q])' = VersionsOf(file[q]) /\ LastNo(file[q])' = LastNo(file[q])
    BY DEF VersionsOf, LastNo
  <2>5. NumberAt(q)'
    BY <2>1, <2>4 DEF AloneAt, NumberAt, MovesOn, Placed
  <2>6. BaseAt(q)'
    <3> SUFFICES ASSUME q \notin raced, arg[q].base # NoBase, file[q] # NoFile,
                        files'[file[q]].name # CopyName
                 PROVE  /\ pc'[q] \in Based => LastNo(file[q]) = arg[q].base
                        /\ pc'[q] \in {"rebump", "version"} \/ q \in stored => num[q] = arg[q].base + 1
      BY <2>4 DEF BaseAt
    <3>1. files[file[q]].name # CopyName
      BY <2>1 DEF AloneAt, FiledAt, Kept
    <3>2. pc'[q] \in Based => pc[q] \in Based \/ arg[q].base = LastNo(file[q])
      BY DEF MovesOn, Based, Placed
    <3>3. pc'[q] \in {"rebump", "version"} => pc[q] \in {"rebump", "version"}
      BY DEF MovesOn, Placed
    <3> QED BY <2>1, <3>1, <3>2, <3>3 DEF AloneAt, BaseAt
  <2> QED BY <2>2, <2>3, <2>5, <2>6 DEF AloneAt
<1>2. NumbersDistinctUnlessRaced'
  BY DEF AloneOK, NumbersDistinctUnlessRaced
<1> QED BY <1>1, <1>2 DEF AloneOK

\* A step of request r that takes a file, a number or a version: what it may
\* do to the others.
Works(r) ==
    /\ Kept /\ raced \subseteq raced'
    /\ \A q \in Req \ {r} : UNCHANGED <<arg[q], file[q], num[q], pc[q]>>
    /\ r \notin stored
    /\ \/ stored' = stored
       \/ Active(r) /\ UNCHANGED file /\ stored' \in {stored \cup {r}, stored \ VersionsOf(file[r])}
    /\ Active(r)' => \/ Active(r) /\ file'[r] = file[r]
                     \/ file'[r] = NoFile
                     \/ file'[r] \in FileId /\ files[file'[r]].status = "none"
                     \/ \A q \in Req \ {r} : Active(q) /\ file[q] = file'[r] => q \in raced'

LEMMA OthersKeep ==
    ASSUME TypeOK, AloneOK, NEW r \in Req, Works(r), NEW q \in Req \ {r}
    PROVE  AloneAt(q)'
<1>1. /\ AloneAt(q) /\ (file[q] # NoFile => file[q] \in FileId)
      /\ q \in stored' => q \in stored
  BY Types DEF AloneOK, Works
<1>2. FiledAt(q)'
  BY <1>1 DEF AloneAt, FiledAt, Works, Kept
<1> DEFINE alone == q \notin raced' /\ Active(q) /\ file[q] # NoFile
<1>3. alone => \A p \in Req \ {q} : Active(p)' => file'[p] # file[q]
  <2> SUFFICES ASSUME alone, NEW p \in Req \ {q}, Active(p)' PROVE file'[p] # file[q]
    OBVIOUS
  <2>1. \A x \in Req \ {q} : Active(x) => file[x] # file[q]
    BY <1>1 DEF AloneAt, UnsharedAt, Works
  <2>2. CASE p # r
    BY <2>1, <2>2 DEF Works, Active
  <2>3. CASE p = r
    BY <1>1, <2>1, <2>3 DEF Works, AloneAt, FiledAt
  <2> QED BY <2>2, <2>3
<1>4. UnsharedAt(q)'
  BY <1>3 DEF UnsharedAt, Works, Active
<1>5. alone => /\ VersionsOf(file[q])' = VersionsOf(file[q])
               /\ \A v \in VersionsOf(file[q]) : num'[v] = num[v]
  <2> SUFFICES ASSUME alone PROVE /\ VersionsOf(file[q])' = VersionsOf(file[q])
                                  /\ \A v \in VersionsOf(file[q]) : num'[v] = num[v]
    OBVIOUS
  <2>1. Active(r) => file[r] # file[q]
    BY <1>1 DEF AloneAt, UnsharedAt, Works
  <2>2. \A v \in stored : v \in Req /\ v # r /\ file'[v] = file[v] /\ num'[v] = num[v]
    BY Types DEF Works
  <2>3. file'[q] = file[q]
    BY DEF Works
  <2>4. CASE stored' = stored
    BY <2>2, <2>3, <2>4 DEF VersionsOf
  <2>5. CASE Active(r) /\ UNCHANGED file /\ stored' \in {stored \cup {r}, stored \ VersionsOf(file[r])}
    BY <2>1, <2>2, <2>3, <2>5 DEF VersionsOf
  <2> QED BY <2>2, <2>4, <2>5 DEF Works, VersionsOf
<1>6. NumberAt(q)'
  BY <1>1, <1>5 DEF AloneAt, NumberAt, FiledAt, Works, Placed, Active
<1>7. BaseAt(q)'
  <2> SUFFICES ASSUME q \notin raced', arg[q].base # NoBase, file[q] # NoFile,
                      files'[file[q]].name # CopyName
               PROVE  /\ pc[q] \in Based => LastNo(file[q])' = arg[q].base
                      /\ pc[q] \in {"rebump", "version"} \/ q \in stored' => num[q] = arg[q].base + 1
    BY DEF BaseAt, Works
  <2>1. files[file[q]].name # CopyName /\ q \notin raced
    BY <1>1 DEF AloneAt, FiledAt, Works, Kept
  <2>2. pc[q] \in Based => LastNo(file[q])' = LastNo(file[q])
    BY <1>5, LastNoFrame DEF Based, Active, Works
  <2> QED BY <1>1, <2>1, <2>2 DEF AloneAt, BaseAt
<1> QED BY <1>2, <1>4, <1>6, <1>7 DEF AloneAt

LEMMA WorkKeeps ==
    ASSUME TypeOK, AloneOK, NEW r \in Req, Works(r), AloneAt(r)', stored' \subseteq stored
    PROVE  AloneOK'
<1>1. NumbersDistinctUnlessRaced'
  <2>1. \A v \in stored' : v \in stored /\ file'[v] = file[v] /\ num'[v] = num[v]
    BY Types DEF Works
  <2> QED BY <2>1 DEF AloneOK, NumbersDistinctUnlessRaced, Works
<1> QED BY <1>1, OthersKeep DEF AloneOK

LEMMA MoversKeep ==
    ASSUME IInv, AloneOK, NEW r \in Req,
           \/ Check(r) \/ CheckBase(r) \/ WriteBlob(r) \/ SeeRow(r) \/ Bump(r) \/ InsertRow(r)
           \/ Rebump(r) \/ SetCurrent(r) \/ ChunkRow(r) \/ ChunkBlob(r) \/ ChunkInsert(r)
           \/ SelectManifests(r) \/ DeleteFileRow(r) \/ Release(r) \/ DropRow(r) \/ DropBlob(r)
           \/ EndPurge(r) \/ Abort(r)
    PROVE  AloneOK'
<1> TypeOK /\ PlaceOK
  BY DEF IInv
<1> USE Types DEF Goto, MovesOn, Active, Placed, Based, Stop
<1> SUFFICES UNCHANGED <<arg, file, num, stored, raced>> /\ Kept /\ \A q \in Req : MovesOn(q)
  BY AllMoveOn
<1>1. UNCHANGED <<arg, file, num, stored, raced>>
  BY DEF Check, CheckBase, WriteBlob, SeeRow, Bump, InsertRow, Rebump, AddRef, SetCurrent, ChunkRow,
         ChunkBlob, ChunkInsert, SelectManifests, DeleteFileRow, Release, DropRow, DropBlob, EndPurge,
         Abort, history
<1>2. Kept
  <2>1. CASE SetCurrent(r)
    BY <2>1 DEF SetCurrent, Kept, TypeOK, DatabaseTypeOK
  <2>2. CASE DeleteFileRow(r)
    <3>1. files' \in {files, [files EXCEPT ![file[r]].status = "purged"]}
      <4> HIDE DEF Stop, Goto, MovesOn, Active, Placed, Based
      <4> QED BY <2>2 DEF DeleteFileRow
    <3>2. files \in [FileId -> [status : Status, name : Name \cup {CopyName}, cur : Req \cup {NoVersion}]]
      BY DEF TypeOK, DatabaseTypeOK
    <3>3. ASSUME NEW f \in FileId, files[f].status # "none"
          PROVE  files'[f].status # "none" /\ files'[f].name = files[f].name
      <4>1. files'[f] \in {files[f], [files[f] EXCEPT !.status = "purged"]}
        BY <3>1, <3>2
      <4> QED BY <3>2, <3>3, <4>1
    <3> QED BY <3>3 DEF Kept
  <2>3. CASE ~SetCurrent(r) /\ ~DeleteFileRow(r)
    <3>1. UNCHANGED files
      BY <2>3 DEF Check, CheckBase, WriteBlob, SeeRow, Bump, InsertRow, Rebump, AddRef, ChunkRow,
         ChunkBlob, ChunkInsert, SelectManifests, Release, DropRow, DropBlob, EndPurge, Abort
    <3> QED BY <3>1 DEF Kept
  <2> QED BY <2>1, <2>2, <2>3
<1>3. ASSUME NEW q \in Req PROVE MovesOn(q)
  <2>1. CASE q # r
    <3>1. CASE \/ Check(r) \/ WriteBlob(r) \/ Bump(r) \/ InsertRow(r) \/ Rebump(r)
      BY <2>1, <3>1, NextChunkMoves DEF Check, WriteBlob, Bump, InsertRow, Rebump
    <3>2. CASE ~(Check(r) \/ WriteBlob(r) \/ Bump(r) \/ InsertRow(r) \/ Rebump(r))
      BY <2>1, <3>2 DEF CheckBase, SeeRow, SetCurrent, ChunkRow, ChunkBlob, ChunkInsert, SelectManifests,
         DeleteFileRow, Release, DropRow, DropBlob, EndPurge, Abort
    <3> QED BY <3>1, <3>2
  <2>2. CASE q = r
    <3>1. CASE Check(r)
      BY <2>2, <3>1, NextChunkMoves DEF Check
    <3>2. CASE CheckBase(r)
      <4>1. pc[r] = "base" /\ (pc'[r] = "fork" \/ (pc'[r] = Store(r) /\ arg[r].base \in {NoBase, LastNo(file[r])}))
        BY <3>2 DEF CheckBase
      <4> QED BY <2>2, <4>1, StoreCases
    <3>3. CASE WriteBlob(r)
      BY <2>2, <3>3, NextChunkMoves DEF WriteBlob
    <3>4. CASE Bump(r)
      BY <2>2, <3>4, NextChunkMoves DEF Bump
    <3>5. CASE InsertRow(r)
      BY <2>2, <3>5, NextChunkMoves DEF InsertRow
    <3>6. CASE Rebump(r)
      BY <2>2, <3>6, NextChunkMoves DEF Rebump
    <3>7. CASE SeeRow(r) \/ SetCurrent(r) \/ ChunkRow(r) \/ ChunkBlob(r) \/ ChunkInsert(r) \/ Abort(r)
      BY <2>2, <3>7 DEF SeeRow, SetCurrent, ChunkRow, ChunkBlob, ChunkInsert, Abort
    <3>8. CASE SelectManifests(r) \/ DeleteFileRow(r) \/ Release(r) \/ DropRow(r) \/ DropBlob(r) \/ EndPurge(r)
      BY <2>2, <3>8 DEF SelectManifests, DeleteFileRow, Release, DropRow, DropBlob, EndPurge
    <3> QED BY <3>1, <3>2, <3>3, <3>4, <3>5, <3>6, <3>7, <3>8
  <2> QED BY <2>1, <2>2
<1> QED BY <1>1, <1>2, <1>3

\* A request that begins works alone on its file, or is raced.
LEMMA BeginnersKeep ==
    ASSUME IInv, AloneOK, NEW r \in Req, Begin(r)
    PROVE  AloneOK'
<1> TypeOK /\ PlaceOK /\ AloneAt(r)
  BY DEF IInv, AloneOK
<1>1. pc[r] = "idle"
  BY DEF Begin, BeginWrite, BeginChunk, BeginRestore, BeginPurge
<1>2. r \notin stored /\ file[r] = NoFile
  BY <1>1 DEF PlaceOK, PlaceAt, Settled, AloneAt, FiledAt
<1> \A f \in FileId : f # NoFile
  BY DEF FileId, NoFile
<1>3. /\ UNCHANGED <<files, stored, num>>
      /\ \A q \in Req \ {r} : arg'[q] = arg[q] /\ pc'[q] = pc[q]
      /\ pc'[r] \in {"check", "lookup", "chunkrow", "select"} \/ (pc'[r] = "number" /\ arg'[r].base = NoBase)
      /\ \/ UNCHANGED <<file, raced>> /\ pc'[r] # "number"
         \/ \E f \in FileId : /\ files[f].status # "none" /\ file' = [file EXCEPT ![r] = f]
                              /\ ShareFile(r, f)
  <2>1. /\ UNCHANGED <<files, stored, num>>
        /\ \A q \in Req \ {r} : arg'[q] = arg[q]
        /\ \E l \in Label : Goto(r, l) /\ (\/ l \in {"check", "lookup", "chunkrow", "select"}
                                           \/ (l = "number" /\ arg'[r].base = NoBase))
        /\ \/ UNCHANGED <<file, raced>> /\ pc'[r] # "number"
           \/ \E f \in FileId : /\ files[f].status # "none" /\ file' = [file EXCEPT ![r] = f]
                                /\ ShareFile(r, f)
    <3> USE Types DEF Goto, Label
    <3>1. ASSUME NEW op \in {"upload", "finalize"}, NEW n \in Name, NEW man \in Content,
                 NEW base \in Bases(n), BeginWrite(r, op, n, man, base)
          PROVE  <2>1!1 /\ <2>1!2 /\ <2>1!3 /\ <2>1!4
      BY <3>1 DEF BeginWrite, LoopOr
    <3>2. ASSUME NEW h \in Hash, BeginChunk(r, h)
          PROVE  <2>1!1 /\ <2>1!2 /\ <2>1!3 /\ <2>1!4
      BY <3>2 DEF BeginChunk
    <3>3. ASSUME NEW v \in stored, BeginRestore(r, v)
          PROVE  <2>1!1 /\ <2>1!2 /\ <2>1!3 /\ <2>1!4
      <4>1. file[v] \in FileId /\ files[file[v]].status = "live"
        BY <3>3 DEF BeginRestore, AloneOK, AloneAt, FiledAt
      <4> QED BY <3>3, <4>1 DEF BeginRestore
    <3>4. ASSUME NEW f \in FileId, BeginPurge(r, f)
          PROVE  <2>1!1 /\ <2>1!2 /\ <2>1!3 /\ <2>1!4
      BY <3>4 DEF BeginPurge
    <3> QED BY <3>1, <3>2, <3>3, <3>4 DEF Begin
  <2> QED BY <2>1, Types DEF Goto
<1>4. Works(r)
  <2>1. \A q \in Req \ {r} : file'[q] = file[q] /\ num'[q] = num[q]
    BY <1>3, Types
  <2>2. raced \subseteq raced'
    BY <1>3 DEF ShareFile
  <2>3. file'[r] = NoFile \/ \A q \in Req \ {r} : Active(q) /\ file[q] = file'[r] => q \in raced'
    BY <1>2, <1>3, Types DEF ShareFile
  <2> QED BY <1>2, <1>3, <2>1, <2>2, <2>3 DEF Works, Kept
<1>5. AloneAt(r)'
  <2>1. FiledAt(r)'
    BY <1>2, <1>3, Types DEF FiledAt, Placed
  <2>2. UnsharedAt(r)'
    BY <1>2, <1>3, Types DEF UnsharedAt, ShareFile, Active
  <2>3. NumberAt(r)' /\ BaseAt(r)'
    BY <1>2, <1>3 DEF NumberAt, BaseAt, Based
  <2> QED BY <2>1, <2>2, <2>3 DEF AloneAt
<1> QED BY <1>3, <1>4, <1>5, WorkKeeps

\* The handler finds or creates its file, computes its number, inserts its
\* version, or deletes those of a purged file.
LEMMA WorkersKeep ==
    ASSUME IInv, AloneOK, NEW r \in Req,
           Lookup(r) \/ Create(r) \/ Fork(r) \/ Number(r) \/ DeleteVersions(r)
    PROVE  AloneOK'
<1> TypeOK /\ PlaceOK /\ NumsBounded /\ AloneAt(r) /\ r \notin stored
  <2>1. PlaceAt(r) /\ AloneAt(r) /\ TypeOK /\ PlaceOK /\ NumsBounded
    BY DEF IInv, PlaceOK, AloneOK
  <2>2. pc[r] \in {"lookup", "create", "fork", "number", "unversion"}
    BY DEF Lookup, Create, Fork, Number, DeleteVersions
  <2> QED BY <2>1, <2>2 DEF PlaceAt, Settled
<1> \A f \in FileId : f # NoFile
  BY DEF FileId, NoFile
<1> USE Types DEF Goto
<1>1. CASE Lookup(r)
  <2>1. /\ UNCHANGED <<files, stored, num, arg>> /\ Active(r)
        /\ \A q \in Req \ {r} : pc'[q] = pc[q]
        /\ \/ pc'[r] = "create" /\ UNCHANGED <<file, raced>>
           \/ pc'[r] = "base" /\ \E f \in FileId : /\ files[f].status = "live" /\ ShareFile(r, f)
                                                  /\ file' = [file EXCEPT ![r] = f]
    BY <1>1 DEF Lookup, Live, Active
  <2>2. Works(r)
    <3>1. \A q \in Req \ {r} : file'[q] = file[q] /\ num'[q] = num[q]
      BY <2>1
    <3>2. raced \subseteq raced'
      BY <2>1 DEF ShareFile
    <3>3. file'[r] = file[r] \/ \A q \in Req \ {r} : Active(q) /\ file[q] = file'[r] => q \in raced'
      BY <2>1 DEF ShareFile
    <3> QED BY <2>1, <3>1, <3>2, <3>3 DEF Works, Kept
  <2>3. FiledAt(r)' /\ NumberAt(r)' /\ BaseAt(r)'
    BY <2>1 DEF AloneAt, FiledAt, NumberAt, BaseAt, Placed, Based, Active
  <2>4. UnsharedAt(r)'
    BY <2>1 DEF AloneAt, UnsharedAt, ShareFile, Active
  <2> QED BY <2>1, <2>2, <2>3, <2>4, WorkKeeps DEF AloneAt
<1>2. CASE Create(r) \/ (Fork(r) /\ Exists(file[r]))
  <2>1. PICK f \in FileId, n \in Name \cup {CopyName} :
            /\ files[f].status = "none" /\ file' = [file EXCEPT ![r] = f]
            /\ files' = [files EXCEPT ![f] = [status |-> "live", name |-> n, cur |-> NoVersion]]
            /\ (pc[r] = "create" /\ pc'[r] = "base") \/ n = CopyName
    <3>1. CASE Create(r)
      <4>1. arg[r].name \in Name \cup {CopyName}
        BY DEF TypeOK, RequestTypeOK
      <4> QED BY <3>1, <4>1 DEF Create, NewFile
    <3>2. CASE Fork(r) /\ Exists(file[r])
      BY <3>2 DEF Fork, NewFile
    <3> QED BY <1>2, <3>1, <3>2
  <2>2. /\ UNCHANGED <<arg, stored, num, raced>> /\ Active(r) /\ \A q \in Req \ {r} : pc'[q] = pc[q]
        /\ pc'[r] \in {"base", "write", "see", "number"}
    BY <1>2, StoreCases DEF Create, Fork, Active, history
  <2>3. Works(r)
    <3>1. \A q \in Req \ {r} : file'[q] = file[q]
      BY <2>1
    <3>2. Kept
      BY <2>1 DEF Kept, TypeOK, DatabaseTypeOK
    <3>3. file'[r] = f
      BY <2>1
    <3> QED BY <2>1, <2>2, <3>1, <3>2, <3>3 DEF Works
  <2>4. file'[r] = f /\ files'[f].status = "live" /\ files'[f].name = n /\ f # NoFile
    BY <2>1 DEF TypeOK, DatabaseTypeOK, FileId, NoFile
  <2>5. FiledAt(r)' /\ NumberAt(r)' /\ BaseAt(r)'
    BY <2>1, <2>2, <2>4 DEF FiledAt, NumberAt, BaseAt, Based
  <2>6. \A q \in Req \ {r} : file[q] # f
    BY <2>1, <2>4 DEF AloneOK, AloneAt, FiledAt
  <2>7. UnsharedAt(r)'
    BY <2>1, <2>4, <2>6 DEF UnsharedAt
  <2> QED BY <2>2, <2>3, <2>5, <2>7, WorkKeeps DEF AloneAt
<1>3. CASE Fork(r) /\ ~Exists(file[r])
  <2>1. /\ UNCHANGED <<arg, file, num, stored, raced, files>> /\ Active(r) /\ pc'[r] = "done"
        /\ \A q \in Req \ {r} : pc'[q] = pc[q]
    BY <1>3 DEF Fork, Active, history
  <2>2. \A q \in Req : MovesOn(q)
    BY <2>1 DEF MovesOn, Placed
  <2> QED BY <2>1, <2>2, AllMoveOn DEF Kept
<1>4. CASE Number(r)
  <2>1. /\ pc[r] = "number" /\ pc'[r] \in {"rebump", "version"}
        /\ \A q \in Req \ {r} : pc'[q] = pc[q] /\ num'[q] = num[q]
        /\ num'[r] = LastNo(file[r]) + 1
        /\ UNCHANGED <<files, stored, arg, file, raced>>
    BY <1>4, LoopOrCases DEF Number, history
  <2>2. Works(r)
    BY <2>1 DEF Works, Kept, Active
  <2>3. VersionsOf(file[r])' = VersionsOf(file[r]) /\ \A v \in VersionsOf(file[r]) : v \in Req \ {r}
    BY <2>1 DEF VersionsOf
  <2>4. NumberAt(r)'
    BY <2>1, <2>3, LastNoIsMax DEF NumberAt, VersionsOf
  <2>5. FiledAt(r)' /\ UnsharedAt(r)'
    BY <2>1 DEF AloneAt, FiledAt, UnsharedAt, Active, Placed
  <2>6. BaseAt(r)'
    BY <2>1 DEF AloneAt, BaseAt, Based
  <2> QED BY <2>1, <2>2, <2>4, <2>5, <2>6, WorkKeeps DEF AloneAt
<1>5. CASE DeleteVersions(r)
  <2>1. /\ pc[r] = "unversion" /\ pc'[r] = "unfile" /\ \A q \in Req \ {r} : pc'[q] = pc[q]
        /\ stored' = stored \ VersionsOf(file[r]) /\ UNCHANGED <<files, arg, file, num, raced>>
    BY <1>5 DEF DeleteVersions, history
  <2>2. Works(r)
    BY <2>1 DEF Works, Kept, Active
  <2>3. FiledAt(r)' /\ NumberAt(r)' /\ BaseAt(r)'
    BY <2>1 DEF AloneAt, FiledAt, NumberAt, BaseAt, Placed, Based
  <2>4. UnsharedAt(r)'
    BY <2>1 DEF AloneAt, UnsharedAt, Active
  <2> QED BY <2>1, <2>2, <2>3, <2>4, WorkKeeps DEF AloneAt
<1> QED BY <1>1, <1>2, <1>3, <1>4, <1>5

\* A version is inserted with a number that its file does not have yet.
LEMMA InsertKeeps ==
    ASSUME IInv, AloneOK, NEW r \in Req, InsertVersion(r)
    PROVE  AloneOK'
<1> TypeOK /\ PlaceOK /\ AloneAt(r) /\ pc[r] = "version" /\ r \notin stored
  BY DEF IInv, PlaceOK, PlaceAt, Settled, AloneOK, InsertVersion
<1>1. /\ UNCHANGED <<files, arg, file, num, raced>> /\ \A q \in Req \ {r} : pc'[q] = pc[q]
      /\ \/ pc'[r] = "done" /\ stored' = stored
         \/ pc'[r] = "current" /\ stored' = stored \cup {r}
  BY Types DEF InsertVersion, Goto, history
<1>2. Works(r)
  BY <1>1 DEF Works, Kept, Active
<1>3. AloneAt(r)'
  <2>1. FiledAt(r)' /\ NumberAt(r)' /\ BaseAt(r)'
    BY <1>1 DEF AloneAt, FiledAt, NumberAt, BaseAt, Placed, Based
  <2>2. UnsharedAt(r)'
    BY <1>1 DEF AloneAt, UnsharedAt, Active
  <2> QED BY <2>1, <2>2 DEF AloneAt
<1>4. NumbersDistinctUnlessRaced'
  <2> SUFFICES ASSUME NEW v \in stored', NEW w \in stored', v # w, file[v] = file[w], num[v] = num[w],
                      v \notin raced, w \notin raced
               PROVE  FALSE
    BY <1>1 DEF NumbersDistinctUnlessRaced
  <2>1. \A x \in stored : file[x] = file[r] /\ r \notin raced => num[x] < num[r]
    BY DEF AloneAt, NumberAt, VersionsOf
  <2>2. v \in Req /\ w \in Req /\ num[v] \in Nat
    BY <1>1, Types
  <2> QED BY <1>1, <2>1, <2>2 DEF AloneOK, NumbersDistinctUnlessRaced
<1> QED BY <1>2, <1>3, <1>4, OthersKeep DEF AloneOK

LEMMA AloneStep ==
    ASSUME IInv, AloneOK, [Next]_vars
    PROVE  AloneOK'
<1> TypeOK /\ PlaceOK
  BY DEF IInv
<1>1. ASSUME NEW r \in Req, Begin(r) PROVE AloneOK'
  BY <1>1, BeginnersKeep
<1>2. ASSUME NEW r \in Req, Handler(r) \/ Abort(r) PROVE AloneOK'
  BY <1>2, MoversKeep, WorkersKeep, InsertKeeps DEF Handler
<1>3. CASE \/ \E f \in FileId : DeleteFile(f) \/ TrashRestore(f)
           \/ Sweep \/ UNCHANGED vars
  <2>1. UNCHANGED <<arg, file, num, stored, raced, pc>>
    BY <1>3 DEF DeleteFile, TrashRestore, Sweep, SweepSelect, SweepRow, SweepBlob, vars, history
  <2>2. Kept
    <3>1. CASE UNCHANGED files
      BY <3>1 DEF Kept
    <3>2. ASSUME NEW f \in FileId, DeleteFile(f) \/ TrashRestore(f) PROVE Kept
      BY <3>2 DEF DeleteFile, TrashRestore, Kept, TypeOK, DatabaseTypeOK
    <3> QED BY <1>3, <3>1, <3>2 DEF Sweep, SweepSelect, SweepRow, SweepBlob, vars
  <2> QED BY <2>1, <2>2, AllMoveOn DEF MovesOn
<1>4. CASE Crash
  <2>1. UNCHANGED <<arg, file, num, stored, raced, files>>
    BY <1>4 DEF Crash, history
  <2>2. \A q \in Req : MovesOn(q)
    BY <1>4 DEF Crash, MovesOn, Placed
  <2> QED BY <2>1, <2>2, AllMoveOn DEF Kept
<1> QED BY <1>1, <1>2, <1>3, <1>4 DEF Next

LEMMA AloneInvariance == Spec => [](IInv /\ AloneOK)
<1>1. Init => AloneOK
  BY DEF Init, AloneOK, AloneAt, FiledAt, UnsharedAt, NumberAt, BaseAt, Placed, Based, Active,
         NumbersDistinctUnlessRaced
<1> QED BY <1>1, Start, Preserved, AloneStep, PTL DEF Spec

\* Two versions of a file never bear the same number, whatever conflicts, fails,
\* is purged or crashes in between, unless one of them was written while another
\* request worked on that file (files.rs 346-357: the number is read and used in
\* two statements).
THEOREM NumbersAreDistinct == Spec => []NumbersDistinctUnlessRaced
  BY AloneInvariance, PTL DEF AloneOK

\* An edit stored on the file it names follows the very version it was based on,
\* unless another request worked on the file meanwhile (files.rs 176-180).
THEOREM EditsFollowTheirBase == Spec => []EditFollowsBaseUnlessRaced
<1>1. IInv /\ AloneOK => EditFollowsBaseUnlessRaced
  BY Types DEF IInv, AloneOK, AloneAt, FiledAt, BaseAt, EditFollowsBaseUnlessRaced
<1> QED BY <1>1, AloneInvariance, PTL
=============================================================================
