--------------------------- MODULE TieringProofs ---------------------------
(***************************************************************************)
(* Machine-checked proofs about Tiering, for any number of chunks and      *)
(* handlers: its types, that a chunk written and not deleted keeps a copy  *)
(* unless it was promoted and demoted at a time, that at rest the copy is  *)
(* where a read looks for it, that a read fails only if it is crossed, and *)
(* that all of it implements the set of blobs of ChunkStore.               *)
(***************************************************************************)
EXTENDS Tiering, FiniteSetTheorems, TLAPS

-----------------------------------------------------------------------------
(***************************************************************************)
(* The inductive invariant.                                                *)
(***************************************************************************)
\* A demotion has a chunk and belongs to a pass; the size pass that runs one
\* has something left to count down; a handler that is not idle has a chunk; only
\* a reader that was told "hot" is misled.
Shape ==
    /\ move = "none" <=> down = NoHash
    /\ move # "none" => phase \in {"age", "size"}
    /\ move # "none" /\ phase = "size" => chaud > 0
    /\ \A p \in Proc : pc[p] # "idle" => on[p] \in Hash
    /\ \A p \in misled : pc[p] \in {"hot", "failed"}

\* Nobody writes, and nobody is promised, a chunk that is being deleted.
Alone ==
    /\ \A p \in Proc : pc[p] \in DeleteLabel => on[p] \notin kept
    /\ \A p, q \in Proc :
         pc[p] \in DeleteLabel /\ pc[q] \in WriteLabel => on[p] # on[q]

\* A write that nothing has crossed has its chunk to itself, and past the test
\* for the blob or the write of it, the blob is in the hot tier.
Stored == {"locate", "account"}
Uncrossed ==
    \A p \in Proc : pc[p] \in WriteLabel /\ p \notin crossed =>
        /\ down # on[p]
        /\ \A q \in Proc : on[q] = on[p] => pc[q] \notin LiftLabel
        /\ pc[p] \in Stored => on[p] \in hot

\* A chunk being promoted is not being demoted, unless it raced.
Apart == \A p \in Proc : pc[p] \in LiftLabel /\ down = on[p] => on[p] \in raced

\* A demotion deletes the hot blob of a chunk that is cold by then.
Copied == move = "del" => down \in cold \cup raced

\* The chunks a client may count on.
Claimed(h) == h \in kept \/ \E p \in Proc : on[p] = h /\ pc[p] \in Stored

\* A promotion deletes the cold blob of a chunk that is hot by then.
Lifted == \A p \in Proc : pc[p] = "drop" /\ Claimed(on[p]) => on[p] \in hot \cup raced

Backed == \A h \in Hash : Claimed(h) => h \in hot \cup cold \cup raced

IInv == TypeOK /\ Shape /\ Alone /\ Uncrossed /\ Apart /\ Copied /\ Lifted /\ Backed

-----------------------------------------------------------------------------
\* Each step keeps the types: the count of the hot tier is one of a finite set
\* of chunks, and the size pass counts down only what it has counted.
LEMMA TypesStep == IInv /\ [Next]_vars => TypeOK'
<1> SUFFICES ASSUME IInv, [Next]_vars PROVE TypeOK'
  OBVIOUS
<1> USE TieringAssumption DEF IInv, Shape, TypeOK, WriteLabel,
        LiftLabel, ReadLabel, DeleteLabel, Label, blobVars, rowVars,
        procVars, sweepVars, history
<1>1. ASSUME NEW p \in Proc, NEW h \in Hash,
             BeginWrite(p, h) \/ BeginRead(p, h) \/ BeginDelete(p, h)
      PROVE  TypeOK'
  BY <1>1 DEF BeginWrite, BeginRead, BeginDelete, Begin, StartMove, At,
         Moving, Goto, Fault
<1>2. ASSUME NEW p \in Proc,
             \/ WriteExists(p) \/ WritePut(p) \/ WriteLocate(p)
             \/ WriteAccount(p)
      PROVE  TypeOK'
  BY <1>2 DEF WriteExists, WritePut, WriteLocate, WriteAccount, Settle, Goto,
         Return, Leave, Fault
<1>3. ASSUME NEW p \in Proc,
             \/ ReadDirect(p) \/ ReadTier(p) \/ ReadHot(p)
             \/ ReadCold(p) \/ PromoteWrite(p) \/ PromoteDelete(p)
             \/ PromoteStamp(p) \/ Answer(p)
      PROVE  TypeOK'
  BY <1>3 DEF ReadDirect, ReadTier, ReadHot, ReadCold, PromoteWrite,
         PromoteDelete, PromoteStamp, Answer, Return, Goto, StartMove,
         Leave, Moving, At, Fault
<1>4. ASSUME NEW p \in Proc,
             Wipe(p) \/ Unlocate(p)
      PROVE  TypeOK'
  BY <1>4 DEF Wipe, Unlocate, Goto, Return, Leave, Fault
<1>5. ASSUME TotalHot
      PROVE  TypeOK'
  <2>1. HotRows \in SUBSET Hash /\ IsFiniteSet(Hash)
    BY DEF HotRows
  <2>2. IsFiniteSet(HotRows)
    BY <2>1, FS_Subset
  <2>3. Cardinality(HotRows) \in Nat
    BY <2>2, FS_CardinalityType
  <2> QED
    BY <1>5, <2>3 DEF TotalHot
<1>6. ASSUME DemoteRead
      PROVE  TypeOK'
  BY <1>6 DEF DemoteRead, StartMove, At, Picking, Moving, Fault
<1>7. ASSUME DemoteMark
      PROVE  TypeOK'
  BY <1>7 DEF DemoteMark
<1>8. ASSUME SweepByAge \/ EndByAge \/ SelectLot \/ EndLot
      PROVE  TypeOK'
  BY <1>8 DEF SweepByAge, EndByAge, SelectLot, EndLot, HotRows
<1>9. ASSUME DemoteWrite \/ DemoteDelete
      PROVE  TypeOK'
  BY <1>9 DEF DemoteWrite, DemoteDelete
<1>10. ASSUME SweepFails
      PROVE  TypeOK'
  <2>1. faults' \in 0 .. MaxFaults
    BY <1>10 DEF SweepFails, Fault
  <2>2. cut' \subseteq Hash
    BY <1>10 DEF SweepFails, Unmarked
  <2> QED
    BY <1>10, <2>1, <2>2 DEF SweepFails, Fault, StopSweep
<1>11. ASSUME Crash
      PROVE  TypeOK'
  <2>1. faults' \in 0 .. MaxFaults
    BY <1>11 DEF Crash, Fault
  <2>2. cut' \subseteq Hash
    BY <1>11 DEF Crash, Unmarked, Unstamped
  <2> QED
    BY <1>11, <2>1, <2>2 DEF Crash, Fault, StopSweep
<1>12. ASSUME NEW p \in Proc, Abort(p)
      PROVE  TypeOK'
  BY <1>12 DEF Abort, Return, Fault, Unstamped, Leave, Goto
<1>13. ASSUME NEW h \in Hash, Ages(h)
      PROVE  TypeOK'
  BY <1>13 DEF Ages
<1>14. ASSUME UNCHANGED vars
      PROVE  TypeOK'
  BY <1>14 DEF vars
<1> QED
  BY <1>1, <1>2, <1>3, <1>4, <1>5, <1>6, <1>7, <1>8, <1>9, <1>10, <1>11,
     <1>12, <1>13, <1>14
  DEF Next, Handler, Sweep

\* Demotions start with a chunk and within a pass (DemoteRead), and end with
\* neither.
LEMMA ShapeStep == IInv /\ [Next]_vars => Shape'
<1> SUFFICES ASSUME IInv, [Next]_vars PROVE Shape'
  OBVIOUS
<1> USE TieringAssumption DEF IInv, Shape, TypeOK, WriteLabel,
        LiftLabel, ReadLabel, DeleteLabel, Label, blobVars, rowVars,
        procVars, sweepVars, history
<1>1. ASSUME NEW p \in Proc, NEW h \in Hash,
             BeginWrite(p, h) \/ BeginRead(p, h) \/ BeginDelete(p, h)
      PROVE  Shape'
  BY <1>1 DEF BeginWrite, BeginRead, BeginDelete, Begin, StartMove, At,
         Moving, Goto
<1>2. ASSUME NEW p \in Proc,
             \/ WriteExists(p) \/ WritePut(p) \/ WriteLocate(p)
             \/ WriteAccount(p)
      PROVE  Shape'
  BY <1>2 DEF WriteExists, WritePut, WriteLocate, WriteAccount, Settle, Goto,
         Return, Leave
<1>3. ASSUME NEW p \in Proc,
             \/ ReadDirect(p) \/ ReadTier(p) \/ ReadHot(p)
             \/ ReadCold(p) \/ PromoteWrite(p) \/ PromoteDelete(p)
             \/ PromoteStamp(p) \/ Answer(p)
      PROVE  Shape'
  BY <1>3 DEF ReadDirect, ReadTier, ReadHot, ReadCold, PromoteWrite,
         PromoteDelete, PromoteStamp, Answer, Return, Goto, StartMove,
         Leave, Moving, At
<1>4. ASSUME NEW p \in Proc,
             Wipe(p) \/ Unlocate(p)
      PROVE  Shape'
  BY <1>4 DEF Wipe, Unlocate, Goto, Return, Leave
<1>5. ASSUME DemoteRead
      PROVE  Shape'
  BY <1>5 DEF DemoteRead, StartMove, At, Picking, Moving
<1>6. ASSUME DemoteMark
      PROVE  Shape'
  BY <1>6 DEF DemoteMark
<1>7. ASSUME \/ SweepByAge \/ EndByAge \/ TotalHot \/ SelectLot
             \/ EndLot
      PROVE  Shape'
  BY <1>7 DEF SweepByAge, EndByAge, TotalHot, SelectLot, EndLot, HotRows
<1>8. ASSUME DemoteWrite \/ DemoteDelete
      PROVE  Shape'
  BY <1>8 DEF DemoteWrite, DemoteDelete
<1>9. ASSUME NEW p \in Proc, Abort(p)
      PROVE  Shape'
  BY <1>9 DEF Abort, Return, Fault, Unstamped, Leave, Goto
<1>10. ASSUME SweepFails \/ Crash
      PROVE  Shape'
  BY <1>10 DEF SweepFails, Crash, Fault, StopSweep, Unmarked, Unstamped
<1>11. ASSUME NEW h \in Hash, Ages(h)
      PROVE  Shape'
  BY <1>11 DEF Ages
<1>12. ASSUME UNCHANGED vars
      PROVE  Shape'
  BY <1>12 DEF vars
<1> QED
  BY <1>1, <1>2, <1>3, <1>4, <1>5, <1>6, <1>7, <1>8, <1>9, <1>10, <1>11,
     <1>12
  DEF Next, Handler, Sweep

\* A write and a deletion of one chunk exclude each other, so what a write
\* promises is not being deleted.
LEMMA AloneStep == IInv /\ [Next]_vars => Alone'
<1> SUFFICES ASSUME IInv, [Next]_vars PROVE Alone'
  OBVIOUS
<1> USE DEF IInv, Shape, Alone, At, Stored, TypeOK, WriteLabel,
        LiftLabel, ReadLabel, DeleteLabel, Label, blobVars, rowVars,
        procVars, sweepVars, history
<1>1. ASSUME NEW p \in Proc, NEW h \in Hash, BeginWrite(p, h)
      PROVE  Alone'
  BY <1>1 DEF BeginWrite, Begin, StartMove, At, Goto, Moving
<1>2. ASSUME NEW p \in Proc, NEW h \in Hash, BeginDelete(p, h)
      PROVE  Alone'
  BY <1>2 DEF BeginDelete, Begin, At, Goto
<1>3. ASSUME NEW p \in Proc, NEW h \in Hash,
             BeginRead(p, h)
      PROVE  Alone'
  BY <1>3 DEF BeginRead, Begin, Moving, Goto, At
<1>4. ASSUME NEW p \in Proc, WriteAccount(p)
      PROVE  Alone'
  BY <1>4 DEF WriteAccount, Settle, Return, Leave, Goto
<1>5. ASSUME NEW p \in Proc,
             WriteExists(p) \/ WritePut(p) \/ WriteLocate(p)
      PROVE  Alone'
  BY <1>5 DEF WriteExists, WritePut, WriteLocate, Goto
<1>6. ASSUME NEW p \in Proc,
             \/ ReadDirect(p) \/ ReadTier(p) \/ ReadHot(p)
             \/ ReadCold(p) \/ PromoteWrite(p) \/ PromoteDelete(p)
             \/ PromoteStamp(p) \/ Answer(p)
      PROVE  Alone'
  BY <1>6 DEF ReadDirect, ReadTier, ReadHot, ReadCold, PromoteWrite,
         PromoteDelete, PromoteStamp, Answer, Return, Goto, StartMove,
         Leave, Moving, At
<1>7. ASSUME NEW p \in Proc,
             Wipe(p) \/ Unlocate(p)
      PROVE  Alone'
  BY <1>7 DEF Wipe, Unlocate, Goto, Return, Leave
<1>8. ASSUME \/ SweepByAge \/ EndByAge \/ TotalHot \/ SelectLot
             \/ EndLot
      PROVE  Alone'
  BY <1>8 DEF SweepByAge, EndByAge, TotalHot, SelectLot, EndLot, HotRows
<1>9. ASSUME DemoteRead \/ DemoteWrite \/ DemoteDelete \/ DemoteMark
      PROVE  Alone'
  BY <1>9 DEF DemoteRead, DemoteWrite, DemoteDelete, DemoteMark,
         StartMove, At, Picking, Moving
<1>10. ASSUME NEW p \in Proc, Abort(p)
      PROVE  Alone'
  BY <1>10 DEF Abort, Return, Fault, Unstamped, Leave, Goto
<1>11. ASSUME SweepFails \/ Crash
      PROVE  Alone'
  BY <1>11 DEF SweepFails, Crash, Fault, StopSweep, Unmarked, Unstamped
<1>12. ASSUME NEW h \in Hash, Ages(h)
      PROVE  Alone'
  BY <1>12 DEF Ages
<1>13. ASSUME UNCHANGED vars
      PROVE  Alone'
  BY <1>13 DEF vars
<1> QED
  BY <1>1, <1>2, <1>3, <1>4, <1>5, <1>6, <1>7, <1>8, <1>9, <1>10, <1>11,
     <1>12, <1>13
  DEF Next, Handler, Sweep

\* Whoever starts to move a chunk crosses the writes of it that are under way,
\* and a write that starts during a move is crossed at once.
LEMMA UncrossedStep == IInv /\ [Next]_vars => Uncrossed'
<1> SUFFICES ASSUME IInv, [Next]_vars PROVE Uncrossed'
  OBVIOUS
<1> USE TieringAssumption DEF IInv, Shape, Alone, Uncrossed, At,
        Stored, TypeOK, WriteLabel, LiftLabel, ReadLabel, DeleteLabel,
        Label, blobVars, rowVars, procVars, sweepVars, history
<1>1. ASSUME NEW p \in Proc, NEW h \in Hash, BeginWrite(p, h)
      PROVE  Uncrossed'
  BY <1>1 DEF BeginWrite, Begin, StartMove, At, Goto, Moving
<1>2. ASSUME NEW p \in Proc, NEW h \in Hash,
             BeginRead(p, h) \/ BeginDelete(p, h)
      PROVE  Uncrossed'
  BY <1>2 DEF BeginRead, BeginDelete, Begin, Moving, At, Goto
<1>3. ASSUME NEW p \in Proc, WriteExists(p)
      PROVE  Uncrossed'
  BY <1>3 DEF WriteExists, Goto
<1>4. ASSUME NEW p \in Proc,
             WritePut(p) \/ WriteLocate(p) \/ WriteAccount(p)
      PROVE  Uncrossed'
  BY <1>4 DEF WritePut, WriteLocate, WriteAccount, Settle, Goto, Return, Leave
<1>5. ASSUME NEW p \in Proc, ReadCold(p)
      PROVE  Uncrossed'
  BY <1>5 DEF ReadCold, Goto, StartMove, Moving, At
<1>6. ASSUME NEW p \in Proc,
             \/ ReadDirect(p) \/ ReadTier(p) \/ ReadHot(p)
             \/ PromoteWrite(p) \/ PromoteDelete(p) \/ PromoteStamp(p)
             \/ Answer(p)
      PROVE  Uncrossed'
  BY <1>6 DEF ReadDirect, ReadTier, ReadHot, PromoteWrite, PromoteDelete,
         PromoteStamp, Answer, Return, Goto, Leave
<1>7. ASSUME NEW p \in Proc, Wipe(p)
      PROVE  Uncrossed'
  BY <1>7 DEF Wipe, Goto
<1>8. ASSUME NEW p \in Proc,
             Unlocate(p)
      PROVE  Uncrossed'
  BY <1>8 DEF Unlocate, Return, Leave, Goto
<1>9. ASSUME DemoteRead
      PROVE  Uncrossed'
  BY <1>9 DEF DemoteRead, StartMove, At, Picking, Moving
<1>10. ASSUME DemoteDelete
      PROVE  Uncrossed'
  BY <1>10 DEF DemoteDelete
<1>11. ASSUME \/ SweepByAge \/ EndByAge \/ TotalHot \/ SelectLot
             \/ EndLot
      PROVE  Uncrossed'
  BY <1>11 DEF SweepByAge, EndByAge, TotalHot, SelectLot, EndLot, HotRows
<1>12. ASSUME DemoteWrite \/ DemoteMark
      PROVE  Uncrossed'
  BY <1>12 DEF DemoteWrite, DemoteMark
<1>13. ASSUME NEW p \in Proc, Abort(p)
      PROVE  Uncrossed'
  BY <1>13 DEF Abort, Return, Fault, Unstamped, Leave, Goto
<1>14. ASSUME SweepFails
      PROVE  Uncrossed'
  BY <1>14 DEF SweepFails, Fault, StopSweep, Unmarked
<1>15. ASSUME Crash
      PROVE  Uncrossed'
  BY <1>15 DEF Crash, Fault, StopSweep, Unstamped, Unmarked
<1>16. ASSUME NEW h \in Hash, Ages(h)
      PROVE  Uncrossed'
  BY <1>16 DEF Ages
<1>17. ASSUME UNCHANGED vars
      PROVE  Uncrossed'
  BY <1>17 DEF vars
<1> QED
  BY <1>1, <1>2, <1>3, <1>4, <1>5, <1>6, <1>7, <1>8, <1>9, <1>10, <1>11,
     <1>12, <1>13, <1>14, <1>15, <1>16, <1>17
  DEF Next, Handler, Sweep

\* A promotion and a demotion that meet have raced; a write clears that only
\* when neither is under way.
LEMMA ApartStep == IInv /\ [Next]_vars => Apart'
<1> SUFFICES ASSUME IInv, [Next]_vars PROVE Apart'
  OBVIOUS
<1> USE TieringAssumption DEF IInv, Shape, Uncrossed, Apart, At,
        Stored, TypeOK, WriteLabel, LiftLabel, ReadLabel, DeleteLabel,
        Label, blobVars, rowVars, procVars, sweepVars, history
<1>1. ASSUME NEW p \in Proc, NEW h \in Hash,
             BeginWrite(p, h) \/ BeginRead(p, h) \/ BeginDelete(p, h)
      PROVE  Apart'
  BY <1>1 DEF BeginWrite, BeginRead, BeginDelete, Begin, StartMove, At,
         Moving, Goto
<1>2. ASSUME NEW p \in Proc, WriteAccount(p)
      PROVE  Apart'
  BY <1>2 DEF WriteAccount, Settle, Return, Leave, Goto
<1>3. ASSUME NEW p \in Proc,
             WriteExists(p) \/ WritePut(p) \/ WriteLocate(p)
      PROVE  Apart'
  BY <1>3 DEF WriteExists, WritePut, WriteLocate, Goto
<1>4. ASSUME NEW p \in Proc, ReadCold(p)
      PROVE  Apart'
  BY <1>4 DEF ReadCold, Goto, StartMove, Moving, At
<1>5. ASSUME NEW p \in Proc,
             \/ ReadDirect(p) \/ ReadTier(p) \/ ReadHot(p)
             \/ PromoteWrite(p) \/ PromoteDelete(p) \/ PromoteStamp(p)
             \/ Answer(p)
      PROVE  Apart'
  BY <1>5 DEF ReadDirect, ReadTier, ReadHot, PromoteWrite, PromoteDelete,
         PromoteStamp, Answer, Return, Goto, Leave
<1>6. ASSUME NEW p \in Proc,
             Wipe(p) \/ Unlocate(p)
      PROVE  Apart'
  BY <1>6 DEF Wipe, Unlocate, Goto, Return, Leave
<1>7. ASSUME DemoteRead
      PROVE  Apart'
  BY <1>7 DEF DemoteRead, StartMove, At, Picking, Moving
<1>8. ASSUME \/ SweepByAge \/ EndByAge \/ TotalHot \/ SelectLot
             \/ EndLot
      PROVE  Apart'
  BY <1>8 DEF SweepByAge, EndByAge, TotalHot, SelectLot, EndLot, HotRows
<1>9. ASSUME DemoteWrite \/ DemoteDelete \/ DemoteMark
      PROVE  Apart'
  BY <1>9 DEF DemoteWrite, DemoteDelete, DemoteMark
<1>10. ASSUME NEW p \in Proc, Abort(p)
      PROVE  Apart'
  BY <1>10 DEF Abort, Return, Fault, Unstamped, Leave, Goto
<1>11. ASSUME SweepFails
      PROVE  Apart'
  BY <1>11 DEF SweepFails, Fault, StopSweep, Unmarked
<1>12. ASSUME Crash
      PROVE  Apart'
  BY <1>12 DEF Crash, Fault, StopSweep, Unstamped, Unmarked
<1>13. ASSUME NEW h \in Hash, Ages(h)
      PROVE  Apart'
  BY <1>13 DEF Ages
<1>14. ASSUME UNCHANGED vars
      PROVE  Apart'
  BY <1>14 DEF vars
<1> QED
  BY <1>1, <1>2, <1>3, <1>4, <1>5, <1>6, <1>7, <1>8, <1>9, <1>10, <1>11,
     <1>12, <1>13, <1>14
  DEF Next, Handler, Sweep

\* The cold copy that a demotion wrote is taken away by a promotion only.
LEMMA CopiedStep == IInv /\ [Next]_vars => Copied'
<1> SUFFICES ASSUME IInv, [Next]_vars PROVE Copied'
  OBVIOUS
<1> USE DEF IInv, Shape, Uncrossed, Apart, Copied, At, Stored, TypeOK,
        WriteLabel, LiftLabel, ReadLabel, DeleteLabel, Label, blobVars,
        rowVars, procVars, sweepVars, history
<1>1. ASSUME NEW p \in Proc, NEW h \in Hash,
             BeginWrite(p, h) \/ BeginRead(p, h) \/ BeginDelete(p, h)
      PROVE  Copied'
  BY <1>1 DEF BeginWrite, BeginRead, BeginDelete, Begin, StartMove, At,
         Moving, Goto
<1>2. ASSUME NEW p \in Proc, WriteAccount(p)
      PROVE  Copied'
  BY <1>2 DEF WriteAccount, Settle, Return, Leave, Goto
<1>3. ASSUME NEW p \in Proc,
             WriteExists(p) \/ WritePut(p) \/ WriteLocate(p)
      PROVE  Copied'
  BY <1>3 DEF WriteExists, WritePut, WriteLocate, Goto
<1>4. ASSUME NEW p \in Proc, PromoteDelete(p)
      PROVE  Copied'
  BY <1>4 DEF PromoteDelete, Goto
<1>5. ASSUME NEW p \in Proc,
             \/ ReadDirect(p) \/ ReadTier(p) \/ ReadHot(p)
             \/ ReadCold(p) \/ PromoteWrite(p) \/ PromoteStamp(p)
             \/ Answer(p)
      PROVE  Copied'
  BY <1>5 DEF ReadDirect, ReadTier, ReadHot, ReadCold, PromoteWrite,
         PromoteStamp, Answer, Return, Goto, StartMove, Leave, Moving, At
<1>6. ASSUME NEW p \in Proc,
             Wipe(p) \/ Unlocate(p)
      PROVE  Copied'
  BY <1>6 DEF Wipe, Unlocate, Goto, Return, Leave
<1>7. ASSUME DemoteWrite
      PROVE  Copied'
  BY <1>7 DEF DemoteWrite
<1>8. ASSUME \/ SweepByAge \/ EndByAge \/ TotalHot \/ SelectLot
             \/ EndLot
      PROVE  Copied'
  BY <1>8 DEF SweepByAge, EndByAge, TotalHot, SelectLot, EndLot, HotRows
<1>9. ASSUME DemoteRead \/ DemoteDelete \/ DemoteMark
      PROVE  Copied'
  BY <1>9 DEF DemoteRead, DemoteDelete, DemoteMark, StartMove, At,
         Picking, Moving
<1>10. ASSUME NEW p \in Proc, Abort(p)
      PROVE  Copied'
  BY <1>10 DEF Abort, Return, Fault, Unstamped, Leave, Goto
<1>11. ASSUME SweepFails \/ Crash
      PROVE  Copied'
  BY <1>11 DEF SweepFails, Crash, Fault, StopSweep, Unmarked, Unstamped
<1>12. ASSUME NEW h \in Hash, Ages(h)
      PROVE  Copied'
  BY <1>12 DEF Ages
<1>13. ASSUME UNCHANGED vars
      PROVE  Copied'
  BY <1>13 DEF vars
<1> QED
  BY <1>1, <1>2, <1>3, <1>4, <1>5, <1>6, <1>7, <1>8, <1>9, <1>10, <1>11,
     <1>12, <1>13
  DEF Next, Handler, Sweep

\* The hot copy that a promotion wrote is taken away by a demotion, or by a
\* deletion, after which nothing is claimed until a write has found or put it.
LEMMA LiftedStep == IInv /\ [Next]_vars => Lifted'
<1> SUFFICES ASSUME IInv, [Next]_vars PROVE Lifted'
  OBVIOUS
<1> USE DEF IInv, Shape, Alone, Uncrossed, Apart, Lifted, Claimed, At,
        Stored, TypeOK, WriteLabel, LiftLabel, ReadLabel, DeleteLabel,
        Label, blobVars, rowVars, procVars, sweepVars, history
<1>1. ASSUME NEW p \in Proc, NEW h \in Hash,
             BeginWrite(p, h) \/ BeginRead(p, h) \/ BeginDelete(p, h)
      PROVE  Lifted'
  BY <1>1 DEF BeginWrite, BeginRead, BeginDelete, Begin, StartMove, At,
         Moving, Goto
<1>2. ASSUME NEW p \in Proc, WriteExists(p)
      PROVE  Lifted'
  BY <1>2 DEF WriteExists, Goto
<1>3. ASSUME NEW p \in Proc, WriteAccount(p)
      PROVE  Lifted'
  BY <1>3 DEF WriteAccount, Settle, Return, Leave, Goto
<1>4. ASSUME NEW p \in Proc,
             WritePut(p) \/ WriteLocate(p)
      PROVE  Lifted'
  BY <1>4 DEF WritePut, WriteLocate, Goto
<1>5. ASSUME NEW p \in Proc, PromoteWrite(p)
      PROVE  Lifted'
  BY <1>5 DEF PromoteWrite, Goto
<1>6. ASSUME NEW p \in Proc,
             \/ ReadDirect(p) \/ ReadTier(p) \/ ReadHot(p)
             \/ ReadCold(p) \/ PromoteDelete(p) \/ PromoteStamp(p)
             \/ Answer(p)
      PROVE  Lifted'
  BY <1>6 DEF ReadDirect, ReadTier, ReadHot, ReadCold, PromoteDelete,
         PromoteStamp, Answer, Return, Goto, StartMove, Leave, Moving, At
<1>7. ASSUME NEW p \in Proc, Wipe(p)
      PROVE  Lifted'
  BY <1>7 DEF Wipe, Goto
<1>8. ASSUME NEW p \in Proc,
             Unlocate(p)
      PROVE  Lifted'
  BY <1>8 DEF Unlocate, Return, Leave, Goto
<1>9. ASSUME DemoteDelete
      PROVE  Lifted'
  BY <1>9 DEF DemoteDelete
<1>10. ASSUME \/ SweepByAge \/ EndByAge \/ TotalHot \/ SelectLot
             \/ EndLot
      PROVE  Lifted'
  BY <1>10 DEF SweepByAge, EndByAge, TotalHot, SelectLot, EndLot, HotRows
<1>11. ASSUME DemoteRead \/ DemoteWrite \/ DemoteMark
      PROVE  Lifted'
  BY <1>11 DEF DemoteRead, DemoteWrite, DemoteMark, StartMove, At,
         Picking, Moving
<1>12. ASSUME NEW p \in Proc, Abort(p)
      PROVE  Lifted'
  BY <1>12 DEF Abort, Return, Fault, Unstamped, Leave, Goto
<1>13. ASSUME SweepFails \/ Crash
      PROVE  Lifted'
  BY <1>13 DEF SweepFails, Crash, Fault, StopSweep, Unmarked, Unstamped
<1>14. ASSUME NEW h \in Hash, Ages(h)
      PROVE  Lifted'
  BY <1>14 DEF Ages
<1>15. ASSUME UNCHANGED vars
      PROVE  Lifted'
  BY <1>15 DEF vars
<1> QED
  BY <1>1, <1>2, <1>3, <1>4, <1>5, <1>6, <1>7, <1>8, <1>9, <1>10, <1>11,
     <1>12, <1>13, <1>14, <1>15
  DEF Next, Handler, Sweep

\* The two steps that delete a copy of a claimed chunk find the other one:
\* PromoteDelete by Lifted, DemoteDelete by Copied.
LEMMA BackedStep == IInv /\ [Next]_vars => Backed'
<1> SUFFICES ASSUME IInv, [Next]_vars PROVE Backed'
  OBVIOUS
<1> USE DEF IInv, Shape, Alone, Uncrossed, Apart, Copied, Lifted,
        Backed, Claimed, At, Stored, TypeOK, WriteLabel, LiftLabel,
        ReadLabel, DeleteLabel, Label, blobVars, rowVars, procVars,
        sweepVars, history
<1>1. ASSUME NEW p \in Proc, NEW h \in Hash,
             BeginWrite(p, h) \/ BeginRead(p, h) \/ BeginDelete(p, h)
      PROVE  Backed'
  BY <1>1 DEF BeginWrite, BeginRead, BeginDelete, Begin, StartMove, At,
         Moving, Goto
<1>2. ASSUME NEW p \in Proc, WriteExists(p)
      PROVE  Backed'
  BY <1>2 DEF WriteExists, Goto
<1>3. ASSUME NEW p \in Proc, WriteAccount(p)
      PROVE  Backed'
  BY <1>3 DEF WriteAccount, Settle, Return, Leave, Goto
<1>4. ASSUME NEW p \in Proc,
             WritePut(p) \/ WriteLocate(p)
      PROVE  Backed'
  BY <1>4 DEF WritePut, WriteLocate, Goto
<1>5. ASSUME NEW p \in Proc, PromoteDelete(p)
      PROVE  Backed'
  BY <1>5 DEF PromoteDelete, Goto
<1>6. ASSUME NEW p \in Proc,
             \/ ReadDirect(p) \/ ReadTier(p) \/ ReadHot(p)
             \/ ReadCold(p) \/ PromoteWrite(p) \/ PromoteStamp(p)
             \/ Answer(p)
      PROVE  Backed'
  BY <1>6 DEF ReadDirect, ReadTier, ReadHot, ReadCold, PromoteWrite,
         PromoteStamp, Answer, Return, Goto, StartMove, Leave, Moving, At
<1>7. ASSUME NEW p \in Proc, Wipe(p)
      PROVE  Backed'
  BY <1>7 DEF Wipe, Goto
<1>8. ASSUME NEW p \in Proc,
             Unlocate(p)
      PROVE  Backed'
  BY <1>8 DEF Unlocate, Return, Leave, Goto
<1>9. ASSUME DemoteDelete
      PROVE  Backed'
  BY <1>9 DEF DemoteDelete
<1>10. ASSUME \/ SweepByAge \/ EndByAge \/ TotalHot \/ SelectLot
             \/ EndLot
      PROVE  Backed'
  BY <1>10 DEF SweepByAge, EndByAge, TotalHot, SelectLot, EndLot, HotRows
<1>11. ASSUME DemoteRead \/ DemoteWrite \/ DemoteMark
      PROVE  Backed'
  BY <1>11 DEF DemoteRead, DemoteWrite, DemoteMark, StartMove, At,
         Picking, Moving
<1>12. ASSUME NEW p \in Proc, Abort(p)
      PROVE  Backed'
  BY <1>12 DEF Abort, Return, Fault, Unstamped, Leave, Goto
<1>13. ASSUME SweepFails \/ Crash
      PROVE  Backed'
  BY <1>13 DEF SweepFails, Crash, Fault, StopSweep, Unmarked, Unstamped
<1>14. ASSUME NEW h \in Hash, Ages(h)
      PROVE  Backed'
  BY <1>14 DEF Ages
<1>15. ASSUME UNCHANGED vars
      PROVE  Backed'
  BY <1>15 DEF vars
<1> QED
  BY <1>1, <1>2, <1>3, <1>4, <1>5, <1>6, <1>7, <1>8, <1>9, <1>10, <1>11,
     <1>12, <1>13, <1>14, <1>15
  DEF Next, Handler, Sweep

\* Nothing is stored, and nobody has begun.
LEMMA Start == Init => IInv
<1> SUFFICES ASSUME Init PROVE IInv
  OBVIOUS
<1>1. TypeOK
  <2>1. faults \in 0 .. MaxFaults
    BY TieringAssumption DEF Init
  <2>2. pc \in [Proc -> Label] /\ on \in [Proc -> Hash \cup {NoHash}]
    BY DEF Init, Label
  <2> QED
    BY <2>1, <2>2 DEF Init, TypeOK
<1>2. \A p \in Proc : pc[p] = "idle"
  BY DEF Init
<1>3. Shape /\ Copied
  BY <1>2 DEF Init, Shape, Copied
<1>4. Alone /\ Uncrossed /\ Apart
  BY <1>2 DEF Alone, Uncrossed, Apart, WriteLabel, LiftLabel, DeleteLabel
<1>5. Lifted /\ Backed
  BY <1>2 DEF Init, Lifted, Backed, Claimed, Stored
<1> QED
  BY <1>1, <1>3, <1>4, <1>5 DEF IInv

\* The invariant is inductive: each of its parts is kept by a step from a state
\* that has all of them.
LEMMA Preserved == IInv /\ [Next]_vars => IInv'
  BY TypesStep, ShapeStep, AloneStep, UncrossedStep, ApartStep, CopiedStep,
     LiftedStep, BackedStep
  DEF IInv

\* It holds in every state of the store.
LEMMA Invariance == Spec => []IInv
  BY Start, Preserved, PTL DEF Spec

-----------------------------------------------------------------------------
(***************************************************************************)
(* What is at rest: further parts of the invariant, about the chunks that  *)
(* no two moves have worked on at a time.                                  *)
(***************************************************************************)
Mover == WriteLabel \cup LiftLabel

\* Only handlers under way are crossed; a write that is has a chunk that is mixed,
\* and one that is not is the only write of its chunk.
Marked ==
    /\ \A p \in Proc : pc[p] = "idle" => p \notin crossed
    /\ \A p \in Proc : p \in crossed /\ pc[p] \in WriteLabel => on[p] \in mixed
    /\ \A p, q \in Proc :
         p \notin crossed /\ pc[p] \in WriteLabel /\ pc[q] \in WriteLabel /\ on[p] = on[q] => p = q

\* One move at a time works on a chunk that is not mixed.
Sole ==
    /\ \A p, q \in Proc :
         pc[p] \in Mover /\ pc[q] \in Mover /\ on[p] = on[q] /\ on[p] \notin mixed => p = q
    /\ \A p \in Proc : pc[p] \in Mover /\ down = on[p] => on[p] \in mixed

\* What the sweep has selected, and what it demotes, has a row that says hot.
Queue ==
    /\ \A h \in todo : tier[h] = "hot"
    /\ down \notin todo
    /\ move # "none" => tier[down] = "hot"

\* The blob is in the tier that the row names, but between the last storage call of
\* a move and its UPDATE; no move deletes a copy before it has made the other.
Settled(h) == IF tier[h] = "cold" THEN h \in cold ELSE h \in hot
Halted(h)  == (down = h /\ move = "mark") \/ \E p \in Proc : on[p] = h /\ pc[p] = "stamp"
Whole == \A h \in kept : h \notin mixed /\ h \notin cut =>
    /\ down = h => (move \in {"put", "del"} => h \in hot) /\ (move \in {"del", "mark"} => h \in cold)
    /\ \A p \in Proc : on[p] = h /\ pc[p] \in {"drop", "stamp"} => h \in hot
    /\ Settled(h) \/ Halted(h)

Orderly == IInv /\ Marked /\ Sole /\ Queue /\ Whole

\* A write begins uncrossed only where no other move is under way.
LEMMA MarkedStep == Orderly /\ [Next]_vars => Marked'
<1> SUFFICES ASSUME Orderly, [Next]_vars PROVE Marked'
  OBVIOUS
<1> USE TieringAssumption DEF Orderly, IInv, Shape, Marked,
        TypeOK, WriteLabel, LiftLabel, ReadLabel, DeleteLabel, Label,
        blobVars, rowVars, procVars, sweepVars, history
<1>1. ASSUME NEW p \in Proc, NEW h \in Hash, BeginWrite(p, h) PROVE Marked'
  BY <1>1 DEF BeginWrite, Begin, StartMove, At, Moving, Goto
<1>2. ASSUME NEW p \in Proc, NEW h \in Hash, BeginRead(p, h) \/ BeginDelete(p, h) PROVE Marked'
  BY <1>2 DEF BeginRead, BeginDelete, Begin, At, Moving, Goto
<1>3. ASSUME NEW p \in Proc, WriteExists(p) \/ WritePut(p) \/ WriteLocate(p) PROVE Marked'
  BY <1>3 DEF WriteExists, WritePut, WriteLocate, Goto
<1>4. ASSUME NEW p \in Proc, WriteAccount(p) PROVE Marked'
  BY <1>4 DEF WriteAccount, Settle, Return, Leave, Goto
<1>5. ASSUME NEW p \in Proc, ReadCold(p) PROVE Marked'
  BY <1>5 DEF ReadCold, Goto, StartMove, Moving, At
<1>6. ASSUME NEW p \in Proc, ReadDirect(p) \/ ReadTier(p) \/ ReadHot(p) \/ Answer(p) PROVE Marked'
  BY <1>6 DEF ReadDirect, ReadTier, ReadHot, Answer, Return, Goto, Leave
<1>7. ASSUME NEW p \in Proc, PromoteWrite(p) \/ PromoteDelete(p) \/ PromoteStamp(p) PROVE Marked'
  BY <1>7 DEF PromoteWrite, PromoteDelete, PromoteStamp, Return, Goto, Leave
<1>8. ASSUME NEW p \in Proc, Wipe(p) \/ Unlocate(p) PROVE Marked'
  BY <1>8 DEF Wipe, Unlocate, Goto, Return, Leave
<1>9. ASSUME DemoteRead PROVE Marked'
  BY <1>9 DEF DemoteRead, StartMove, At, Picking, Moving
<1>10. ASSUME DemoteWrite \/ DemoteDelete PROVE Marked'
  BY <1>10 DEF DemoteWrite, DemoteDelete
<1>11. ASSUME DemoteMark PROVE Marked'
  BY <1>11 DEF DemoteMark
<1>12. ASSUME SweepByAge \/ EndByAge \/ TotalHot \/ SelectLot \/ EndLot PROVE Marked'
  BY <1>12 DEF SweepByAge, EndByAge, TotalHot, SelectLot, EndLot, HotRows
<1>13. ASSUME NEW p \in Proc, Abort(p) PROVE Marked'
  BY <1>13 DEF Abort, Return, Fault, Unstamped, Leave, Goto
<1>14. ASSUME SweepFails PROVE Marked'
  BY <1>14 DEF SweepFails, Fault, StopSweep, Unmarked
<1>15. ASSUME Crash PROVE Marked'
  BY <1>15 DEF Crash, Fault, StopSweep, Unstamped, Unmarked
<1>16. ASSUME NEW h \in Hash, Ages(h) PROVE Marked'
  BY <1>16 DEF Ages
<1>17. ASSUME UNCHANGED vars PROVE Marked'
  BY <1>17 DEF vars
<1> QED
  BY <1>1, <1>2, <1>3, <1>4, <1>5, <1>6, <1>7, <1>8, <1>9, <1>10, <1>11, <1>12, <1>13, <1>14, <1>15, <1>16, <1>17
  DEF Next, Handler, Sweep

\* A second move of a chunk mixes it; a write clears that only when it was alone.
LEMMA SoleStep == Orderly /\ [Next]_vars => Sole'
<1> SUFFICES ASSUME Orderly, [Next]_vars PROVE Sole'
  OBVIOUS
<1> USE TieringAssumption DEF Orderly, IInv, Shape, Uncrossed, Marked, Sole, Mover,
        TypeOK, WriteLabel, LiftLabel, ReadLabel, DeleteLabel, Label,
        blobVars, rowVars, procVars, sweepVars, history
<1>1. ASSUME NEW p \in Proc, NEW h \in Hash, BeginWrite(p, h) PROVE Sole'
  BY <1>1 DEF BeginWrite, Begin, StartMove, At, Moving, Goto
<1>2. ASSUME NEW p \in Proc, NEW h \in Hash, BeginRead(p, h) \/ BeginDelete(p, h) PROVE Sole'
  BY <1>2 DEF BeginRead, BeginDelete, Begin, At, Moving, Goto
<1>3. ASSUME NEW p \in Proc, WriteExists(p) \/ WritePut(p) \/ WriteLocate(p) PROVE Sole'
  BY <1>3 DEF WriteExists, WritePut, WriteLocate, Goto
<1>4. ASSUME NEW p \in Proc, WriteAccount(p) PROVE Sole'
  BY <1>4 DEF WriteAccount, Settle, Return, Leave, Goto
<1>5. ASSUME NEW p \in Proc, ReadCold(p) PROVE Sole'
  BY <1>5 DEF ReadCold, Goto, StartMove, Moving, At
<1>6. ASSUME NEW p \in Proc, ReadDirect(p) \/ ReadTier(p) \/ ReadHot(p) \/ Answer(p) PROVE Sole'
  BY <1>6 DEF ReadDirect, ReadTier, ReadHot, Answer, Return, Goto, Leave
<1>7. ASSUME NEW p \in Proc, PromoteWrite(p) \/ PromoteDelete(p) \/ PromoteStamp(p) PROVE Sole'
  BY <1>7 DEF PromoteWrite, PromoteDelete, PromoteStamp, Return, Goto, Leave
<1>8. ASSUME NEW p \in Proc, Wipe(p) \/ Unlocate(p) PROVE Sole'
  BY <1>8 DEF Wipe, Unlocate, Goto, Return, Leave
<1>9. ASSUME DemoteRead PROVE Sole'
  BY <1>9 DEF DemoteRead, StartMove, At, Picking, Moving
<1>10. ASSUME DemoteWrite \/ DemoteDelete PROVE Sole'
  BY <1>10 DEF DemoteWrite, DemoteDelete
<1>11. ASSUME DemoteMark PROVE Sole'
  BY <1>11 DEF DemoteMark
<1>12. ASSUME SweepByAge \/ EndByAge \/ TotalHot \/ SelectLot \/ EndLot PROVE Sole'
  BY <1>12 DEF SweepByAge, EndByAge, TotalHot, SelectLot, EndLot, HotRows
<1>13. ASSUME NEW p \in Proc, Abort(p) PROVE Sole'
  BY <1>13 DEF Abort, Return, Fault, Unstamped, Leave, Goto
<1>14. ASSUME SweepFails PROVE Sole'
  BY <1>14 DEF SweepFails, Fault, StopSweep, Unmarked
<1>15. ASSUME Crash PROVE Sole'
  BY <1>15 DEF Crash, Fault, StopSweep, Unstamped, Unmarked
<1>16. ASSUME NEW h \in Hash, Ages(h) PROVE Sole'
  BY <1>16 DEF Ages
<1>17. ASSUME UNCHANGED vars PROVE Sole'
  BY <1>17 DEF vars
<1> QED
  BY <1>1, <1>2, <1>3, <1>4, <1>5, <1>6, <1>7, <1>8, <1>9, <1>10, <1>11, <1>12, <1>13, <1>14, <1>15, <1>16, <1>17
  DEF Next, Handler, Sweep

\* Rows turn cold only by the demotion of a chunk that is no longer selected.
LEMMA QueueStep == Orderly /\ [Next]_vars => Queue'
<1> SUFFICES ASSUME Orderly, [Next]_vars PROVE Queue'
  OBVIOUS
<1> USE TieringAssumption DEF Orderly, IInv, Shape, Queue,
        TypeOK, WriteLabel, LiftLabel, ReadLabel, DeleteLabel, Label,
        blobVars, rowVars, procVars, sweepVars, history
<1>1. ASSUME NEW p \in Proc, NEW h \in Hash, BeginWrite(p, h) PROVE Queue'
  BY <1>1 DEF BeginWrite, Begin, StartMove, At, Moving, Goto
<1>2. ASSUME NEW p \in Proc, NEW h \in Hash, BeginRead(p, h) \/ BeginDelete(p, h) PROVE Queue'
  BY <1>2 DEF BeginRead, BeginDelete, Begin, At, Moving, Goto
<1>3. ASSUME NEW p \in Proc, WriteExists(p) \/ WritePut(p) \/ WriteLocate(p) PROVE Queue'
  BY <1>3 DEF WriteExists, WritePut, WriteLocate, Goto
<1>4. ASSUME NEW p \in Proc, WriteAccount(p) PROVE Queue'
  BY <1>4 DEF WriteAccount, Settle, Return, Leave, Goto
<1>5. ASSUME NEW p \in Proc, ReadCold(p) PROVE Queue'
  BY <1>5 DEF ReadCold, Goto, StartMove, Moving, At
<1>6. ASSUME NEW p \in Proc, ReadDirect(p) \/ ReadTier(p) \/ ReadHot(p) \/ Answer(p) PROVE Queue'
  BY <1>6 DEF ReadDirect, ReadTier, ReadHot, Answer, Return, Goto, Leave
<1>7. ASSUME NEW p \in Proc, PromoteWrite(p) \/ PromoteDelete(p) \/ PromoteStamp(p) PROVE Queue'
  BY <1>7 DEF PromoteWrite, PromoteDelete, PromoteStamp, Return, Goto, Leave
<1>8. ASSUME NEW p \in Proc, Wipe(p) \/ Unlocate(p) PROVE Queue'
  BY <1>8 DEF Wipe, Unlocate, Goto, Return, Leave
<1>9. ASSUME DemoteRead PROVE Queue'
  BY <1>9 DEF DemoteRead, StartMove, At, Picking, Moving
<1>10. ASSUME DemoteWrite \/ DemoteDelete PROVE Queue'
  BY <1>10 DEF DemoteWrite, DemoteDelete
<1>11. ASSUME DemoteMark PROVE Queue'
  BY <1>11 DEF DemoteMark
<1>12. ASSUME SweepByAge \/ EndByAge \/ TotalHot \/ SelectLot \/ EndLot PROVE Queue'
  BY <1>12 DEF SweepByAge, EndByAge, TotalHot, SelectLot, EndLot, HotRows
<1>13. ASSUME NEW p \in Proc, Abort(p) PROVE Queue'
  BY <1>13 DEF Abort, Return, Fault, Unstamped, Leave, Goto
<1>14. ASSUME SweepFails PROVE Queue'
  BY <1>14 DEF SweepFails, Fault, StopSweep, Unmarked
<1>15. ASSUME Crash PROVE Queue'
  BY <1>15 DEF Crash, Fault, StopSweep, Unstamped, Unmarked
<1>16. ASSUME NEW h \in Hash, Ages(h) PROVE Queue'
  BY <1>16 DEF Ages
<1>17. ASSUME UNCHANGED vars PROVE Queue'
  BY <1>17 DEF vars
<1> QED
  BY <1>1, <1>2, <1>3, <1>4, <1>5, <1>6, <1>7, <1>8, <1>9, <1>10, <1>11, <1>12, <1>13, <1>14, <1>15, <1>16, <1>17
  DEF Next, Handler, Sweep

\* A chunk that is not mixed has one move at most, which copies, deletes and updates
\* in that order.
LEMMA WholeStep == Orderly /\ [Next]_vars => Whole'
<1> SUFFICES ASSUME Orderly, [Next]_vars PROVE Whole'
  OBVIOUS
<1> USE TieringAssumption DEF Orderly, IInv, Shape, Alone, Uncrossed, Stored, Marked, Sole, Mover, Queue, Whole, Settled, Halted,
        TypeOK, WriteLabel, LiftLabel, ReadLabel, DeleteLabel, Label,
        blobVars, rowVars, procVars, sweepVars, history
<1>1. ASSUME NEW p \in Proc, NEW h \in Hash, BeginWrite(p, h) PROVE Whole'
  BY <1>1 DEF BeginWrite, Begin, StartMove, At, Moving, Goto
<1>2. ASSUME NEW p \in Proc, NEW h \in Hash, BeginRead(p, h) \/ BeginDelete(p, h) PROVE Whole'
  BY <1>2 DEF BeginRead, BeginDelete, Begin, At, Moving, Goto
<1>3. ASSUME NEW p \in Proc, WriteExists(p) \/ WritePut(p) \/ WriteLocate(p) PROVE Whole'
  BY <1>3 DEF WriteExists, WritePut, WriteLocate, Goto
<1>4. ASSUME NEW p \in Proc, WriteAccount(p) PROVE Whole'
  BY <1>4 DEF WriteAccount, Settle, Return, Leave, Goto
<1>5. ASSUME NEW p \in Proc, ReadCold(p) PROVE Whole'
  BY <1>5 DEF ReadCold, Goto, StartMove, Moving, At
<1>6. ASSUME NEW p \in Proc, ReadDirect(p) \/ ReadTier(p) \/ ReadHot(p) \/ Answer(p) PROVE Whole'
  BY <1>6 DEF ReadDirect, ReadTier, ReadHot, Answer, Return, Goto, Leave
<1>7. ASSUME NEW p \in Proc, PromoteWrite(p) \/ PromoteDelete(p) \/ PromoteStamp(p) PROVE Whole'
  BY <1>7 DEF PromoteWrite, PromoteDelete, PromoteStamp, Return, Goto, Leave
<1>8. ASSUME NEW p \in Proc, Wipe(p) \/ Unlocate(p) PROVE Whole'
  BY <1>8 DEF Wipe, Unlocate, Goto, Return, Leave
<1>9. ASSUME DemoteRead PROVE Whole'
  BY <1>9 DEF DemoteRead, StartMove, At, Picking, Moving
<1>10. ASSUME DemoteWrite \/ DemoteDelete PROVE Whole'
  BY <1>10 DEF DemoteWrite, DemoteDelete
<1>11. ASSUME DemoteMark PROVE Whole'
  BY <1>11 DEF DemoteMark
<1>12. ASSUME SweepByAge \/ EndByAge \/ TotalHot \/ SelectLot \/ EndLot PROVE Whole'
  BY <1>12 DEF SweepByAge, EndByAge, TotalHot, SelectLot, EndLot, HotRows
<1>13. ASSUME NEW p \in Proc, Abort(p) PROVE Whole'
  BY <1>13 DEF Abort, Return, Fault, Unstamped, Leave, Goto
<1>14. ASSUME SweepFails PROVE Whole'
  BY <1>14 DEF SweepFails, Fault, StopSweep, Unmarked
<1>15. ASSUME Crash PROVE Whole'
  BY <1>15 DEF Crash, Fault, StopSweep, Unstamped, Unmarked
<1>16. ASSUME NEW h \in Hash, Ages(h) PROVE Whole'
  BY <1>16 DEF Ages
<1>17. ASSUME UNCHANGED vars PROVE Whole'
  BY <1>17 DEF vars
<1> QED
  BY <1>1, <1>2, <1>3, <1>4, <1>5, <1>6, <1>7, <1>8, <1>9, <1>10, <1>11, <1>12, <1>13, <1>14, <1>15, <1>16, <1>17
  DEF Next, Handler, Sweep

LEMMA OrderlyStart == Init => Orderly
<1> SUFFICES ASSUME Init PROVE Orderly
  OBVIOUS
<1>1. IInv
  BY Start
<1>2. /\ \A p \in Proc : pc[p] = "idle"
      /\ move = "none" /\ down = NoHash /\ todo = {} /\ kept = {} /\ crossed = {}
  BY DEF Init
<1>3. Marked /\ Sole /\ Queue /\ Whole
  BY <1>2 DEF Marked, Sole, Queue, Whole, Mover, WriteLabel, LiftLabel
<1> QED
  BY <1>1, <1>3 DEF Orderly

\* The stronger invariant is inductive too, and holds in every state.
LEMMA OrderlyAlways == Spec => []Orderly
<1>1. Orderly /\ [Next]_vars => Orderly'
  BY Preserved, MarkedStep, SoleStep, QueueStep, WholeStep DEF Orderly
<1> QED
  BY OrderlyStart, <1>1, PTL DEF Spec

-----------------------------------------------------------------------------
(***************************************************************************)
(* What a read was told of its chunk stays so until somebody crosses it.   *)
(***************************************************************************)
Asking  == {"direct", "tier", "hot", "cold"}
Certain == kept \ (mixed \cup cut)
Still == \A p \in Proc : pc[p] \in Asking /\ p \notin crossed => ~Moving(on[p])
ToldAt(p) == p \notin crossed \cup misled /\ on[p] \in Certain =>
    (pc[p] = "hot" => on[p] \in hot) /\ (pc[p] = "cold" => on[p] \in cold)
Told == \A p \in Proc : ToldAt(p)

\* Whoever moves a chunk crosses the reads of it.
LEMMA StillStep == Orderly /\ Still /\ [Next]_vars => Still'
<1> SUFFICES ASSUME Orderly, Still, [Next]_vars PROVE Still'
  OBVIOUS
<1> USE TieringAssumption DEF Orderly, IInv, Shape, Marked, Still, Asking, Moving, At,
        TypeOK, WriteLabel, LiftLabel, ReadLabel, DeleteLabel, Label,
        blobVars, rowVars, procVars, sweepVars, history
<1>1. ASSUME NEW p \in Proc, NEW h \in Hash, BeginWrite(p, h) PROVE Still'
  BY <1>1 DEF BeginWrite, Begin, StartMove, Goto
<1>2. ASSUME NEW p \in Proc, NEW h \in Hash, BeginRead(p, h) \/ BeginDelete(p, h) PROVE Still'
  BY <1>2 DEF BeginRead, BeginDelete, Begin, Goto
<1>3. ASSUME NEW p \in Proc, WriteExists(p) \/ WritePut(p) \/ WriteLocate(p) PROVE Still'
  BY <1>3 DEF WriteExists, WritePut, WriteLocate, Goto
<1>4. ASSUME NEW p \in Proc, WriteAccount(p) PROVE Still'
  BY <1>4 DEF WriteAccount, Settle, Return, Leave, Goto
<1>5. ASSUME NEW p \in Proc, ReadCold(p) PROVE Still'
  BY <1>5 DEF ReadCold, Goto, StartMove
<1>6. ASSUME NEW p \in Proc, ReadDirect(p) \/ ReadTier(p) \/ ReadHot(p) \/ Answer(p) PROVE Still'
  BY <1>6 DEF ReadDirect, ReadTier, ReadHot, Answer, Return, Goto, Leave
<1>7. ASSUME NEW p \in Proc, PromoteWrite(p) \/ PromoteDelete(p) \/ PromoteStamp(p) PROVE Still'
  BY <1>7 DEF PromoteWrite, PromoteDelete, PromoteStamp, Return, Goto, Leave
<1>8. ASSUME NEW p \in Proc, Wipe(p) \/ Unlocate(p) PROVE Still'
  BY <1>8 DEF Wipe, Unlocate, Goto, Return, Leave
<1>9. ASSUME DemoteRead PROVE Still'
  BY <1>9 DEF DemoteRead, StartMove, Picking
<1>10. ASSUME \/ DemoteWrite \/ DemoteDelete \/ DemoteMark
              \/ SweepByAge \/ EndByAge \/ TotalHot \/ SelectLot \/ EndLot
       PROVE  Still'
  BY <1>10 DEF DemoteWrite, DemoteDelete, DemoteMark, SweepByAge, EndByAge, TotalHot, SelectLot,
               EndLot, HotRows
<1>11. ASSUME NEW p \in Proc, Abort(p) PROVE Still'
  BY <1>11 DEF Abort, Return, Fault, Unstamped, Leave, Goto
<1>12. CASE SweepFails
  BY <1>12 DEF SweepFails, Fault, StopSweep, Unmarked
<1>13. CASE Crash
  BY <1>13 DEF Crash, Fault, StopSweep, Unstamped, Unmarked
<1>14. CASE UNCHANGED vars \/ \E h \in Hash : Ages(h)
  BY <1>14 DEF Ages, vars
<1> QED
  BY <1>1, <1>2, <1>3, <1>4, <1>5, <1>6, <1>7, <1>8, <1>9, <1>10, <1>11, <1>12, <1>13, <1>14
  DEF Next, Handler, Sweep

\* tier_of tells of a chunk at rest where it is, and nobody takes it away.
LEMMA ToldStep == Orderly /\ Still /\ Told /\ [Next]_vars => Told'
<1> SUFFICES ASSUME Orderly, Still, Told, [Next]_vars PROVE Told'
  OBVIOUS
<1> USE TieringAssumption DEF Orderly, IInv, Shape, Alone, Still, Asking, Moving, At, Told, ToldAt, Certain,
        TypeOK, WriteLabel, LiftLabel, ReadLabel, DeleteLabel, Label,
        blobVars, rowVars, procVars, sweepVars, history
<1>1. ASSUME NEW p \in Proc, NEW h \in Hash, BeginWrite(p, h) PROVE Told'
  BY <1>1 DEF BeginWrite, Begin, StartMove, Goto
<1>2. ASSUME NEW p \in Proc, NEW h \in Hash, BeginRead(p, h) \/ BeginDelete(p, h) PROVE Told'
  BY <1>2 DEF BeginRead, BeginDelete, Begin, Goto
<1>3. ASSUME NEW p \in Proc, WriteExists(p) \/ WritePut(p) \/ WriteLocate(p) PROVE Told'
  BY <1>3 DEF WriteExists, WritePut, WriteLocate, Goto
<1>4. ASSUME NEW p \in Proc, WriteAccount(p) PROVE Told'
  BY <1>4 DEF WriteAccount, Settle, Return, Leave, Goto
<1>5. ASSUME NEW p \in Proc, ReadCold(p) PROVE Told'
  BY <1>5 DEF ReadCold, Goto, StartMove
<1>6. ASSUME NEW p \in Proc, ReadTier(p) PROVE Told'
  <2>1. on[p] \in Certain /\ p \notin crossed /\ pc[p] = "tier" => Settled(on[p])
    BY <1>6 DEF Whole, Halted
  <2> QED BY <1>6, <2>1 DEF ReadTier, Goto, Settled
<1>7. ASSUME NEW p \in Proc, ReadDirect(p) \/ ReadHot(p) \/ Answer(p) PROVE Told'
  BY <1>7 DEF ReadDirect, ReadHot, Answer, Return, Goto, Leave
<1>8. ASSUME NEW p \in Proc, PromoteWrite(p) \/ PromoteDelete(p) \/ PromoteStamp(p) PROVE Told'
  BY <1>8 DEF PromoteWrite, PromoteDelete, PromoteStamp, Return, Goto, Leave
<1>9. ASSUME NEW p \in Proc, Wipe(p) \/ Unlocate(p) PROVE Told'
  BY <1>9 DEF Wipe, Unlocate, Goto, Return, Leave
<1>10. ASSUME DemoteRead PROVE Told'
  BY <1>10 DEF DemoteRead, StartMove, Picking
<1>11. ASSUME DemoteWrite \/ DemoteDelete \/ DemoteMark PROVE Told'
  BY <1>11 DEF DemoteWrite, DemoteDelete, DemoteMark
<1>12. CASE SweepByAge \/ EndByAge \/ TotalHot \/ SelectLot \/ EndLot
  BY <1>12 DEF SweepByAge, EndByAge, TotalHot, SelectLot, EndLot, HotRows
<1>13. ASSUME NEW p \in Proc, Abort(p) PROVE Told'
  BY <1>13 DEF Abort, Return, Fault, Unstamped, Leave, Goto
<1>14. CASE SweepFails
  BY <1>14 DEF SweepFails, Fault, StopSweep, Unmarked
<1>15. CASE Crash
  BY <1>15 DEF Crash, Fault, StopSweep, Unstamped, Unmarked
<1>16. CASE UNCHANGED vars \/ \E h \in Hash : Ages(h)
  BY <1>16 DEF Ages, vars
<1> QED
  BY <1>1, <1>2, <1>3, <1>4, <1>5, <1>6, <1>7, <1>8, <1>9, <1>10, <1>11, <1>12, <1>13, <1>14, <1>15, <1>16
  DEF Next, Handler, Sweep

LEMMA ToldAlways == Spec => [](Orderly /\ Still /\ Told)
<1>1. Init => Still /\ Told
  BY DEF Init, Still, Told, ToldAt, Asking, Certain
<1> QED
  BY <1>1, OrderlyStart, OrderlyAlways, StillStep, ToldStep, PTL DEF Spec

-----------------------------------------------------------------------------
\* The tiers, the rows of chunk_access and chunk_locations, the handlers and
\* the sweep keep their types: the size pass of storage.rs 708-833 never
\* counts the hot tier below zero.
THEOREM TierTypesAreKept == Spec => []TypeOK
<1>1. IInv => TypeOK
  BY DEF IInv
<1> QED
  BY Invariance, <1>1, PTL

\* However many chunks and handlers there are, and wherever a handler, the
\* sweep or the program stops, a chunk written and not deleted is in one of the
\* tiers (storage.rs 587-657), unless a promotion and a demotion of it overlap.
THEOREM KeptChunksHaveACopy == Spec => []KeptHasACopy
<1>1. IInv => KeptHasACopy
  BY DEF IInv, TypeOK, Backed, Claimed, KeptHasACopy
<1> QED
  BY Invariance, <1>1, PTL

\* However many chunks and handlers there are, and wherever anybody stops, a chunk
\* written and not deleted is at rest where a read looks for it (storage.rs 546-620),
\* unless two moves of it overlapped or its row missed the UPDATE of the last one.
THEOREM KeptChunksAreReadable == Spec => []KeptIsReadable
<1>1. Orderly => KeptIsReadable
  <2> SUFFICES ASSUME Orderly, NEW h \in kept \ (mixed \cup cut), ~Moving(h) PROVE Readable(h)
    BY DEF KeptIsReadable
  <2>1. Settled(h) \/ Halted(h)
    BY DEF Orderly, Whole
  <2>2. ~Halted(h)
    BY DEF Moving, At, Halted, LiftLabel
  <2> QED
    BY <2>1, <2>2 DEF Settled, Readable
<1> QED
  BY OrderlyAlways, <1>1, PTL

\* However many chunks and handlers there are, a read of a chunk written and not
\* deleted fails only if somebody moved the chunk between its questions (storage.rs
\* 546-620: the tier is asked before the blob is read), or if its own question for the
\* tier failed and was taken for "hot", unless moves of it overlapped or its row
\* missed the UPDATE of the last one.
THEOREM ReadsFailOnlyIfCrossed == Spec => ReadsFailOnlyWhenCrossed
<1>1. ASSUME Orderly, Still, Told, [Next]_vars, NEW p \in Proc,
             pc[p] # "failed", pc'[p] = "failed", on[p] \in kept \ (mixed \cup cut)
      PROVE  p \in crossed \cup misled
  <2>1. pc \in [Proc -> Label] /\ ToldAt(p)
    BY <1>1 DEF Orderly, IInv, TypeOK, Told
  <2>2. \/ pc[p] = "hot" /\ on[p] \notin hot
        \/ pc[p] = "cold" /\ on[p] \notin cold
    <3>1. ASSUME NEW q \in Proc, Handler(q)
          PROVE  <2>2
      BY <1>1, <2>1, <3>1
      DEF Handler, WriteExists, WritePut, WriteLocate, WriteAccount, ReadDirect, ReadTier, ReadHot,
          ReadCold, PromoteWrite, PromoteDelete, PromoteStamp, Answer, Wipe, Unlocate, Return, Leave, Goto
    <3>2. ASSUME NEW q \in Proc, Abort(q) \/ \E h \in Hash : BeginWrite(q, h) \/ BeginRead(q, h) \/ BeginDelete(q, h)
          PROVE  FALSE
      BY <1>1, <2>1, <3>2 DEF Abort, BeginWrite, BeginRead, BeginDelete, Begin, Return, Leave, Goto
    <3>3. CASE Sweep \/ SweepFails \/ Crash \/ UNCHANGED vars \/ \E h \in Hash : Ages(h)
      BY <1>1, <3>3 DEF Sweep, SweepByAge, EndByAge, TotalHot, SelectLot, EndLot, DemoteRead, DemoteWrite,
         DemoteDelete, DemoteMark, SweepFails, Crash, Ages, vars, procVars
    <3> QED BY <1>1, <3>1, <3>2, <3>3 DEF Next
  <2> QED BY <1>1, <2>1, <2>2 DEF ToldAt, Certain
<1>2. Orderly /\ Still /\ Told /\ [Next]_vars =>
        [\A p \in Proc :
           pc[p] # "failed" /\ pc'[p] = "failed" /\ on[p] \in kept \ (mixed \cup cut)
             => p \in crossed \cup misled]_vars
  BY <1>1
<1> QED BY <1>2, ToldAlways, PTL DEF Spec, ReadsFailOnlyWhenCrossed

-----------------------------------------------------------------------------
(***************************************************************************)
(* The store with two tiers implements ChunkStore.  The request of a       *)
(* handler is a function of its label, so a step that moves one handler    *)
(* changes one request.                                                    *)
(***************************************************************************)
LEMMA RequestsMove ==
  ASSUME pc \in [Proc -> Label], NEW p \in Proc, NEW l, pc' = [pc EXCEPT ![p] = l]
  PROVE  Requests' = [Requests EXCEPT ![p] = Request(l)]
<1>1. \A q \in Proc : pc'[q] = IF q = p THEN l ELSE pc[q]
  OBVIOUS
<1>2. \A q \in Proc : Request(pc'[q]) = IF q = p THEN Request(l) ELSE Request(pc[q])
  BY <1>1
<1> QED BY <1>2 DEF Requests

\* What each label is a request of.
LEMMA RequestOfLabel ==
  ASSUME NEW l \in Label
  PROVE  /\ Request(l) = "idle" <=> l = "idle"
         /\ Request(l) = "failed" <=> l = "failed"
         /\ Request(l) = "write" <=> l \in WriteLabel
         /\ Request(l) = "read" <=> l \in {"direct", "tier", "cold", "hot"}
         /\ Request(l) = "got" <=> l \in LiftLabel
         /\ Request(l) = "delete" <=> l \in DeleteLabel
<1>1. CASE l \in WriteLabel
  <2>1. Request(l) = "write"
    BY <1>1 DEF Request, WriteLabel, ReadLabel, LiftLabel, DeleteLabel
  <2> QED BY <1>1, <2>1 DEF WriteLabel, LiftLabel, DeleteLabel
<1>2. CASE l \in {"direct", "tier", "cold", "hot"}
  <2>1. Request(l) = "read"
    BY <1>2 DEF Request, WriteLabel, ReadLabel, LiftLabel, DeleteLabel
  <2> QED BY <1>2, <2>1 DEF WriteLabel, LiftLabel, DeleteLabel
<1>3. CASE l \in LiftLabel
  <2>1. Request(l) = "got"
    BY <1>3 DEF Request, WriteLabel, ReadLabel, LiftLabel, DeleteLabel
  <2> QED BY <1>3, <2>1 DEF WriteLabel, LiftLabel, DeleteLabel
<1>4. CASE l \in DeleteLabel
  <2>1. Request(l) = "delete"
    BY <1>4 DEF Request, WriteLabel, ReadLabel, LiftLabel, DeleteLabel
  <2> QED BY <1>4, <2>1 DEF WriteLabel, LiftLabel, DeleteLabel
<1>5. CASE l \in {"idle", "failed"}
  <2>1. Request(l) = l
    BY <1>5 DEF Request, WriteLabel, ReadLabel, LiftLabel, DeleteLabel
  <2> QED BY <1>5, <2>1 DEF WriteLabel, LiftLabel, DeleteLabel
<1> QED BY <1>1, <1>2, <1>3, <1>4, <1>5 DEF Label, ReadLabel, LiftLabel

LEMMA RequestsOf ==
  ASSUME pc \in [Proc -> Label], NEW p \in Proc
  PROVE  /\ Requests[p] = "idle" <=> pc[p] = "idle"
         /\ Requests[p] = "failed" <=> pc[p] = "failed"
         /\ Requests[p] = "write" <=> pc[p] \in WriteLabel
         /\ Requests[p] = "read" <=> pc[p] \in {"direct", "tier", "cold", "hot"}
         /\ Requests[p] = "got" <=> pc[p] \in LiftLabel
         /\ Requests[p] = "delete" <=> pc[p] \in DeleteLabel
<1>1. Requests[p] = Request(pc[p])
  BY DEF Requests
<1> QED BY <1>1, RequestOfLabel

\* Who works on a chunk, in the words of either module.
LEMMA WorkingIs ==
  ASSUME pc \in [Proc -> Label], NEW h
  PROVE  /\ Store!Working(h, {"write"}) <=> At(WriteLabel, h) # {}
         /\ Store!Working(h, {"got"}) <=> At(LiftLabel, h) # {}
         /\ Store!Working(h, {"delete"}) <=> At(DeleteLabel, h) # {}
         /\ Store!Working(h, {"write", "got"}) <=> At(WriteLabel \cup LiftLabel, h) # {}
BY RequestsOf DEF Store!Working, At

\* Where a move starts, others are crossed, and the chunk is in doubt only with
\* the reader that lifts it.
LEMMA MovesUnsettle ==
  ASSUME TypeOK, TypeOK', NEW h \in Hash, NEW movers \in SUBSET Proc, NEW opposed \in BOOLEAN,
         StartMove(h, movers, opposed), UNCHANGED <<misled, cut>>,
         Moving(h) => At(WriteLabel \cup LiftLabel, h)' # {},
         opposed => At(LiftLabel, h)' # {},
         \A p \in movers \cup At(Label \ {"idle", "failed"}, h) : pc'[p] # "idle"
  PROVE  Store!Unsettle
<1>1. /\ crossed \cup misled \subseteq (crossed \cup misled)'
      /\ \A p \in (crossed \cup misled)' \ (crossed \cup misled) : Requests'[p] # "idle"
  <2>1. \A p \in crossed' \ crossed : p \in Proc /\ pc'[p] # "idle"
    BY DEF StartMove, At
  <2>2. \A p \in Proc : Requests'[p] = "idle" <=> pc'[p] = "idle"
    <3>1. \A p \in Proc : Requests'[p] = Request(pc'[p]) /\ pc'[p] \in Label
      BY DEF Requests, TypeOK
    <3> QED BY <3>1, RequestOfLabel
  <2> QED BY <2>1, <2>2 DEF StartMove
<1>2. mixed \subseteq mixed' /\ \A k \in mixed' \ mixed : k = h /\ Moving(h)
  BY DEF StartMove
<1>3. raced \subseteq raced' /\ \A k \in raced' \ raced : k = h /\ opposed
  BY DEF StartMove
<1>4. \A p \in Proc : Requests'[p] = Request(pc'[p]) /\ pc'[p] \in Label
  BY DEF Requests, TypeOK
<1>5. \A p \in Proc : /\ Requests'[p] = "write" <=> pc'[p] \in WriteLabel
                      /\ Requests'[p] = "got" <=> pc'[p] \in LiftLabel
  BY <1>4, RequestOfLabel
<1>6. /\ At(WriteLabel \cup LiftLabel, h)' # {} => Store!Working(h, {"write", "got"})'
      /\ At(LiftLabel, h)' # {} => Store!Working(h, {"got"})'
  BY <1>5 DEF Store!Working, At
<1> QED BY <1>1, <1>2, <1>3, <1>6 DEF Store!Unsettle

\* write_chunk_bytes: a blob that is there already is a step nobody sees.
LEMMA WritesAreStoreSteps ==
  ASSUME IInv, IInv', NEW p \in Proc
  PROVE  /\ \A h \in Hash : BeginWrite(p, h) => Store!Write(p, h)
         /\ WritePut(p) => Store!Put(p)
         /\ WriteAccount(p) => Store!Written(p)
         /\ WriteExists(p) \/ WriteLocate(p) => UNCHANGED Store!vars
<1>1. pc \in [Proc -> Label] /\ TypeOK /\ TypeOK'
  BY DEF IInv, TypeOK
<1>2. ASSUME NEW h \in Hash, BeginWrite(p, h) PROVE Store!Write(p, h)
  <2>1. Requests' = [Requests EXCEPT ![p] = Request("exists")] /\ Requests[p] = "idle"
    BY <1>1, <1>2, RequestsMove, RequestsOf DEF BeginWrite, Begin, Goto
  <2>2. Request("exists") = "write"
    BY RequestOfLabel DEF Label, WriteLabel
  <2>3. ~Store!Working(h, {"delete"})
    BY <1>1, <1>2, WorkingIs DEF BeginWrite
  <2>4. Store!Unsettle
    <3>1. pc'[p] = "exists" /\ on'[p] = h /\ \A q \in Proc \ {p} : pc'[q] = pc[q] /\ on'[q] = on[q]
      BY <1>1, <1>2 DEF BeginWrite, Begin, Goto, TypeOK
    <3>2. At(WriteLabel \cup LiftLabel, h)' # {}
      BY <3>1 DEF At, WriteLabel
    <3>3. \A q \in {p} \cup At(Label \ {"idle", "failed"}, h) : pc'[q] # "idle"
      BY <3>1 DEF At
    <3> QED BY <1>1, <1>2, <3>2, <3>3, MovesUnsettle DEF BeginWrite
  <2>5. UNCHANGED <<hot \cup cold, kept>> /\ on' = [on EXCEPT ![p] = h]
    BY <1>2 DEF BeginWrite, Begin, blobVars
  <2> QED BY <2>1, <2>2, <2>3, <2>4, <2>5 DEF Store!Write, Store!Call, Store!contents
<1>3. ASSUME WritePut(p) PROVE Store!Put(p)
  <2>1. Requests' = [Requests EXCEPT ![p] = Request("locate")] /\ Requests[p] = "write"
    BY <1>1, <1>3, RequestsMove, RequestsOf DEF WritePut, Goto, WriteLabel
  <2>2. Request("locate") = "write" /\ Requests \in [Proc -> {Request(l) : l \in Label}]
    BY <1>1, RequestOfLabel DEF Label, WriteLabel, Requests
  <2>3. Requests' = Requests
    BY <2>1, <2>2
  <2> QED BY <1>3, <2>1, <2>3 DEF WritePut, Store!Put, Store!requests, Store!doubts, history
<1>4. ASSUME WriteAccount(p) PROVE Store!Written(p)
  <2>1. Requests' = [Requests EXCEPT ![p] = Request("idle")] /\ Requests[p] = "write"
    BY <1>1, <1>4, RequestsMove, RequestsOf DEF WriteAccount, Settle, Return, Leave, Goto, WriteLabel
  <2>2. Request("idle") = "idle"
    BY RequestOfLabel DEF Label
  <2>3. on[p] \in Hash /\ p \in Proc
    BY <1>4 DEF IInv, Shape, WriteAccount
  <2>4. p \notin misled
    BY <1>4 DEF IInv, Shape, WriteAccount
  <2>5. on[p] \in (hot \cup cold) \cup (raced \ (IF p \in crossed THEN {} ELSE {on[p]}))
    <3>1. Claimed(on[p])
      BY <1>4 DEF Claimed, WriteAccount, Stored
    <3>2. p \notin crossed => on[p] \in hot
      BY <1>4 DEF IInv, Uncrossed, WriteAccount, WriteLabel, Stored
    <3> QED BY <2>3, <3>1, <3>2 DEF IInv, Backed
  <2>6. LET settled == IF p \in crossed THEN {} ELSE {on[p]}
        IN  /\ (mixed \cup cut)' \in {(mixed \cup cut) \ settled, (mixed \cup cut) \cup settled}
            /\ raced' = raced \ settled
    BY <1>4 DEF WriteAccount, Settle
  <2>7. (crossed \cup misled)' = (crossed \cup misled) \ {p}
    BY <1>4 DEF WriteAccount, Return
  <2>8. p \in crossed \cup misled <=> p \in crossed
    BY <2>4
  <2> QED BY <1>4, <2>1, <2>2, <2>5, <2>6, <2>7, <2>8 DEF WriteAccount, Return, Leave, Store!Written, Store!Return, blobVars
<1>5. ASSUME WriteExists(p) \/ WriteLocate(p) PROVE UNCHANGED Store!vars
  <2>1. PICK l \in {"put", "locate", "account"} :
          Requests' = [Requests EXCEPT ![p] = Request(l)] /\ Requests[p] = "write"
    BY <1>1, <1>5, RequestsMove, RequestsOf DEF WriteExists, WriteLocate, Goto, WriteLabel
  <2>2. Request(l) = "write" /\ Requests \in [Proc -> {Request(k) : k \in Label}]
    BY <1>1, RequestOfLabel DEF Label, WriteLabel, Requests
  <2>3. Requests' = Requests
    BY <2>1, <2>2
  <2> QED BY <1>5, <2>3 DEF WriteExists, WriteLocate, Store!vars, Store!contents, Store!requests,
             Store!doubts, blobVars, history
<1> QED BY <1>2, <1>3, <1>4, <1>5

\* read_chunk_encrypted and read_legacy up to the promotion.
LEMMA ReadsAreStoreSteps ==
  ASSUME IInv, IInv', Still, Told, NEW p \in Proc
  PROVE  /\ \A h \in Hash : BeginRead(p, h) => Store!Read(p, h)
         /\ ReadDirect(p) => Store!Serve(p) \/ UNCHANGED Store!vars
         /\ ReadTier(p) => Store!Move \/ UNCHANGED Store!vars
         /\ ReadHot(p) => Store!Serve(p) \/ Store!Miss(p)
         /\ ReadCold(p) => Store!Get(p) \/ Store!Miss(p)
         /\ Answer(p) => Store!Answer(p)
<1>1. pc \in [Proc -> Label] /\ TypeOK /\ TypeOK'
  BY DEF IInv, TypeOK
<1>2. ASSUME NEW h \in Hash, BeginRead(p, h) PROVE Store!Read(p, h)
  <2>1. PICK l \in {"direct", "tier"} :
          Requests' = [Requests EXCEPT ![p] = Request(l)] /\ Requests[p] = "idle"
    BY <1>1, <1>2, RequestsMove, RequestsOf DEF BeginRead, Begin, Goto
  <2>2. Request(l) = "read"
    BY RequestOfLabel DEF Label, ReadLabel
  <2>3. Store!Unsettle
    <3>1. Requests'[p] = "read"
      BY <2>1, <2>2 DEF Requests
    <3> QED BY <1>2, <3>1 DEF BeginRead, Store!Unsettle
  <2> QED BY <1>2, <2>1, <2>2, <2>3 DEF BeginRead, Begin, Store!Read, Store!Call, Store!contents, blobVars
<1>3. ASSUME NEW l \in {"direct", "tier", "cold", "hot"}, pc[p] \in {"direct", "tier", "cold", "hot"}, Goto(p, l)
      PROVE  Requests' = Requests
  <2>1. Requests' = [Requests EXCEPT ![p] = Request(l)] /\ Requests[p] = "read"
    BY <1>1, <1>3, RequestsMove, RequestsOf DEF Goto
  <2>2. Request(l) = "read" /\ Requests \in [Proc -> {Request(k) : k \in Label}]
    BY <1>1, RequestOfLabel DEF Label, ReadLabel, Requests
  <2> QED BY <2>1, <2>2
<1>4. ASSUME pc[p] \in {"direct", "tier", "cold", "hot"}, Return(p), on[p] \in hot,
             UNCHANGED <<hot, cold, kept, mixed, cut, raced>>
      PROVE  Store!Serve(p)
  <2>1. Requests' = [Requests EXCEPT ![p] = Request("idle")] /\ Requests[p] = "read"
    BY <1>1, <1>4, RequestsMove, RequestsOf DEF Return, Leave, Goto
  <2>2. Request("idle") = "idle"
    BY RequestOfLabel DEF Label
  <2> QED BY <1>4, <2>1, <2>2 DEF Return, Leave, Store!Serve, Store!MayMisplace, Store!Return, Store!contents
<1>5. ASSUME pc[p] \in {"direct", "tier", "cold", "hot"}, Goto(p, "failed"),
             \/ pc[p] = "hot" /\ on[p] \notin hot
             \/ pc[p] = "cold" /\ on[p] \notin cold,
             UNCHANGED <<hot, cold, kept, on, crossed, misled, mixed, cut, raced>>
      PROVE  Store!Miss(p)
  <2>1. Requests' = [Requests EXCEPT ![p] = Request("failed")] /\ Requests[p] = "read"
    BY <1>1, <1>5, RequestsMove, RequestsOf DEF Goto
  <2>2. Request("failed") = "failed"
    BY RequestOfLabel DEF Label
  <2>3. on[p] \in kept => on[p] \in mixed \cup cut \/ p \in crossed \cup misled
    BY <1>5 DEF Told, ToldAt, Certain
  <2> QED BY <1>5, <2>1, <2>2, <2>3 DEF Store!Miss, Store!contents, Store!doubts
<1>6. ASSUME ReadDirect(p) PROVE Store!Serve(p) \/ UNCHANGED Store!vars
  <2>1. CASE on[p] \in hot /\ Return(p)
    BY <1>4, <1>6, <2>1 DEF ReadDirect, blobVars
  <2>2. CASE Goto(p, "tier") /\ UNCHANGED <<on, crossed, misled>>
    <3>1. Requests' = Requests
      BY <1>3, <1>6, <2>2 DEF ReadDirect
    <3> QED BY <1>6, <2>2, <3>1 DEF ReadDirect, Store!vars, Store!contents, Store!requests, Store!doubts, blobVars
  <2> QED BY <1>6, <2>1, <2>2 DEF ReadDirect
<1>7. ASSUME ReadTier(p) PROVE Store!Move \/ UNCHANGED Store!vars
  <2>1. Requests' = Requests
    BY <1>3, <1>7 DEF ReadTier
  <2>2. CASE UNCHANGED misled
    BY <1>7, <2>1, <2>2 DEF ReadTier, Store!vars, Store!contents, Store!requests, Store!doubts, blobVars
  <2>3. CASE misled' = misled \cup {p}
    <3>1. Requests'[p] # "idle"
      BY <1>1, <1>7, <2>1, RequestsOf DEF ReadTier
    <3> QED BY <1>7, <2>1, <2>3, <3>1 DEF ReadTier, Store!Move, Store!Unsettle, Store!contents, Store!requests, blobVars
  <2> QED BY <1>7, <2>2, <2>3 DEF ReadTier
<1>8. ASSUME ReadHot(p) PROVE Store!Serve(p) \/ Store!Miss(p)
  <2>1. CASE on[p] \in hot
    BY <1>4, <1>8, <2>1 DEF ReadHot, blobVars
  <2>2. CASE on[p] \notin hot
    BY <1>5, <1>8, <2>2 DEF ReadHot, blobVars
  <2> QED BY <2>1, <2>2
<1>9. ASSUME ReadCold(p) PROVE Store!Get(p) \/ Store!Miss(p)
  <2>1. CASE on[p] \notin cold
    BY <1>5, <1>9, <2>1 DEF ReadCold, blobVars
  <2>2. CASE on[p] \in cold
    <3>1. Requests' = [Requests EXCEPT ![p] = Request("lift")] /\ Requests[p] = "read"
      BY <1>1, <1>9, <2>2, RequestsMove, RequestsOf DEF ReadCold, Goto
    <3>2. Request("lift") = "got"
      BY RequestOfLabel DEF Label, ReadLabel, LiftLabel
    <3>3. Store!Unsettle
      <4>1. pc'[p] = "lift" /\ UNCHANGED on /\ \A q \in Proc \ {p} : pc'[q] = pc[q]
        BY <1>1, <1>9, <2>2 DEF ReadCold, Goto
      <4>2. At(LiftLabel, on[p])' # {} /\ At(WriteLabel \cup LiftLabel, on[p])' # {}
        BY <4>1 DEF At, LiftLabel
      <4>3. \A q \in {p} \cup At(Label \ {"idle", "failed"}, on[p]) : pc'[q] # "idle"
        BY <4>1 DEF At
      <4>4. on[p] \in Hash /\ StartMove(on[p], {p}, down = on[p]) /\ UNCHANGED <<misled, cut>>
        BY <1>1, <1>9, <2>2 DEF ReadCold, TypeOK
      <4> HIDE <1>9
      <4> QED BY <1>1, <4>1, <4>2, <4>3, <4>4, MovesUnsettle
    <3> QED BY <1>9, <2>2, <3>1, <3>2, <3>3 DEF ReadCold, Store!Get, Store!contents, blobVars
  <2> QED BY <2>1, <2>2
<1>10. ASSUME Answer(p) PROVE Store!Answer(p)
  <2>1. Requests' = [Requests EXCEPT ![p] = Request("idle")] /\ Requests[p] = "failed"
    BY <1>1, <1>10, RequestsMove, RequestsOf DEF Answer, Return, Leave, Goto
  <2>2. Request("idle") = "idle"
    BY RequestOfLabel DEF Label
  <2> QED BY <1>10, <2>1, <2>2 DEF Answer, Return, Leave, Store!Answer, Store!Return, Store!contents, blobVars
<1> QED BY <1>2, <1>6, <1>7, <1>8, <1>9, <1>10

\* A step that changes the copies of one chunk only.
LEMMA CopiesAreStoreSteps ==
  ASSUME IInv, IInv', NEW h \in Hash, \A k \in Hash \ {h} : k \in hot' \cup cold' <=> k \in hot \cup cold,
         UNCHANGED <<kept, Requests, on, crossed, misled, mixed, cut, raced>>
  PROVE  Store!Revive(h) \/ Store!Lose(h) \/ UNCHANGED Store!vars
<1>1. hot \cup cold \subseteq Hash /\ hot' \cup cold' \subseteq Hash
  BY DEF IInv, TypeOK
<1>2. /\ h \in kept \ raced => h \in hot \cup cold
      /\ h \in kept \ raced => h \in hot' \cup cold'
  BY DEF IInv, Backed, Claimed
<1>3. CASE h \in hot \cup cold <=> h \in hot' \cup cold'
  <2>1. hot' \cup cold' = hot \cup cold
    BY <1>1, <1>3
  <2> QED BY <2>1 DEF Store!vars, Store!contents, Store!requests, Store!doubts
<1>4. CASE h \notin hot \cup cold /\ h \in hot' \cup cold'
  <2>1. hot' \cup cold' = (hot \cup cold) \cup {h}
    BY <1>1, <1>4
  <2> QED BY <1>2, <1>4, <2>1 DEF Store!Revive, Store!requests, Store!doubts
<1>5. CASE h \in hot \cup cold /\ h \notin hot' \cup cold'
  <2>1. hot' \cup cold' = (hot \cup cold) \ {h}
    BY <1>1, <1>5
  <2> QED BY <1>2, <1>5, <2>1 DEF Store!Lose, Store!requests, Store!doubts
<1> QED BY <1>3, <1>4, <1>5

\* The promotion of read_legacy: copy, then delete, then the row.
LEMMA PromotionsAreStoreSteps ==
  ASSUME IInv, IInv', NEW p \in Proc
  PROVE  /\ PromoteWrite(p) \/ PromoteDelete(p) =>
              \/ \E h \in Hash : Store!Revive(h) \/ Store!Lose(h)
              \/ UNCHANGED Store!vars
         /\ PromoteStamp(p) => Store!Serve(p)
<1>1. pc \in [Proc -> Label]
  BY DEF IInv, TypeOK
<1>2. ASSUME PromoteWrite(p) \/ PromoteDelete(p)
      PROVE  Store!Revive(on[p]) \/ Store!Lose(on[p]) \/ UNCHANGED Store!vars
  <2>1. PICK l \in {"drop", "stamp"} :
          Requests' = [Requests EXCEPT ![p] = Request(l)] /\ Requests[p] = "got"
    BY <1>1, <1>2, RequestsMove, RequestsOf DEF PromoteWrite, PromoteDelete, Goto, LiftLabel
  <2>2. Request(l) = "got" /\ Requests \in [Proc -> {Request(k) : k \in Label}]
    BY <1>1, RequestOfLabel DEF Label, ReadLabel, LiftLabel, Requests
  <2>3. Requests' = Requests
    BY <2>1, <2>2
  <2>4. on[p] \in Hash
    BY <1>2 DEF IInv, Shape, PromoteWrite, PromoteDelete
  <2>5. \A k \in Hash \ {on[p]} : k \in hot' \cup cold' <=> k \in hot \cup cold
    BY <1>2 DEF PromoteWrite, PromoteDelete
  <2> QED BY <1>2, <2>3, <2>4, <2>5, CopiesAreStoreSteps DEF PromoteWrite, PromoteDelete, history
<1>3. ASSUME PromoteWrite(p) \/ PromoteDelete(p) PROVE on[p] \in Hash
  BY <1>3 DEF IInv, Shape, PromoteWrite, PromoteDelete
<1>4. ASSUME PromoteStamp(p) PROVE Store!Serve(p)
  <2>1. Requests' = [Requests EXCEPT ![p] = Request("idle")] /\ Requests[p] = "got"
    BY <1>1, <1>4, RequestsMove, RequestsOf DEF PromoteStamp, Return, Leave, Goto, LiftLabel
  <2>2. Request("idle") = "idle"
    BY RequestOfLabel DEF Label
  <2>3. Store!MayMisplace(p)
    BY <1>4, <2>1 DEF PromoteStamp, Store!MayMisplace
  <2> QED BY <1>4, <2>1, <2>2, <2>3 DEF PromoteStamp, Return, Leave, Store!Serve, Store!Return, Store!contents, blobVars
<1> QED BY <1>2, <1>3, <1>4

\* delete_chunk: a deletion that leaves the cold copy removes nothing.
LEMMA DeletionsAreStoreSteps ==
  ASSUME IInv, NEW p \in Proc
  PROVE  /\ \A h \in Hash : BeginDelete(p, h) => Store!Delete(p, h)
         /\ Wipe(p) => Store!Remove(p) \/ UNCHANGED Store!vars
         /\ Unlocate(p) => Store!Deleted(p)
<1>1. pc \in [Proc -> Label]
  BY DEF IInv, TypeOK
<1>2. ASSUME NEW h \in Hash, BeginDelete(p, h) PROVE Store!Delete(p, h)
  <2>1. Requests' = [Requests EXCEPT ![p] = Request("wipe")] /\ Requests[p] = "idle"
    BY <1>1, <1>2, RequestsMove, RequestsOf DEF BeginDelete, Begin, Goto
  <2>2. Request("wipe") = "delete"
    BY RequestOfLabel DEF Label, DeleteLabel
  <2>3. ~Store!Working(h, {"write"})
    BY <1>1, <1>2, WorkingIs DEF BeginDelete
  <2> QED BY <1>2, <2>1, <2>2, <2>3 DEF BeginDelete, Begin, Store!Delete, Store!Call, Store!doubts, blobVars
<1>3. ASSUME Wipe(p) PROVE Store!Remove(p) \/ UNCHANGED Store!vars
  <2>1. Requests' = [Requests EXCEPT ![p] = Request("unlocate")] /\ Requests[p] = "delete"
    BY <1>1, <1>3, RequestsMove, RequestsOf DEF Wipe, Goto, DeleteLabel
  <2>2. Request("unlocate") = "delete" /\ Requests \in [Proc -> {Request(k) : k \in Label}]
    BY <1>1, RequestOfLabel DEF Label, DeleteLabel, Requests
  <2>3. Requests' = Requests
    BY <2>1, <2>2
  <2>4. CASE on[p] \in cold \/ hot' = hot
    <3>1. hot' \cup cold' = hot \cup cold
      BY <1>3, <2>4 DEF Wipe
    <3> QED BY <1>3, <2>3, <3>1 DEF Wipe, Store!vars, Store!contents, Store!requests, Store!doubts, history
  <2>5. CASE on[p] \notin cold /\ hot' # hot
    <3>1. hot' \cup cold' = (hot \cup cold) \ {on[p]}
      BY <1>3, <2>5 DEF Wipe
    <3> QED BY <1>3, <2>1, <2>3, <3>1 DEF Wipe, Store!Remove, Store!requests, Store!doubts, history
  <2> QED BY <2>4, <2>5
<1>4. ASSUME Unlocate(p) PROVE Store!Deleted(p)
  <2>1. Requests' = [Requests EXCEPT ![p] = Request("idle")] /\ Requests[p] = "delete"
    BY <1>1, <1>4, RequestsMove, RequestsOf DEF Unlocate, Return, Leave, Goto, DeleteLabel
  <2>2. Request("idle") = "idle"
    BY RequestOfLabel DEF Label
  <2> QED BY <1>4, <2>1, <2>2 DEF Unlocate, Return, Leave, Store!Deleted, Store!Return, Store!contents, blobVars
<1> QED BY <1>2, <1>3, <1>4

\* run_tiering_sweep: a demotion copies and deletes as a promotion does.
LEMMA SweepIsStoreSteps ==
  ASSUME IInv, IInv', Sweep \/ \E h \in Hash : Ages(h)
  PROVE  \/ \E h \in Hash : Store!Revive(h) \/ Store!Lose(h)
         \/ Store!Move
         \/ UNCHANGED Store!vars
<1>1. TypeOK /\ TypeOK'
  BY DEF IInv
<1>2. ASSUME DemoteRead PROVE Store!Move \/ UNCHANGED Store!vars
  <2>1. Requests' = Requests
    BY <1>2 DEF DemoteRead, procVars, Requests
  <2>2. CASE UNCHANGED <<crossed, misled, mixed, raced>>
    BY <1>2, <2>1, <2>2 DEF DemoteRead, Store!vars, Store!contents, Store!requests, Store!doubts, blobVars, procVars
  <2>3. ASSUME NEW h \in Hash, StartMove(h, {}, At(LiftLabel, h) # {}) PROVE Store!Move
    <3>1. down = NoHash /\ UNCHANGED <<pc, on, misled, cut, kept, hot, cold>>
      BY <1>2 DEF DemoteRead, IInv, Shape, blobVars, procVars
    <3>2. Moving(h) => At(WriteLabel \cup LiftLabel, h)' # {}
      BY <3>1, TieringAssumption DEF Moving, At
    <3>3. At(LiftLabel, h) # {} => At(LiftLabel, h)' # {}
      BY <3>1 DEF At
    <3>4. \A q \in {} \cup At(Label \ {"idle", "failed"}, h) : pc'[q] # "idle"
      BY <3>1 DEF At
    <3>5. Store!Unsettle
      BY <1>1, <2>3, <3>1, <3>2, <3>3, <3>4, MovesUnsettle
    <3> QED BY <2>1, <3>1, <3>5 DEF Store!Move, Store!contents, Store!requests
  <2> QED BY <1>1, <1>2, <2>2, <2>3 DEF DemoteRead, TypeOK
<1>3. ASSUME DemoteWrite \/ DemoteDelete
      PROVE  \/ \E h \in Hash : Store!Revive(h) \/ Store!Lose(h)
             \/ UNCHANGED Store!vars
  <2>1. Requests' = Requests
    BY <1>3 DEF DemoteWrite, DemoteDelete, procVars, Requests
  <2>2. down \in Hash
    BY <1>3 DEF DemoteWrite, DemoteDelete, IInv, TypeOK, Shape
  <2>3. \A k \in Hash \ {down} : k \in hot' \cup cold' <=> k \in hot \cup cold
    BY <1>3 DEF DemoteWrite, DemoteDelete
  <2>4. UNCHANGED <<kept, on, crossed, misled, mixed, cut, raced>>
    BY <1>3 DEF DemoteWrite, DemoteDelete, procVars, history
  <2> QED BY <2>1, <2>2, <2>3, <2>4, CopiesAreStoreSteps
<1>4. ASSUME SweepByAge \/ EndByAge \/ TotalHot \/ SelectLot \/ EndLot \/ DemoteMark \/ \E h \in Hash : Ages(h)
      PROVE  UNCHANGED Store!vars
  <2>1. UNCHANGED <<hot, cold, pc, on, history>>
    BY <1>4 DEF SweepByAge, EndByAge, TotalHot, SelectLot, EndLot, DemoteMark, Ages, blobVars, procVars
  <2> QED BY <2>1 DEF Store!vars, Store!contents, Store!requests, Store!doubts, history, Requests
<1> QED BY <1>2, <1>3, <1>4 DEF Sweep

\* Whatever stops half way leaves the copies as they are.
LEMMA FaultsAreStoreSteps ==
  ASSUME IInv
  PROVE  /\ \A p \in Proc : Abort(p) => Store!Abort(p)
         /\ SweepFails => (\E h \in Hash : Store!MoveFails(h)) \/ UNCHANGED Store!vars
         /\ Crash => Store!Crash
<1>1. pc \in [Proc -> Label] /\ TypeOK
  BY DEF IInv, TypeOK
<1>2. ASSUME NEW p \in Proc, Abort(p) PROVE Store!Abort(p)
  <2>1. /\ Requests' = [Requests EXCEPT ![p] = Request("idle")]
        /\ Requests[p] # "idle" /\ Requests[p] # "failed"
        /\ pc[p] = "stamp" => Requests[p] = "got"
    BY <1>1, <1>2, RequestsMove, RequestsOf DEF Abort, Return, Leave, Goto, LiftLabel
  <2>2. Request("idle") = "idle"
    BY RequestOfLabel DEF Label
  <2>3. Unstamped({p}) = IF pc[p] = "stamp" THEN {on[p]} ELSE {}
    BY DEF Unstamped
  <2>4. (mixed \cup cut)' \in {mixed \cup cut} \cup
          (IF Requests[p] = "got" THEN {(mixed \cup cut) \cup {on[p]}} ELSE {})
    BY <1>2, <2>1, <2>3 DEF Abort
  <2> QED BY <1>2, <2>1, <2>2, <2>4 DEF Abort, Return, Leave, Store!Abort, Store!MayMisplace, Store!Return, Store!contents, blobVars
<1>3. ASSUME SweepFails PROVE (\E h \in Hash : Store!MoveFails(h)) \/ UNCHANGED Store!vars
  <2>1. UNCHANGED <<hot, cold, kept, Requests, on, crossed, misled, mixed, raced>>
    BY <1>3 DEF SweepFails, blobVars, procVars, Requests
  <2>2. CASE move = "mark"
    <3>1. down \in Hash /\ cut' = cut \cup {down}
      BY <1>3, <2>2 DEF SweepFails, Unmarked, IInv, TypeOK, Shape
    <3> QED BY <2>1, <3>1 DEF Store!MoveFails, Store!contents, Store!requests
  <2>3. CASE move # "mark"
    <3>1. cut' = cut
      BY <1>3, <2>3 DEF SweepFails, Unmarked
    <3> QED BY <2>1, <3>1 DEF Store!vars, Store!contents, Store!requests, Store!doubts
  <2> QED BY <2>2, <2>3
<1>4. ASSUME Crash PROVE Store!Crash
  <2>1. Requests' = [p \in Proc |-> "idle"]
    <3>1. Request("idle") = "idle"
      BY RequestOfLabel DEF Label
    <3> QED BY <1>4, <3>1 DEF Crash, Requests
  <2>2. \A k \in (mixed \cup cut)' \ (mixed \cup cut) : k = down \/ Store!Working(k, {"got"})
    <3>1. ASSUME NEW k \in (mixed \cup cut)' \ (mixed \cup cut) PROVE k = down \/ Store!Working(k, {"got"})
      <4>1. k \in Unmarked \/ k \in Unstamped(Proc)
        BY <1>4, <3>1 DEF Crash
      <4>2. k \in Unstamped(Proc) => At(LiftLabel, k) # {}
        BY DEF Unstamped, At, LiftLabel
      <4> QED BY <1>1, <4>1, <4>2, WorkingIs DEF Unmarked
    <3> QED BY <3>1
  <2>3. down \in Hash \cup {NoHash}
    BY <1>1 DEF TypeOK
  <2> QED BY <1>4, <2>1, <2>2, <2>3 DEF Crash, Store!Crash, Store!contents, blobVars
<1> QED BY <1>2, <1>3, <1>4

\* However many chunks and handlers there are, the two tiers, their rows and the
\* sweep are to a client the plain set of blobs of ChunkStore (storage.rs 287-372,
\* 540-657, 828-849): what a write left there stays until it is deleted, unless a
\* promotion of it meets the sweep, and a served read found what it serves.
THEOREM TieringIsAStore == Spec => IsAStore
<1>1. Init => Store!Init
  <2>1. Request("idle") = "idle"
    BY RequestOfLabel DEF Label
  <2> QED BY <2>1 DEF Init, Store!Init, Requests
<1>2. ASSUME IInv, IInv', Still, Told, [Next]_vars PROVE [Store!Next]_Store!vars
  <2>1. ASSUME NEW p \in Proc, NEW h \in Hash, BeginWrite(p, h) \/ BeginRead(p, h) \/ BeginDelete(p, h)
        PROVE  Store!Next
    BY <1>2, <2>1, WritesAreStoreSteps, ReadsAreStoreSteps, DeletionsAreStoreSteps DEF Store!Next
  <2>2. ASSUME NEW p \in Proc, Handler(p) PROVE [Store!Next]_Store!vars
    <3>1. CASE WriteExists(p) \/ WritePut(p) \/ WriteLocate(p) \/ WriteAccount(p)
      BY <1>2, <3>1, WritesAreStoreSteps DEF Store!Next
    <3>2. CASE ReadDirect(p) \/ ReadTier(p) \/ ReadHot(p) \/ ReadCold(p) \/ Answer(p)
      BY <1>2, <3>2, ReadsAreStoreSteps DEF Store!Next
    <3>3. CASE PromoteWrite(p) \/ PromoteDelete(p) \/ PromoteStamp(p)
      BY <1>2, <3>3, PromotionsAreStoreSteps DEF Store!Next
    <3>4. CASE Wipe(p) \/ Unlocate(p)
      BY <1>2, <3>4, DeletionsAreStoreSteps DEF Store!Next
    <3> QED BY <2>2, <3>1, <3>2, <3>3, <3>4 DEF Handler
  <2>3. CASE Sweep \/ \E h \in Hash : Ages(h)
    BY <1>2, <2>3, SweepIsStoreSteps DEF Store!Next
  <2>4. CASE SweepFails \/ Crash \/ \E p \in Proc : Abort(p)
    BY <1>2, <2>4, FaultsAreStoreSteps DEF Store!Next
  <2>5. CASE UNCHANGED vars
    BY <2>5 DEF vars, blobVars, procVars, history, Requests, Store!vars, Store!contents, Store!requests, Store!doubts
  <2> QED BY <1>2, <2>1, <2>2, <2>3, <2>4, <2>5 DEF Next
<1>3. Orderly => IInv
  BY DEF Orderly
<1> QED BY <1>1, <1>2, <1>3, ToldAlways, PTL DEF Spec, IsAStore, Store!Spec
=============================================================================
