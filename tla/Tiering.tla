------------------------------ MODULE Tiering ------------------------------
(***************************************************************************)
(* The chunk store with its two tiers: a hot backend that every write goes *)
(* to, a cold one that the hourly sweep demotes chunks to and that a read  *)
(* promotes them back from.  VersionStore takes the store for a set of     *)
(* blobs; this module looks inside.                                        *)
(*                                                                         *)
(* A read, a write and a deletion are each a process p working on chunk    *)
(* on[p], one action per awaited storage call or SQL statement; the sweep  *)
(* is a process of its own.  The hot operator is the only write location   *)
(* (no shard or replica backend is active), so a chunk_locations row,      *)
(* where there is one, points at the hot tier.  Every chunk has size one.  *)
(***************************************************************************)
EXTENDS Integers, FiniteSets

CONSTANTS
    Hash,       \* chunks
    Proc,       \* handlers that may run at the same time
    NoHash,
    Ceiling,    \* hot_max_bytes: chunks the hot tier may count
    Lot,        \* chunks the size pass selects at a time (2000 in the code)
    MaxFaults   \* bound on interrupted handlers, failed sweeps, crashes, and
                \* statements and storage calls that fail unseen

ASSUME TieringAssumption ==
    /\ NoHash \notin Hash /\ IsFiniteSet(Hash)
    /\ Ceiling \in Nat /\ Lot \in Nat \ {0} /\ MaxFaults \in Nat

VARIABLES
    hot, cold,   \* the chunks whose blob is in each tier
    located,     \* the chunks with a chunk_locations row
    tier,        \* chunk_access.tier, "none" where there is no row
    fresh,       \* the chunks whose last_accessed is within cold_after_days
    pc, on,      \* the handlers: next step, chunk worked on
    phase,       \* the sweep: "rest", "age", "total", "lots" or "size"
    todo,        \* the chunks it selected and has not looked at
    chaud,       \* its running total of the hot tier
    progress,    \* it demoted something of this lot
    move, down,  \* the demotion under way: next step, chunk
    faults,
    (***** history, never read by the code *****)
    kept,        \* written, and not deleted since
    crossed,     \* handlers whose chunk was moved by another one meanwhile
    misled,      \* readers of a cold chunk whose SELECT of its tier failed
    mixed,       \* chunks that two moves worked on at a time
    raced,       \* those of them that were promoted and demoted at a time
    cut          \* chunks whose row was not told of their last move or write:
                 \* it stopped just before the statement, or that failed

blobVars  == <<hot, cold>>
rowVars   == <<located, tier, fresh>>
procVars  == <<pc, on>>
sweepVars == <<phase, todo, chaud, progress, move, down>>
history   == <<kept, crossed, misled, mixed, raced, cut>>
vars == <<blobVars, rowVars, procVars, sweepVars, faults, history>>

WriteLabel  == {"exists", "put", "locate", "account"}
LiftLabel   == {"lift", "drop", "stamp"}
ReadLabel   == {"direct", "tier", "cold", "hot"} \cup LiftLabel
DeleteLabel == {"wipe", "unlocate"}
Label == {"idle", "failed"} \cup WriteLabel \cup ReadLabel \cup DeleteLabel

At(L, h)   == {p \in Proc : on[p] = h /\ pc[p] \in L}
Moving(h)  == At(WriteLabel \cup LiftLabel, h) # {} \/ down = h
HotRows    == {h \in Hash : tier[h] = "hot"}
Goto(p, l) == pc' = [pc EXCEPT ![p] = l]
Fault      == faults < MaxFaults /\ faults' = faults + 1

TypeOK ==
    /\ hot \subseteq Hash /\ cold \subseteq Hash /\ located \subseteq Hash
    /\ tier \in [Hash -> {"none", "hot", "cold"}] /\ fresh \subseteq Hash
    /\ pc \in [Proc -> Label] /\ on \in [Proc -> Hash \cup {NoHash}]
    /\ phase \in {"rest", "age", "total", "lots", "size"}
    /\ todo \subseteq Hash /\ chaud \in Nat /\ progress \in BOOLEAN
    /\ move \in {"none", "put", "del", "mark"} /\ down \in Hash \cup {NoHash}
    /\ faults \in 0 .. MaxFaults
    /\ kept \subseteq Hash /\ crossed \subseteq Proc /\ misled \subseteq Proc
    /\ mixed \subseteq Hash /\ raced \subseteq mixed /\ cut \subseteq Hash

Init ==
    /\ hot = {} /\ cold = {} /\ located = {} /\ fresh = {}
    /\ tier = [h \in Hash |-> "none"]
    /\ pc = [p \in Proc |-> "idle"] /\ on = [p \in Proc |-> NoHash]
    /\ phase = "rest" /\ todo = {} /\ chaud = 0 /\ progress = FALSE
    /\ move = "none" /\ down = NoHash
    /\ faults = 0
    /\ kept = {} /\ crossed = {} /\ misled = {} /\ mixed = {} /\ raced = {} /\ cut = {}

\* History: a move of h starts, by the handlers in movers or by the sweep.
StartMove(h, movers, opposed) ==
    /\ mixed' = IF Moving(h) THEN mixed \cup {h} ELSE mixed
    /\ raced' = IF opposed THEN raced \cup {h} ELSE raced
    /\ crossed' = crossed \cup (At(Label \ {"idle", "failed"}, h) \ movers)
                          \cup (IF Moving(h) THEN movers ELSE {})

Begin(p, l, h) ==
    /\ pc[p] = "idle"
    /\ Goto(p, l)
    /\ on' = [on EXCEPT ![p] = h]

\* The handler answers: its locals are gone.
Leave(p) == Goto(p, "idle") /\ on' = [on EXCEPT ![p] = NoHash]
Return(p) == Leave(p) /\ crossed' = crossed \ {p} /\ misled' = misled \ {p}

-----------------------------------------------------------------------------
(***************************************************************************)
(* write_chunk_bytes.  A write and a deletion of one chunk at a time are   *)
(* left out here: VersionStore is about them.                              *)
(***************************************************************************)
BeginWrite(p, h) ==
    /\ At(DeleteLabel, h) = {}
    /\ Begin(p, "exists", h)
    /\ StartMove(h, {p}, FALSE)
    /\ UNCHANGED <<blobVars, rowVars, sweepVars, faults, kept, misled, cut>>

\* Mutant: a chunk with a chunk_access row is taken for written.
WriteExistsByRow(p) ==
    /\ pc[p] = "exists"
    /\ Goto(p, IF tier[on[p]] # "none" THEN "locate" ELSE "put")
    /\ UNCHANGED <<blobVars, rowVars, on, sweepVars, faults, history>>

\* write_encrypted: a blob that is there already is not written again.
WriteExists(p) ==
    /\ pc[p] = "exists"
    /\ Goto(p, IF on[p] \in hot THEN "locate" ELSE "put")
    /\ UNCHANGED <<blobVars, rowVars, on, sweepVars, faults, history>>

WritePut(p) ==
    /\ pc[p] = "put"
    /\ hot' = hot \cup {on[p]}
    /\ Goto(p, "locate")
    /\ UNCHANGED <<cold, rowVars, on, sweepVars, faults, history>>

\* INSERT OR IGNORE INTO chunk_locations: none without an active primary row,
\* nor when the statement fails, which is ignored.
WriteLocate(p) ==
    /\ pc[p] = "locate"
    /\ located' \in {located, located \cup {on[p]}}
    /\ Goto(p, "account")
    /\ UNCHANGED <<blobVars, tier, fresh, on, sweepVars, faults, history>>

\* History: an uncrossed write puts its chunk right again, and leaves it cut if its
\* row still says cold where there is no cold copy.
Settle(p, h) ==
    LET healed == IF p \in crossed THEN {} ELSE {h}
    IN  /\ mixed' = mixed \ healed /\ raced' = raced \ healed
        /\ cut' = IF tier'[h] = "cold" /\ h \notin cold THEN cut \cup healed ELSE cut \ healed

\* INSERT INTO chunk_access ... ON CONFLICT DO UPDATE SET tier = 'hot', whose
\* failure is ignored: the write answers, and the row stays as it was.
WriteAccount(p) ==
    LET h == on[p]
    IN  /\ pc[p] = "account"
        /\ \/ /\ tier' = [tier EXCEPT ![h] = "hot"]
              /\ fresh' = fresh \cup {h}
              /\ UNCHANGED faults
           \/ Fault /\ UNCHANGED <<tier, fresh>>
        /\ Return(p)
        /\ kept' = kept \cup {h}
        /\ Settle(p, h)
        /\ UNCHANGED <<blobVars, located, sweepVars>>

-----------------------------------------------------------------------------
(***************************************************************************)
(* read_chunk_encrypted, and read_legacy which it falls back to.           *)
(***************************************************************************)
\* locations_for: a SELECT that fails finds no location.
BeginRead(p, h) ==
    /\ \/ Begin(p, IF h \in located THEN "direct" ELSE "tier", h) /\ UNCHANGED faults
       \/ Begin(p, "tier", h) /\ Fault
    /\ crossed' = IF Moving(h) THEN crossed \cup {p} ELSE crossed
    /\ UNCHANGED <<blobVars, rowVars, sweepVars, kept, misled, mixed, raced, cut>>

\* Mutant: no last resort when the recorded location has nothing.
ReadDirectOnly(p) ==
    /\ pc[p] = "direct"
    /\ IF on[p] \in hot THEN Return(p)
                        ELSE Goto(p, "failed") /\ UNCHANGED <<on, crossed, misled>>
    /\ UNCHANGED <<blobVars, rowVars, sweepVars, faults, kept, mixed, raced, cut>>

\* The recorded location; last_accessed stays as it is.  Where it has nothing,
\* or cannot be read, the tiers are asked.
ReadDirect(p) ==
    /\ pc[p] = "direct"
    /\ \/ on[p] \in hot /\ Return(p) /\ UNCHANGED faults
       \/ /\ IF on[p] \in hot THEN Fault ELSE UNCHANGED faults
          /\ Goto(p, "tier") /\ UNCHANGED <<on, crossed, misled>>
    /\ UNCHANGED <<blobVars, rowVars, sweepVars, kept, mixed, raced, cut>>

\* tier_of: no row counts as hot, and so does a SELECT that fails.
ReadTier(p) ==
    /\ pc[p] = "tier"
    /\ \/ Goto(p, IF tier[on[p]] = "cold" THEN "cold" ELSE "hot") /\ UNCHANGED <<faults, misled>>
       \/ /\ tier[on[p]] = "cold" /\ Fault
          /\ Goto(p, "hot")
          /\ misled' = misled \cup {p}
    /\ UNCHANGED <<blobVars, rowVars, on, sweepVars, kept, crossed, mixed, raced, cut>>

\* UPDATE chunk_access SET last_accessed, where there is a row; its failure is ignored.
ReadHot(p) ==
    /\ pc[p] = "hot"
    /\ IF on[p] \in hot
       THEN /\ \/ /\ fresh' = IF tier[on[p]] = "none" THEN fresh ELSE fresh \cup {on[p]}
                  /\ UNCHANGED faults
               \/ Fault /\ UNCHANGED fresh
            /\ Return(p)
       ELSE Goto(p, "failed") /\ UNCHANGED <<fresh, faults, on, crossed, misled>>
    /\ UNCHANGED <<blobVars, located, tier, sweepVars, kept, mixed, raced, cut>>

\* From here on the reader promotes the chunk.
ReadCold(p) ==
    /\ pc[p] = "cold"
    /\ IF on[p] \in cold
       THEN Goto(p, "lift") /\ StartMove(on[p], {p}, down = on[p])
       ELSE Goto(p, "failed") /\ UNCHANGED <<crossed, mixed, raced>>
    /\ UNCHANGED <<blobVars, rowVars, on, sweepVars, faults, kept, misled, cut>>

PromoteWrite(p) ==
    /\ pc[p] = "lift"
    /\ hot' = hot \cup {on[p]}
    /\ Goto(p, "drop")
    /\ UNCHANGED <<cold, rowVars, on, sweepVars, faults, history>>

\* let _ = cold.delete: a failure leaves the cold copy and is ignored.
PromoteDelete(p) ==
    /\ pc[p] = "drop"
    /\ cold' \in {cold, cold \ {on[p]}}
    /\ Goto(p, "stamp")
    /\ UNCHANGED <<hot, rowVars, on, sweepVars, faults, history>>

\* Mutant: the row is not told that the chunk is hot again.
PromoteSilently(p) ==
    /\ pc[p] = "stamp"
    /\ fresh' = fresh \cup {on[p]}
    /\ Return(p)
    /\ UNCHANGED <<blobVars, located, tier, sweepVars, faults, kept, mixed, raced, cut>>

\* UPDATE chunk_access SET tier = 'hot', whose failure is ignored.
PromoteStamp(p) ==
    /\ pc[p] = "stamp"
    /\ \/ /\ tier' = [tier EXCEPT ![on[p]] = "hot"]
          /\ fresh' = fresh \cup {on[p]}
          /\ UNCHANGED <<faults, cut>>
       \/ /\ Fault
          /\ cut' = cut \cup {on[p]}
          /\ UNCHANGED <<tier, fresh>>
    /\ Return(p)
    /\ UNCHANGED <<blobVars, located, sweepVars, kept, mixed, raced>>

\* The error reaches the client.
Answer(p) ==
    /\ pc[p] = "failed"
    /\ Return(p)
    /\ UNCHANGED <<blobVars, rowVars, sweepVars, faults, kept, mixed, raced, cut>>

-----------------------------------------------------------------------------
(***************************************************************************)
(* delete_chunk: the cold tier and chunk_access are left alone, and every  *)
(* error is ignored where the chunk has a recorded location.               *)
(***************************************************************************)
BeginDelete(p, h) ==
    /\ At(WriteLabel, h) = {}
    /\ Begin(p, "wipe", h)
    /\ kept' = kept \ {h}
    /\ UNCHANGED <<blobVars, rowVars, sweepVars, faults, crossed, misled, mixed, raced, cut>>

Wipe(p) ==
    /\ pc[p] = "wipe"
    /\ \/ hot' = hot \ {on[p]} /\ UNCHANGED faults
       \/ on[p] \in located /\ Fault /\ UNCHANGED hot
    /\ Goto(p, "unlocate")
    /\ UNCHANGED <<cold, rowVars, on, sweepVars, history>>

\* The row stays where its DELETE failed, or the SELECT of it before.
Unlocate(p) ==
    /\ pc[p] = "unlocate"
    /\ \/ located' = located \ {on[p]} /\ UNCHANGED faults
       \/ Fault /\ UNCHANGED located
    /\ Return(p)
    /\ UNCHANGED <<blobVars, tier, fresh, sweepVars, kept, mixed, raced, cut>>

-----------------------------------------------------------------------------
(***************************************************************************)
(* run_tiering_sweep: by age, then by size, one demotion at a time.        *)
(***************************************************************************)
SweepByAge ==
    /\ phase = "rest"
    /\ phase' = "age"
    /\ todo' = HotRows \ fresh
    /\ UNCHANGED <<blobVars, rowVars, procVars, chaud, progress, move, down,
                   faults, history>>

EndByAge ==
    /\ phase = "age" /\ move = "none" /\ todo = {}
    /\ phase' = "total"
    /\ UNCHANGED <<blobVars, rowVars, procVars, todo, chaud, progress, move,
                   down, faults, history>>

\* SELECT SUM(bytes) of the rows that say hot.
TotalHot ==
    /\ phase = "total"
    /\ chaud' = Cardinality(HotRows)
    /\ phase' = IF chaud' > Ceiling THEN "lots" ELSE "rest"
    /\ UNCHANGED <<blobVars, rowVars, procVars, todo, progress, move, down,
                   faults, history>>

\* Mutant: the size pass spares what was accessed lately.
SelectOldLot ==
    LET old == HotRows \ fresh
    IN  /\ phase = "lots"
        /\ progress' = FALSE
        /\ phase' = "size"
        /\ todo' \in SUBSET old
        /\ Cardinality(todo') = IF Cardinality(old) < Lot THEN Cardinality(old) ELSE Lot
        /\ UNCHANGED <<blobVars, rowVars, procVars, chaud, move, down, faults, history>>

\* The least recently accessed, at most Lot of them: any here.
SelectLot ==
    /\ phase = "lots"
    /\ progress' = FALSE
    /\ phase' = "size"
    /\ todo' \in SUBSET HotRows
    /\ Cardinality(todo') =
         IF Cardinality(HotRows) < Lot THEN Cardinality(HotRows) ELSE Lot
    /\ UNCHANGED <<blobVars, rowVars, procVars, chaud, move, down, faults, history>>

\* Another lot, unless the ceiling is met or no chunk of this one could go.
EndLot ==
    /\ phase = "size" /\ move = "none"
    /\ todo = {} \/ chaud <= Ceiling
    /\ phase' = IF progress /\ chaud > Ceiling THEN "lots" ELSE "rest"
    /\ todo' = {}
    /\ UNCHANGED <<blobVars, rowVars, procVars, chaud, progress, move, down,
                   faults, history>>

\* A chunk may be demoted: the size pass stops at the ceiling.
Picking == phase = "age" \/ (phase = "size" /\ chaud > Ceiling)

\* Mutant: a chunk that has a cold copy already is taken for demoted.
DemoteReadUnlessCold ==
    /\ move = "none"
    /\ Picking
    /\ \E h \in todo :
         /\ todo' = todo \ {h}
         /\ IF h \in hot \ cold
            THEN /\ move' = "put" /\ down' = h
                 /\ StartMove(h, {}, At(LiftLabel, h) # {})
            ELSE UNCHANGED <<move, down, mixed, raced, crossed>>
    /\ UNCHANGED <<blobVars, rowVars, procVars, phase, chaud, progress, faults,
                   kept, misled, cut>>

\* demote_to_cold: a blob that is gone, or that cannot be read, is skipped.
DemoteRead ==
    /\ move = "none"
    /\ Picking
    /\ \E h \in todo :
         /\ todo' = todo \ {h}
         /\ \/ /\ h \in hot
               /\ move' = "put" /\ down' = h
               /\ StartMove(h, {}, At(LiftLabel, h) # {})
               /\ UNCHANGED faults
            \/ /\ IF h \in hot THEN Fault ELSE UNCHANGED faults
               /\ UNCHANGED <<move, down, mixed, raced, crossed>>
    /\ UNCHANGED <<blobVars, rowVars, procVars, phase, chaud, progress, kept, misled, cut>>

\* Mutant: the error of the cold write is ignored.
DemoteWriteBlindly ==
    /\ move = "put"
    /\ cold' \in {cold, cold \cup {down}}
    /\ move' = "del"
    /\ UNCHANGED <<hot, rowVars, procVars, phase, todo, chaud, progress, down,
                   faults, history>>

DemoteWrite ==
    /\ move = "put"
    /\ cold' = cold \cup {down}
    /\ move' = "del"
    /\ UNCHANGED <<hot, rowVars, procVars, phase, todo, chaud, progress, down,
                   faults, history>>

DemoteDelete ==
    /\ move = "del"
    /\ hot' = hot \ {down}
    /\ move' = "mark"
    /\ UNCHANGED <<cold, rowVars, procVars, phase, todo, chaud, progress, down,
                   faults, history>>

\* Mutant: the age pass counts down too.
DemoteMarkAlways ==
    /\ move = "mark"
    /\ tier' = [tier EXCEPT ![down] = "cold"]
    /\ chaud' = chaud - 1
    /\ progress' = TRUE
    /\ move' = "none" /\ down' = NoHash
    /\ UNCHANGED <<blobVars, located, fresh, procVars, phase, todo, faults, history>>

\* UPDATE chunk_access SET tier = 'cold'; the size pass counts it down.
DemoteMark ==
    /\ move = "mark"
    /\ tier' = [tier EXCEPT ![down] = "cold"]
    /\ chaud' = IF phase = "size" THEN chaud - 1 ELSE chaud
    /\ progress' = (progress \/ phase = "size")
    /\ move' = "none" /\ down' = NoHash
    /\ UNCHANGED <<blobVars, located, fresh, procVars, phase, todo, faults, history>>

-----------------------------------------------------------------------------
\* A chunk is not accessed for cold_after_days.
Ages(h) ==
    /\ h \in fresh
    /\ fresh' = fresh \ {h}
    /\ UNCHANGED <<blobVars, located, tier, procVars, sweepVars, faults, history>>

\* What is interrupted between its last storage call and its UPDATE.
Unstamped(P) == {on[p] : p \in {q \in P : pc[q] = "stamp"}}
Unmarked     == IF move = "mark" THEN {down} ELSE {}

StopSweep ==
    /\ phase' = "rest" /\ todo' = {} /\ chaud' = 0 /\ progress' = FALSE
    /\ move' = "none" /\ down' = NoHash

\* A statement fails, or the client goes away.
Abort(p) ==
    /\ pc[p] \notin {"idle", "failed"}
    /\ Fault
    /\ Return(p)
    /\ cut' = cut \cup Unstamped({p})
    /\ UNCHANGED <<blobVars, rowVars, sweepVars, kept, mixed, raced>>

\* The first error of a demotion ends the sweep (the `?` operators).
SweepFails ==
    /\ phase # "rest"
    /\ Fault
    /\ StopSweep
    /\ cut' = cut \cup Unmarked
    /\ UNCHANGED <<blobVars, rowVars, procVars, kept, crossed, misled, mixed, raced>>

Crash ==
    /\ Fault
    /\ StopSweep
    /\ pc' = [p \in Proc |-> "idle"] /\ on' = [p \in Proc |-> NoHash]
    /\ crossed' = {} /\ misled' = {}
    /\ cut' = cut \cup Unmarked \cup Unstamped(Proc)
    /\ UNCHANGED <<blobVars, rowVars, kept, mixed, raced>>

Handler(p) ==
    \/ WriteExists(p) \/ WritePut(p) \/ WriteLocate(p) \/ WriteAccount(p)
    \/ ReadDirect(p) \/ ReadTier(p) \/ ReadHot(p) \/ ReadCold(p)
    \/ PromoteWrite(p) \/ PromoteDelete(p) \/ PromoteStamp(p) \/ Answer(p)
    \/ Wipe(p) \/ Unlocate(p)

Sweep ==
    \/ SweepByAge \/ EndByAge \/ TotalHot \/ SelectLot \/ EndLot
    \/ DemoteRead \/ DemoteWrite \/ DemoteDelete \/ DemoteMark

Next ==
    \/ \E p \in Proc, h \in Hash : BeginWrite(p, h) \/ BeginRead(p, h) \/ BeginDelete(p, h)
    \/ \E p \in Proc : Handler(p) \/ Abort(p)
    \/ Sweep \/ SweepFails \/ Crash
    \/ \E h \in Hash : Ages(h)

\* A handler runs on, and the tiering task of main.rs wakes every hour.
Fairness == WF_vars(Sweep) /\ \A p \in Proc : WF_vars(Handler(p))

Spec == Init /\ [][Next]_vars /\ Fairness

-----------------------------------------------------------------------------
(***************************************************************************)
(* Properties.                                                             *)
(***************************************************************************)
\* Where read_chunk_encrypted finds the chunk.
Readable(h) ==
    \/ h \in located /\ h \in hot
    \/ IF tier[h] = "cold" THEN h \in cold ELSE h \in hot

\* A chunk written and not deleted always has a copy in one of the tiers,
\* crash or no crash, unless a promotion and a demotion of it overlapped: the
\* order copy, then delete (storage.rs 587-657) is right, and that overlap is
\* the only way to lose a chunk.
KeptHasACopy == \A h \in kept \ raced : h \in hot \cup cold

\* When nothing is moving it, a chunk written and not deleted is where a read
\* looks for it, unless two moves of it overlapped, or its row missed the UPDATE of
\* its last move or write.  A later write that nothing crosses repairs the overlap,
\* and the row too unless its own statement fails (storage.rs 361-367, 597-604).
KeptIsReadable ==
    \A h \in kept \ (mixed \cup cut) : Moving(h) \/ Readable(h)

\* A read of such a chunk fails only if somebody moved the chunk meanwhile
\* (storage.rs 546-620: the tier is asked before the blob is read), or if the
\* question for its tier failed and was taken for "hot" (storage.rs 434-438).
ReadsFailOnlyWhenCrossed ==
    [][\A p \in Proc :
         pc[p] # "failed" /\ pc'[p] = "failed" /\ on[p] \in kept \ (mixed \cup cut)
           => p \in crossed \cup misled]_vars

\* Tiering implements ChunkStore, the plain set of blobs that the rest of the
\* server takes it for (storage.rs 287-372, 540-657, 828-849): a write that returns
\* leaves a copy, a served read found one, a chunk goes only when it is deleted or
\* after a read of it was promoted while the sweep demoted it.
Request(l) ==
    CASE l \in WriteLabel -> "write"
      [] l \in ReadLabel \ LiftLabel -> "read"
      [] l \in LiftLabel -> "got"
      [] l \in DeleteLabel -> "delete"
      [] OTHER -> l
Requests == [p \in Proc |-> Request(pc[p])]
Store == INSTANCE ChunkStore WITH
    blobs <- hot \cup cold, op <- Requests, crossed <- crossed \cup misled,
    misplaced <- mixed \cup cut, doubtful <- raced
IsAStore == Store!Spec

\* storage.rs 631-633, the part about the next pass: an old chunk that an
\* interrupted demotion left in both tiers does not stay there.
Doubled(h) == h \in hot \cap cold /\ tier[h] = "hot" /\ h \notin fresh
DuplicatesAreCorrected == \A h \in Hash : []<>~Doubled(h)

\* The size pass keeps bringing the hot tier down to its ceiling, whatever is
\* read or written meanwhile (storage.rs 648-656), unless a blob there has no
\* row that says hot, or a row that says hot has no blob: delete_chunk and
\* interrupted writes leave such rows, and the pass counts them and gives up.
Unaccounted == {h \in hot : tier[h] # "hot"}
Ghosts      == HotRows \ hot
CeilingIsReached ==
    []<>(Cardinality(hot) <= Ceiling \/ Unaccounted # {} \/ Ghosts # {})

-----------------------------------------------------------------------------
(***************************************************************************)
(* What the comments say, without the exemptions above.                    *)
(***************************************************************************)
\* storage.rs 631-633, "an interruption in between would lose the chunk.  Here
\* the worst case is a duplicate": an interrupted move leaves the chunk readable.
WorstCaseIsADuplicate == \A h \in kept \ mixed : Moving(h) \/ Readable(h)

\* tiering.rs 14-15, "last_accessed being refreshed at EVERY read": a read that
\* is served leaves its chunk freshly accessed.
EveryReadRefreshes ==
    [][\A p \in Proc :
         pc[p] \in ReadLabel /\ pc'[p] = "idle" /\ faults' = faults
           => on[p] \in fresh']_vars
=============================================================================
