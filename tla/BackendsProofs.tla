--------------------------- MODULE BackendsProofs ---------------------------
(***************************************************************************)
(* Backends, proved: for any places, backends, keys, requests and failures *)
(* its types hold, the program starts unless excused, and a stored chunk   *)
(* is readable unless excused.                                             *)
(*                                                                         *)
(* Three parts carry the argument.  Keyring: whatever became of the file,  *)
(* it is a beginning of the ring, no key has two places, and a copy names  *)
(* the place its key has.  Turn: when the primary was last changed by a    *)
(* request that was alone and came to its end, exactly one primary is      *)
(* active and it is what is hot.  Writing: hence what a write that no such *)
(* change crossed records is where it wrote.                               *)
(***************************************************************************)
EXTENDS Backends, FiniteSetTheorems, SequenceTheorems, WellFoundedInduction, TLAPS

-----------------------------------------------------------------------------
(***************************************************************************)
(* The inductive invariant.                                                *)
(***************************************************************************)
Born     == {b \in Backend : row[b].st # "unborn"}
AdminAt  == {"swap", "clear", "set", "unset", "delete"}
WriteAt  == {"main", "primary", "copies"}
Point    == {"idle"} \cup AdminAt \cup WriteAt
Rows     == [st : {"unborn", "live", "gone"}, boot : BOOLEAN, role : Role, place : Place, active : BOOLEAN]
Jobs     == [on : 0 .. NBackends, shard : 0 .. NBackends, copies : SUBSET Backend,
             ids : SUBSET Backend, kept : SUBSET Backend, crossed : BOOLEAN, alone : BOOLEAN]
Blobs    == [id : 0 .. MaxKeys, key : 0 .. MaxKeys]

RowsOK == row \in [Backend -> Rows] /\ loc \subseteq Backend /\ sound \subseteq Backend
TasksOK == /\ pc \in [Proc -> Point] /\ job \in [Proc -> Jobs]
           /\ ops \in 0 .. MaxOps /\ faults \in 0 .. MaxFaults
PlainOK == /\ server \in {"down", "keys", "up", "dead"} /\ hot \in Place /\ byte \in Byte
           /\ made \in 0 .. MaxKeys /\ {askew, misread} \subseteq BOOLEAN /\ blob \in [Place -> Blobs]
Types == RowsOK /\ TasksOK /\ PlainOK

\* A request is about backends that were made; there is none while the server is not up.
Shape ==
    /\ server # "up" => \A p \in Proc : pc[p] = "idle"
    /\ server = "keys" => hot = EnvPlace
    /\ \A p \in Proc :
         /\ pc[p] \in AdminAt => job[p].on \in Born
         /\ pc[p] \in {"swap", "clear"} => row[job[p].on].role = "primary"
         /\ pc[p] \in WriteAt => /\ job[p].shard \in Born \cup {0}
                                 /\ job[p].copies \cup job[p].ids \cup job[p].kept \subseteq Born

\* Keys in an order: no key twice, none that was not made.
Good(s, m) ==
    /\ s \in Seq(1 .. m)
    /\ \A i, k \in DOMAIN s : s[i] = s[k] => i = k

\* A copy names the place its key has among them.
Placed(s, copies) == \A p \in Place, i \in DOMAIN s : copies[p].key = s[i] => copies[p].id = i

Open == server \in {"keys", "up"}
Keyring ==
    /\ Good(ring, made) /\ Placed(ring, blob) /\ (Open => ring # <<>>)
    /\ file # Torn => Good(file, made) /\ Placed(file, blob)
    /\ Open /\ file # Torn => \A i \in DOMAIN file : i \in DOMAIN ring /\ ring[i] = file[i]
    /\ \A p \in Place : blob[p] # NoBlob => blob[p].key \in 1 .. made

\* A change of the primary that is alone has a backend to end on, makes it hot, and
\* leaves no other active.
OnePrimary ==
    \A p \in OnPrimary : job[p].alone =>
        /\ OnPrimary = {p}
        /\ pc[p] \in {"swap", "clear", "set"} => row[job[p].on].st = "live"
        /\ pc[p] \in {"clear", "set"} => hot = row[job[p].on].place
        /\ pc[p] = "set" => Active("primary") = {}

\* What is hot is the active primary, but while it is changed and when that went wrong.
Straight ==
    ~askew =>
        /\ Live # {} \/ server = "up" =>
              Active("primary") # {} \/ \E p \in OnPrimary : pc[p] = "set"
        /\ Activating = {} =>
              \A b \in Active("primary") :
                  /\ \A c \in Active("primary") : c = b
                  /\ server = "up" => row[b].place = hot
        /\ \A p \in OnPrimary : pc[p] = "delete" => ~row[job[p].on].active

Turn == OnePrimary /\ Straight

\* There is a copy at the place of b.
Held(b) == blob[row[b].place] # NoBlob

\* A write that no change of the primary crossed will record, or recorded, where it wrote.
Sees(p) ==
    /\ pc[p] = "main" /\ ~job[p].crossed => \A b \in Active("primary") : row[b].place = hot
    /\ pc[p] = "primary" /\ ~job[p].crossed => \A b \in Active("primary") : Held(b)
    /\ pc[p] = "copies" => \A b \in job[p].kept : Held(b)

Writing ==
    /\ \A p \in Proc : Sees(p)
    /\ \A b \in sound : b \in loc \cap Born /\ Held(b)

IInv == Types /\ Shape /\ Keyring /\ Turn /\ Writing /\ StartsUnlessExcused

-----------------------------------------------------------------------------
(***************************************************************************)
(* Choices.                                                                *)
(***************************************************************************)
\* A set of numbers has a least one.
LEMMA MinIn ==
    ASSUME NEW S \in SUBSET Nat, S # {}
    PROVE  Min(S) \in S
<1>1. PICK x \in S : \A y \in S : <<y, x>> \notin OpToRel(<, Nat)
  BY NatLessThanWellFounded, WFMin
<1>2. \A y \in S : y < x => <<y, x>> \in OpToRel(<, Nat)
  BY DEF OpToRel
<1>3. x \in Nat /\ \A y \in S : y \in Nat
  OBVIOUS
<1>4. \A y \in S : ~(y < x)
  BY <1>1, <1>2
<1>5. \A y \in S : x =< y
  BY <1>3, <1>4
<1> QED
  BY <1>5 DEF Min

\* Backends are numbers, and few.
LEMMA Backends == Backend \subseteq Nat \ {0} /\ IsFiniteSet(Backend) /\ \A b \in Backend : b \in 0 .. NBackends
<1>1. IsFiniteSet(1 .. NBackends)
  BY FS_Interval, BackendsAssumption
<1> QED
  BY <1>1, BackendsAssumption DEF Backend

\* In a finite set of numbers some element has n below it, for each n below its size:
\* the elements have different numbers of elements below them, none too many.
LEMMA NthIn ==
    ASSUME NEW S \in SUBSET Backend, NEW n \in Nat, n < Cardinality(S)
    PROVE  Nth(S, n) \in S
<1> DEFINE below(b) == {c \in S : c < b}
           rank == [b \in S |-> Cardinality(below(b))]
           k == Cardinality(S)
<1>1. IsFiniteSet(S) /\ k \in Nat
  BY Backends, FS_Subset, FS_CardinalityType
<1>2. \A b \in S : IsFiniteSet(below(b)) /\ Cardinality(below(b)) \in 0 .. k - 1
  <2> SUFFICES ASSUME NEW b \in S PROVE IsFiniteSet(below(b)) /\ Cardinality(below(b)) \in 0 .. k - 1
    OBVIOUS
  <2>1. below(b) \subseteq S \ {b}
    BY Backends
  <2>2. IsFiniteSet(S \ {b}) /\ Cardinality(S \ {b}) = k - 1
    BY <1>1, FS_RemoveElement
  <2>3. IsFiniteSet(below(b)) /\ Cardinality(below(b)) =< k - 1
    BY <2>1, <2>2, FS_Subset
  <2>4. Cardinality(below(b)) \in Nat
    BY <2>3, FS_CardinalityType
  <2> QED
    BY <1>1, <2>3, <2>4
<1>3. ASSUME NEW b \in S, NEW c \in S, b < c PROVE rank[b] # rank[c]
  <2>1. below(b) \subseteq below(c) /\ b \in below(c) /\ b \notin below(b)
    <3>1. b \in Nat /\ c \in Nat /\ \A x \in S : x \in Nat
      BY Backends
    <3>2. \A x \in S : x < b => x < c
      BY <1>3, <3>1
    <3>3. ~(b < b)
      BY <3>1
    <3> QED
      BY <1>3, <3>2, <3>3
  <2>2. Cardinality(below(b)) # Cardinality(below(c))
    BY <1>2, <2>1, FS_Subset
  <2> QED
    BY <2>2
<1>4. \A b, c \in S : b < c \/ c < b \/ b = c
  BY Backends
<1>5. rank \in Injection(S, 0 .. k - 1)
  BY <1>2, <1>3, <1>4 DEF Injection, IsInjective
<1>6. IsFiniteSet(0 .. k - 1) /\ Cardinality(0 .. k - 1) = k
  <2>1. 0 \in Int /\ k - 1 \in Int /\ ~(0 > k - 1) /\ (k - 1) - 0 + 1 = k
    BY <1>1
  <2> QED
    BY <2>1, FS_Interval
<1>7. rank \in Surjection(S, 0 .. k - 1)
  BY <1>5, <1>6, FS_Injection
<1>8. PICK b \in S : rank[b] = n
  <2>1. n \in 0 .. k - 1
    BY <1>1
  <2> QED
    BY <1>7, <2>1 DEF Surjection
<1> QED
  BY <1>8 DEF Nth

-----------------------------------------------------------------------------
(***************************************************************************)
(* Types.                                                                  *)
(***************************************************************************)
\* The job of no request, and what the statements make of a job.
LEMMA JobFields ==
    /\ NoJob \in Jobs /\ NoRow \in Rows
    /\ \A j \in Jobs :
         /\ \A b \in BOOLEAN : [j EXCEPT !.crossed = b] \in Jobs /\ [j EXCEPT !.alone = b] \in Jobs
         /\ \A x \in Backend, b \in BOOLEAN : [j EXCEPT !.on = x, !.alone = b] \in Jobs
         /\ \A x \in 0 .. NBackends, C \in SUBSET Backend, b \in BOOLEAN :
              [j EXCEPT !.shard = x, !.copies = C, !.crossed = b] \in Jobs
         /\ \A C, D \in SUBSET Backend : [j EXCEPT !.ids = C, !.kept = D] \in Jobs
         /\ \A C \in SUBSET Backend : [j EXCEPT !.copies = C] \in Jobs /\ [j EXCEPT !.ids = C] \in Jobs
         /\ \A B, C, D \in SUBSET Backend : [[j EXCEPT !.copies = B] EXCEPT !.ids = C, !.kept = D] \in Jobs
<1>1. NoJob \in Jobs
  BY BackendsAssumption DEF NoJob, Jobs
<1>2. NoRow \in Rows
  BY BackendsAssumption DEF NoRow, Rows, Role
<1>3. \A j \in Jobs, b \in BOOLEAN : [j EXCEPT !.crossed = b] \in Jobs /\ [j EXCEPT !.alone = b] \in Jobs
  BY DEF Jobs
<1>4. \A j \in Jobs, x \in Backend, b \in BOOLEAN : [j EXCEPT !.on = x, !.alone = b] \in Jobs
  BY Backends DEF Jobs
<1>5. \A j \in Jobs, x \in 0 .. NBackends, C \in SUBSET Backend, b \in BOOLEAN :
         [j EXCEPT !.shard = x, !.copies = C, !.crossed = b] \in Jobs
  BY DEF Jobs
<1>6. \A j \in Jobs, C, D \in SUBSET Backend : [j EXCEPT !.ids = C, !.kept = D] \in Jobs
  BY DEF Jobs
<1>7. \A j \in Jobs, C \in SUBSET Backend : [j EXCEPT !.copies = C] \in Jobs /\ [j EXCEPT !.ids = C] \in Jobs
  BY DEF Jobs
<1> QED
  BY <1>1, <1>2, <1>3, <1>4, <1>5, <1>6, <1>7

\* A request stops, or the job of others is marked.
LEMMA MarksIn ==
    ASSUME TasksOK, NEW p \in Proc
    PROVE  /\ \A b \in Backend : Together(p, b) \in [Proc -> Jobs]
           /\ \A j \in Jobs : Crossed(p, j) \in [Proc -> Jobs]
<1>1. \A q \in Proc : job[q] \in Jobs /\ job[q].alone \in BOOLEAN
  BY DEF TasksOK, Jobs
<1>2. \A b \in Backend, q \in Proc :
         /\ (job[q].alone /\ row[b].role # "primary") \in BOOLEAN
         /\ (OnPrimary = {}) \in BOOLEAN
  BY <1>1
<1> QED
  BY <1>1, <1>2, JobFields DEF Together, Crossed

\* What moves one request on.
LEMMA GotoIn ==
    ASSUME TasksOK, NEW p \in Proc, NEW l \in Point, NEW j \in Jobs,
           Goto(p, l, j) \/ Advance(p, l, j)
    PROVE  TasksOK'
<1>1. CASE Goto(p, l, j)
  BY <1>1 DEF TasksOK, Goto, limits
<1>2. CASE Advance(p, l, j)
  <2>1. Crossed(p, j) \in [Proc -> Jobs]
    BY MarksIn
  <2> QED
    BY <1>2, <2>1 DEF TasksOK, Advance, limits
<1> QED
  BY <1>1, <1>2

\* A request ends.
LEMMA EndIn == ASSUME TasksOK, NEW p \in Proc, End(p) PROVE TasksOK'
  BY GotoIn, JobFields DEF End, Point

\* A request begins.
LEMMA AskIn ==
    ASSUME TasksOK, NEW p \in Proc, NEW l \in Point, NEW b \in Backend, Ask(p, l, b)
    PROVE  TasksOK'
  BY MarksIn, BackendsAssumption DEF TasksOK, Ask, Begin

\* A request fails.
LEMMA FailIn ==
    ASSUME TasksOK, NEW p \in Proc, Fault, NEW l \in Point, pc' = [pc EXCEPT ![p] = l] \/ pc' = pc,
           job' \in [Proc -> Jobs]
    PROVE  TasksOK'
  BY BackendsAssumption DEF TasksOK, Fault

\* All requests end.
LEMMA StopIn ==
    ASSUME TasksOK, Stop, ops' \in 0 .. MaxOps, faults' \in 0 .. MaxFaults
    PROVE  TasksOK'
  BY JobFields DEF TasksOK, Stop, Point

\* The shard of the chunk is an active one, if there is one: the remainder is below their number.
LEMMA ShardIn == ASSUME Types PROVE Shard \in Active("shard") \cup {0}
<1> DEFINE S == Active("shard")
<1>1. S \in SUBSET Backend
  BY DEF Active, Live
<1>2. IsFiniteSet(S) /\ Cardinality(S) \in Nat
  BY <1>1, Backends, FS_Subset, FS_CardinalityType
<1>3. CASE S = {}
  BY <1>3 DEF Shard
<1>4. CASE S # {}
  <2>1. Cardinality(S) > 0
    BY <1>2, <1>4, FS_EmptySet
  <2>2. byte \in Nat
    BY BackendsAssumption DEF Types, PlainOK
  <2>3. byte % Cardinality(S) \in 0 .. Cardinality(S) - 1
    BY <1>2, <2>1, <2>2
  <2>4. byte % Cardinality(S) \in Nat /\ byte % Cardinality(S) < Cardinality(S)
    BY <1>2, <2>3
  <2> HIDE DEF S
  <2>5. Nth(S, byte % Cardinality(S)) \in S
    BY <1>1, <2>4, NthIn
  <2> QED
    BY <1>4, <2>5 DEF Shard, S
<1> QED
  BY <1>3, <1>4

\* What is written is a copy under a key.
LEMMA WrittenIn ==
    ASSUME Types, Keyring, Open, NEW place \in Place
    PROVE  /\ Encrypted(place) \in Blobs /\ Encrypted(place) # NoBlob
           /\ Len(ring) \in DOMAIN ring /\ Last(ring) = ring[Len(ring)] /\ Last(ring) \in 1 .. made
<1>1. ring \in Seq(1 .. made) /\ ring # <<>> /\ made \in 0 .. MaxKeys
  BY DEF Keyring, Good, Types, PlainOK
<1>2. Len(ring) \in Nat /\ Len(ring) > 0 /\ DOMAIN ring = 1 .. Len(ring)
  BY <1>1
<1>3. Len(ring) \in DOMAIN ring
  BY <1>2
<1>4. Last(ring) = ring[Len(ring)] /\ Last(ring) \in 1 .. made
  BY <1>1, <1>3 DEF Last
<1>5. Len(ring) =< made
  <2>1. ring \in Injection(1 .. Len(ring), 1 .. made)
    BY <1>1, <1>2 DEF Keyring, Good, Injection, IsInjective
  <2>2. IsFiniteSet(1 .. made) /\ Cardinality(1 .. made) = made
    BY <1>1, FS_Interval
  <2>3. Cardinality(1 .. Len(ring)) = Len(ring)
    BY <1>2, FS_Interval
  <2> QED
    BY <2>1, <2>2, <2>3, FS_Injection
<1>6. CASE blob[place] # NoBlob
  BY <1>3, <1>4, <1>6 DEF Encrypted, Types, PlainOK
<1>7. CASE blob[place] = NoBlob
  <2>1. Encrypted(place) = [id |-> Len(ring), key |-> Last(ring)]
    BY <1>7 DEF Encrypted
  <2>2. Len(ring) \in 0 .. MaxKeys /\ Last(ring) \in 0 .. MaxKeys /\ Last(ring) # 0
    BY <1>1, <1>2, <1>4, <1>5, BackendsAssumption
  <2> QED
    BY <1>3, <1>4, <2>1, <2>2 DEF Blobs, NoBlob
<1> QED
  BY <1>6, <1>7

\* Every step keeps the types.
LEMMA TypesStep ==
    ASSUME Types, Shape, Keyring, [Next]_vars
    PROVE  Types'
<1>1. CASE LoadKeys
  <2>1. TasksOK'
    <3>1. faults' \in 0 .. MaxFaults /\ UNCHANGED <<ops, tasks>>
      BY <1>1, BackendsAssumption DEF LoadKeys, NotWritten, limits, Types, TasksOK
    <3> QED
      BY <3>1 DEF Types, TasksOK, tasks
  <2>2. RowsOK'
    BY <1>1 DEF LoadKeys, hist, Types, RowsOK
  <2>3. made' \in 0 .. MaxKeys
    BY <1>1, BackendsAssumption DEF LoadKeys, Types, PlainOK
  <2>4. server' \in {"down", "keys", "up", "dead"}
    BY <1>1 DEF LoadKeys, Types, PlainOK
  <2>5. hot' \in Place /\ misread' = FALSE /\ UNCHANGED <<byte, blob, askew>>
    BY <1>1, BackendsAssumption DEF LoadKeys
  <2> QED
    BY <2>1, <2>2, <2>3, <2>4, <2>5 DEF Types, PlainOK
<1>2. CASE OpenBackend
  <2>1. TasksOK'
    BY <1>2, BackendsAssumption DEF OpenBackend, Fault, tasks, limits, Types, TasksOK
  <2>2. BootRow \in Rows
    BY BackendsAssumption DEF BootRow, Rows, Role
  <2>3. RowsOK'
    BY <1>2, <2>2 DEF OpenBackend, BootFirst, Types, RowsOK
  <2>4. hot' \in Place
    BY <1>2 DEF OpenBackend, BootFirst, Types, PlainOK, RowsOK, Live, Rows
  <2>5. server' \in {"up", "dead"} /\ {askew, misread}' \subseteq BOOLEAN /\ UNCHANGED <<byte, blob, made>>
    BY <1>2 DEF OpenBackend, BootFirst, Types, PlainOK
  <2> QED
    BY <2>1, <2>3, <2>4, <2>5 DEF Types, PlainOK
<1>0. CASE Restart
  BY <1>0 DEF Restart, Types, RowsOK, TasksOK, PlainOK, disk, tasks, limits, hist
<1>3. CASE Crash
  <2>1. faults' \in 0 .. MaxFaults /\ ops' \in 0 .. MaxOps
    BY <1>3, BackendsAssumption DEF Crash, Fault, Types, TasksOK
  <2>2. TasksOK'
    BY <1>3, <2>1, StopIn DEF Crash, Types
  <2> QED
    BY <1>3, <2>2 DEF Crash, Stop, disk, Types, RowsOK, PlainOK
<1>4. CASE RotateKey
  <2>1. faults' \in 0 .. MaxFaults /\ ops' \in 0 .. MaxOps /\ made' \in 0 .. MaxKeys
    BY <1>4, BackendsAssumption DEF RotateKey, NotWritten, Types, TasksOK, PlainOK
  <2>2. TasksOK'
    BY <1>4, <2>1, StopIn DEF RotateKey, tasks, Types, TasksOK
  <2> QED
    BY <1>4, <2>1, <2>2 DEF RotateKey, Stop, Types, RowsOK, PlainOK
<1>5. ASSUME NEW role \in Role, NEW place \in Place, NEW boot \in BOOLEAN, CreateBackend(role, place, boot) PROVE Types'
  <2>1. ops' \in 0 .. MaxOps
    BY <1>5, BackendsAssumption DEF CreateBackend, Types, TasksOK
  <2>2. [st |-> "live", boot |-> boot, role |-> role, place |-> place, active |-> FALSE] \in Rows
    BY DEF Rows
  <2>3. row' \in [Backend -> Rows]
    BY <1>5, <2>2 DEF CreateBackend, Types, RowsOK
  <2> QED
    BY <1>5, <2>1, <2>3 DEF CreateBackend, memory, tasks, hist, Types, RowsOK, TasksOK,
       PlainOK
<1>6. ASSUME NEW p \in Proc, NEW b \in Backend, AskDelete(p, b) PROVE Types'
  <2>1. TasksOK'
    BY <1>6, AskIn DEF AskDelete, Types, Point, AdminAt
  <2> QED
    BY <1>6, <2>1 DEF AskDelete, Ask, disk, memory, hist, Types, RowsOK, PlainOK
<1>7. ASSUME NEW p \in Proc, NEW b \in Backend, AskActivate(p, b) PROVE Types'
  <2>1. TasksOK'
    BY <1>7, AskIn DEF AskActivate, Types, Point, AdminAt
  <2> QED
    BY <1>7, <2>1 DEF AskActivate, Ask, disk, memory, hist, Types, RowsOK, PlainOK
<1>8. ASSUME NEW p \in Proc, NEW b \in Backend, AskDeactivate(p, b) PROVE Types'
  <2>1. TasksOK'
    BY <1>8, AskIn DEF AskDeactivate, Types, Point, AdminAt
  <2> QED
    BY <1>8, <2>1 DEF AskDeactivate, Ask, disk, memory, hist, Types, RowsOK, PlainOK
<1>9. ASSUME NEW p \in Proc, DeleteBackend(p) PROVE Types'
  <2>1. TasksOK'
    BY <1>9, EndIn DEF DeleteBackend, Types
  <2>2. \A r \in Rows : [[r EXCEPT !.st = "gone"] EXCEPT !.active = FALSE] \in Rows
    BY DEF Rows
  <2>3. row' \in [Backend -> Rows]
    BY <1>9, <2>2 DEF DeleteBackend, Types, RowsOK
  <2> QED
    BY <1>9, <2>1, <2>3 DEF DeleteBackend, memory, hist, Types, RowsOK, PlainOK
<1>10. ASSUME NEW p \in Proc, Swap(p) PROVE Types'
  <2>1. job[p].on \in Backend /\ job[p] \in Jobs
    BY <1>10 DEF Swap, Shape, AdminAt, Born, Types, TasksOK
  <2>2. TasksOK'
    BY <1>10, <2>1, GotoIn DEF Swap, Types, Point, AdminAt
  <2>3. hot' \in Place
    BY <1>10, <2>1 DEF Swap, Types, RowsOK, Rows
  <2> QED
    BY <1>10, <2>2, <2>3 DEF Swap, disk, hist, Types, RowsOK, PlainOK
<1>11. ASSUME NEW p \in Proc, Clear(p) PROVE Types'
  <2>1. job[p].on \in Backend /\ job[p] \in Jobs
    BY <1>11 DEF Clear, Shape, AdminAt, Born, Types, TasksOK
  <2>2. TasksOK'
    BY <1>11, <2>1, GotoIn DEF Clear, Types, Point, AdminAt
  <2>3. row' \in [Backend -> Rows]
    BY <1>11 DEF Clear, Types, RowsOK, Rows
  <2> QED
    BY <1>11, <2>2, <2>3 DEF Clear, memory, hist, Types, RowsOK, PlainOK
<1>12. ASSUME NEW p \in Proc, Set(p) PROVE Types'
  <2>1. job[p].on \in Backend /\ job[p] \in Jobs
    BY <1>12 DEF Set, Shape, AdminAt, Born, Types, TasksOK
  <2>2. TasksOK'
    BY <1>12, <2>1, GotoIn, EndIn, JobFields DEF Set, Types, Point
  <2>3. \A r \in Rows, b \in BOOLEAN : [r EXCEPT !.active = b] \in Rows
    BY DEF Rows
  <2>4. row' \in [Backend -> Rows]
    BY <1>12, <2>3 DEF Set, Types, RowsOK
  <2>5. askew' \in BOOLEAN
    BY <1>12, <2>1 DEF Set, Types, PlainOK, Jobs
  <2> QED
    BY <1>12, <2>2, <2>4, <2>5 DEF Set, memory, Types, RowsOK, PlainOK
<1>13. ASSUME NEW p \in Proc, Deactivate(p) PROVE Types'
  <2>1. job[p].on \in Backend /\ job[p] \in Jobs
    BY <1>13 DEF Deactivate, Shape, AdminAt, Born, Types, TasksOK
  <2>2. TasksOK'
    BY <1>13, <2>1, GotoIn, EndIn, JobFields DEF Deactivate, Types, Point
  <2>3. \A r \in Rows, b \in BOOLEAN : [r EXCEPT !.active = b] \in Rows
    BY DEF Rows
  <2>4. row' \in [Backend -> Rows]
    BY <1>13, <2>3 DEF Deactivate, Types, RowsOK
  <2>5. askew' \in BOOLEAN
    BY <1>13, <2>1 DEF Deactivate, Types, PlainOK, Jobs
  <2> QED
    BY <1>13, <2>2, <2>4, <2>5 DEF Deactivate, memory, Types, RowsOK, PlainOK
<1>14. ASSUME NEW p \in Proc, AdminFails(p) PROVE Types'
  <2>1. Crossed(p, NoJob) \in [Proc -> Jobs]
    BY MarksIn, JobFields DEF Types
  <2>2. TasksOK'
    BY <1>14, <2>1, FailIn DEF AdminFails, Types, Point
  <2> QED
    BY <1>14, <2>2 DEF AdminFails, disk, memory, Types, RowsOK, PlainOK
<1>15. ASSUME NEW p \in Proc, WriteChunk(p) PROVE Types'
  <2>1. Shard \in 0 .. NBackends
    <3>1. Active("shard") \subseteq 0 .. NBackends
      BY Backends DEF Active, Live
    <3>2. 0 \in 0 .. NBackends
      BY BackendsAssumption
    <3> QED
      BY <3>1, <3>2, ShardIn
  <2>2. Active("replica") \in SUBSET Backend /\ (askew \/ Activating # {}) \in BOOLEAN
    BY DEF Active, Live, Types, PlainOK
  <2>3. PICK shard \in {Shard, 0}, copies \in {Active("replica"), {}} :
           /\ ops < MaxOps /\ ops' = ops + 1 /\ Missed(<<shard, copies>> # <<Shard, Active("replica")>>)
           /\ pc' = [pc EXCEPT ![p] = "main"]
           /\ job' = [job EXCEPT ![p] = [NoJob EXCEPT !.shard = shard, !.copies = copies,
                                                      !.crossed = askew \/ Activating # {}]]
    BY <1>15 DEF WriteChunk
  <2>4. [NoJob EXCEPT !.shard = shard, !.copies = copies, !.crossed = askew \/ Activating # {}] \in Jobs
    <3>1. shard \in 0 .. NBackends /\ copies \in SUBSET Backend
      BY <2>1, <2>2, BackendsAssumption
    <3> QED
      BY <2>2, <3>1, JobFields
  <2>5. TasksOK'
    BY <2>3, <2>4, BackendsAssumption DEF Missed, Types, TasksOK, Point, WriteAt
  <2> QED
    BY <1>15, <2>5 DEF WriteChunk, disk, memory, hist, Types, RowsOK, PlainOK
<1>16. ASSUME NEW p \in Proc, WriteMain(p) PROVE Types'
  <2>1. job[p] \in Jobs /\ job[p].shard \in 0 .. NBackends /\ job[p].copies \in SUBSET Backend
        /\ job[p].ids \in SUBSET Backend /\ job[p].kept \in SUBSET Backend
    BY DEF Types, TasksOK, Jobs
  <2>2. Open
    BY <1>16 DEF WriteMain, Shape, Open, Types, PlainOK
  <2>3. job[p].shard # 0 => {job[p].shard} \in SUBSET Backend
    BY <1>16 DEF WriteMain, Shape, WriteAt, Born
  <2>4. TasksOK'
    BY <1>16, <2>1, <2>3, JobFields, GotoIn DEF WriteMain, Types, Point, WriteAt
  <2>5. Target(job[p]) \in Place
    BY <2>3 DEF Target, Types, PlainOK, RowsOK, Rows
  <2>6. blob' \in [Place -> Blobs]
    BY <1>16, <2>2, <2>5, WrittenIn DEF WriteMain, WriteEncrypted, Types, PlainOK
  <2> QED
    BY <1>16, <2>4, <2>6 DEF WriteMain, memory, hist, Types, RowsOK, PlainOK
<1>17. ASSUME NEW p \in Proc, RecordPrimary(p) PROVE Types'
  <2>1. job[p] \in Jobs /\ job[p].shard \in 0 .. NBackends /\ job[p].copies \in SUBSET Backend
        /\ job[p].ids \in SUBSET Backend /\ job[p].kept \in SUBSET Backend
    BY DEF Types, TasksOK, Jobs
  <2>2. FindPrimary \in SUBSET Active("primary")
    <3>1. Active("primary") \in SUBSET Nat
      BY Backends DEF Active, Live
    <3> QED
      BY <3>1, MinIn DEF FindPrimary
  <2>3. FindPrimary \in SUBSET Backend
    BY <2>2 DEF Active, Live
  <2>4. PICK found \in {FindPrimary, {}} :
           /\ pc' = [pc EXCEPT ![p] = "copies"] /\ UNCHANGED ops /\ Missed(found # FindPrimary)
           /\ job' = [job EXCEPT ![p] = [job[p] EXCEPT !.ids = found, !.kept = IF job[p].crossed THEN {} ELSE found]]
    BY <1>17 DEF RecordPrimary
  <2>5. [job[p] EXCEPT !.ids = found, !.kept = IF job[p].crossed THEN {} ELSE found] \in Jobs
    <3>1. found \in SUBSET Backend /\ (IF job[p].crossed THEN {} ELSE found) \in SUBSET Backend
      BY <2>3
    <3> QED
      BY <2>1, <3>1, JobFields
  <2>6. TasksOK'
    BY <2>4, <2>5, BackendsAssumption DEF Missed, Types, TasksOK, Point, WriteAt
  <2> QED
    BY <1>17, <2>6 DEF RecordPrimary, disk, memory, hist, Types, RowsOK, PlainOK
<1>18. ASSUME NEW p \in Proc, WriteCopy(p) PROVE Types'
  <2>1. job[p] \in Jobs /\ job[p].shard \in 0 .. NBackends /\ job[p].copies \in SUBSET Backend
        /\ job[p].ids \in SUBSET Backend /\ job[p].kept \in SUBSET Backend
    BY DEF Types, TasksOK, Jobs
  <2>2. Open
    BY <1>18 DEF WriteCopy, Shape, Open, Types, PlainOK
  <2> DEFINE b == Min(job[p].copies)
             rest == [job[p] EXCEPT !.copies = job[p].copies \ {b}]
  <2>3. b \in Backend
    BY <1>18, <2>1, Backends, MinIn DEF WriteCopy
  <2>4. rest \in Jobs /\ [rest EXCEPT !.ids = rest.ids \cup {b}, !.kept = rest.kept \cup {b}] \in Jobs
    <3>1. job[p].copies \ {b} \in SUBSET Backend
      BY <2>1
    <3>2. rest \in Jobs /\ rest.ids \in SUBSET Backend /\ rest.kept \in SUBSET Backend
      BY <2>1, <3>1 DEF Jobs
    <3>3. rest.ids \cup {b} \in SUBSET Backend /\ rest.kept \cup {b} \in SUBSET Backend
      BY <2>3, <3>2
    <3> HIDE DEF rest
    <3> QED
      BY <3>2, <3>3 DEF Jobs
  <2>5. row[b].place \in Place
    BY <2>3 DEF Types, RowsOK, Rows
  <2> HIDE DEF b, rest
  <2>6. CASE WriteEncrypted(row[b].place) /\ Goto(p, "copies", [rest EXCEPT !.ids = rest.ids \cup {b}, !.kept = rest.kept \cup {b}])
    <3>1. TasksOK'
      BY <2>4, <2>6, GotoIn DEF Types, Point, WriteAt
    <3>2. blob' \in [Place -> Blobs]
      BY <2>2, <2>5, <2>6, WrittenIn DEF WriteEncrypted, Types, PlainOK
    <3> QED
      BY <1>18, <3>1, <3>2 DEF WriteCopy, memory, hist, Types, RowsOK, PlainOK
  <2>7. CASE Fault /\ pc' = pc /\ job' = [job EXCEPT ![p] = rest] /\ UNCHANGED blob
    <3>1. job' \in [Proc -> Jobs]
      BY <2>4, <2>7 DEF Types, TasksOK
    <3>2. TasksOK'
      BY <2>7, <3>1, FailIn DEF Types, Point
    <3> QED
      BY <1>18, <2>7, <3>2 DEF WriteCopy, memory, hist, Types, RowsOK, PlainOK
  <2> QED
    BY <1>18, <2>6, <2>7 DEF WriteCopy, b, rest
<1>19. ASSUME NEW p \in Proc, InsertLocation(p) PROVE Types'
  <2>1. job[p] \in Jobs /\ job[p].shard \in 0 .. NBackends /\ job[p].copies \in SUBSET Backend
        /\ job[p].ids \in SUBSET Backend /\ job[p].kept \in SUBSET Backend
    BY DEF Types, TasksOK, Jobs
  <2>2. PICK b \in job[p].ids :
           \/ /\ loc' = loc \cup {b} /\ sound' = sound \cup ({b} \cap job[p].kept)
              /\ Goto(p, "copies", [job[p] EXCEPT !.ids = job[p].ids \ {b}])
           \/ Fault /\ pc' = pc /\ job' = [job EXCEPT ![p] = [job[p] EXCEPT !.ids = job[p].ids \ {b}]]
              /\ UNCHANGED <<loc, sound>>
    BY <1>19 DEF InsertLocation
  <2>3. job[p].ids \ {b} \in SUBSET Backend
    BY <2>1
  <2>4. [job[p] EXCEPT !.ids = job[p].ids \ {b}] \in Jobs
    BY <2>1, <2>3 DEF Jobs
  <2>5. job' \in [Proc -> Jobs] /\ TasksOK'
    <3>1. CASE Goto(p, "copies", [job[p] EXCEPT !.ids = job[p].ids \ {b}])
      BY <2>4, <3>1, GotoIn DEF Types, Point, WriteAt, TasksOK
    <3>2. CASE Fault /\ pc' = pc /\ job' = [job EXCEPT ![p] = [job[p] EXCEPT !.ids = job[p].ids \ {b}]]
      <4>1. job' \in [Proc -> Jobs]
        BY <2>4, <3>2 DEF Types, TasksOK
      <4> QED
        BY <3>2, <4>1, FailIn DEF Types, Point
    <3> QED
      BY <2>2, <3>1, <3>2
  <2>6. RowsOK'
    BY <1>19, <2>1, <2>2 DEF InsertLocation, Types, RowsOK
  <2> QED
    BY <1>19, <2>5, <2>6 DEF InsertLocation, memory, Types, PlainOK
<1>20. ASSUME NEW p \in Proc, Written(p) PROVE Types'
  <2>1. TasksOK'
    BY <1>20, EndIn DEF Written, Types
  <2> QED
    BY <1>20, <2>1 DEF Written, disk, memory, hist, Types, RowsOK, PlainOK
<1>21. ASSUME NEW p \in Proc, WriteFails(p) PROVE Types'
  <2>1. job' \in [Proc -> Jobs]
    BY <1>21, JobFields DEF WriteFails, Types, TasksOK
  <2>2. TasksOK'
    BY <1>21, <2>1, FailIn DEF WriteFails, Types, Point
  <2> QED
    BY <1>21, <2>2 DEF WriteFails, disk, memory, hist, Types, RowsOK, PlainOK
<1>22. CASE UNCHANGED vars
  BY <1>22 DEF vars, TasksOK, Types, RowsOK, PlainOK, disk, memory, tasks, limits, hist
<1> QED
  BY <1>0, <1>1, <1>2, <1>3, <1>4, <1>5, <1>6, <1>7, <1>8, <1>9, <1>10, <1>11, <1>12, <1>13,
     <1>14, <1>15, <1>16, <1>17, <1>18, <1>19, <1>20, <1>21, <1>22 DEF Next, GqlCreate,
     GqlDelete, GqlActivate, GqlDeactivate

-----------------------------------------------------------------------------
(***************************************************************************)
(* Shape.                                                                  *)
(***************************************************************************)
\* A backend stays made, in its role and place.
KeepsRows == \A b \in Born : b \in Born' /\ row'[b].role = row[b].role /\ row'[b].place = row[b].place

\* The requests but that of p stay where they are, but for their marks.
Others(p) == \A q \in Proc \ {p} :
    /\ pc'[q] = pc[q] /\ job'[q].on = job[q].on /\ job'[q].shard = job[q].shard
    /\ job'[q].copies = job[q].copies /\ job'[q].ids = job[q].ids /\ job'[q].kept = job[q].kept
    /\ job[q].crossed => job'[q].crossed

\* What is marked in the jobs of others, and what is not touched.
LEMMA MarksKeep ==
    ASSUME TasksOK, NEW p \in Proc, NEW j \in Jobs, NEW b \in Backend, NEW q \in Proc \ {p}
    PROVE  /\ Crossed(p, j)[q].crossed /\ Crossed(p, j)[q].on = job[q].on
           /\ Crossed(p, j)[q].shard = job[q].shard /\ Crossed(p, j)[q].copies = job[q].copies
           /\ Crossed(p, j)[q].ids = job[q].ids /\ Crossed(p, j)[q].kept = job[q].kept
           /\ Crossed(p, j)[q].alone = job[q].alone
           /\ Together(p, b)[q].crossed = job[q].crossed /\ Together(p, b)[q].on = job[q].on
           /\ Together(p, b)[q].shard = job[q].shard /\ Together(p, b)[q].copies = job[q].copies
           /\ Together(p, b)[q].ids = job[q].ids /\ Together(p, b)[q].kept = job[q].kept
           /\ Together(p, b)[q].alone = (job[q].alone /\ row[b].role # "primary")
<1>1. job[q] \in Jobs
  BY DEF TasksOK
<1>2. Crossed(p, j)[q] = [job[q] EXCEPT !.crossed = TRUE]
  BY DEF Crossed
<1>3. Together(p, b)[q] = [job[q] EXCEPT !.alone = job[q].alone /\ row[b].role # "primary"]
  BY DEF Together
<1>4. /\ Crossed(p, j)[q].crossed /\ Crossed(p, j)[q].on = job[q].on
      /\ Crossed(p, j)[q].shard = job[q].shard /\ Crossed(p, j)[q].copies = job[q].copies
      /\ Crossed(p, j)[q].ids = job[q].ids /\ Crossed(p, j)[q].kept = job[q].kept
      /\ Crossed(p, j)[q].alone = job[q].alone
  BY <1>1, <1>2 DEF Jobs
<1>5. /\ Together(p, b)[q].crossed = job[q].crossed /\ Together(p, b)[q].on = job[q].on
      /\ Together(p, b)[q].shard = job[q].shard /\ Together(p, b)[q].copies = job[q].copies
      /\ Together(p, b)[q].ids = job[q].ids /\ Together(p, b)[q].kept = job[q].kept
      /\ Together(p, b)[q].alone = (job[q].alone /\ row[b].role # "primary")
  BY <1>1, <1>3 DEF Jobs
<1> QED
  BY <1>4, <1>5

\* Where a step leaves the requests.
LEMMA GotoAt ==
    ASSUME TasksOK, NEW p \in Proc, NEW l, NEW j, Goto(p, l, j)
    PROVE  Others(p) /\ pc'[p] = l /\ job'[p] = j /\ \A q \in Proc \ {p} : job'[q] = job[q]
  BY DEF Goto, Others, TasksOK

\* Where a step that crosses the writes of others leaves the requests.
LEMMA AdvanceAt ==
    ASSUME TasksOK, NEW p \in Proc, NEW l, NEW j \in Jobs, pc' = [pc EXCEPT ![p] = l], job' = Crossed(p, j)
    PROVE  /\ Others(p) /\ pc'[p] = l /\ job'[p] = j
           /\ \A q \in Proc \ {p} : job'[q].crossed /\ job'[q].alone = job[q].alone
<1>1. \A q \in Proc \ {p} : pc'[q] = pc[q]
  BY DEF TasksOK
<1>2. pc'[p] = l /\ job'[p] = j
  BY DEF TasksOK, Crossed
<1>3. \A b \in Backend : TRUE
  OBVIOUS
<1>4. 1 \in Backend
  BY BackendsAssumption DEF Backend
<1> QED
  BY <1>1, <1>2, <1>4, MarksKeep DEF Others

\* Where the first step of an administrator's request leaves the requests.
LEMMA AskAt ==
    ASSUME TasksOK, NEW p \in Proc, NEW l, NEW b \in Backend, Ask(p, l, b)
    PROVE  /\ Others(p) /\ pc'[p] = l /\ pc[p] = "idle" /\ server = "up"
           /\ job'[p].on = b /\ (job'[p].alone <=> OnPrimary = {})
           /\ \A q \in Proc \ {p} : job'[q].alone = (job[q].alone /\ row[b].role # "primary")
           /\ UNCHANGED <<disk, memory, hist>>
<1>1. \A q \in Proc \ {p} : pc'[q] = pc[q]
  BY DEF TasksOK, Ask, Begin
<1>2. pc'[p] = l /\ pc[p] = "idle" /\ server = "up" /\ job'[p] = [NoJob EXCEPT !.on = b, !.alone = (OnPrimary = {})]
  BY DEF TasksOK, Ask, Begin, Together
<1>3. job' = Together(p, b) /\ UNCHANGED <<disk, memory, hist>>
  BY DEF Ask
<1>4. ASSUME NEW q \in Proc \ {p}
      PROVE  /\ job'[q].on = job[q].on /\ job'[q].shard = job[q].shard
             /\ job'[q].copies = job[q].copies /\ job'[q].ids = job[q].ids /\ job'[q].kept = job[q].kept
             /\ job'[q].crossed = job[q].crossed
             /\ job'[q].alone = (job[q].alone /\ row[b].role # "primary")
  <2>1. NoJob \in Jobs /\ job'[q] = Together(p, b)[q]
    BY <1>3, JobFields
  <2>2. /\ Together(p, b)[q].crossed = job[q].crossed /\ Together(p, b)[q].on = job[q].on
        /\ Together(p, b)[q].shard = job[q].shard /\ Together(p, b)[q].copies = job[q].copies
        /\ Together(p, b)[q].ids = job[q].ids /\ Together(p, b)[q].kept = job[q].kept
        /\ Together(p, b)[q].alone = (job[q].alone /\ row[b].role # "primary")
    BY <2>1, MarksKeep
  <2> QED
    BY <2>1, <2>2
<1>5. job'[p].on = b /\ (job'[p].alone <=> OnPrimary = {})
  BY <1>2 DEF NoJob
<1> QED
  BY <1>1, <1>2, <1>3, <1>4, <1>5 DEF Others

\* No step unmakes a backend, or moves it.
LEMMA RowsKeep ==
    ASSUME Types, Shape, [Next]_vars
    PROVE  KeepsRows
<1>1. CASE LoadKeys
  BY <1>1 DEF LoadKeys, KeepsRows, Born, Ask, disk
<1>2. CASE OpenBackend
  <2>1. CASE UNCHANGED row
    BY <2>1 DEF KeepsRows, Born
  <2>2. CASE Unborn # {} /\ row' = [row EXCEPT ![Min(Unborn)] = BootRow]
    <3>1. Min(Unborn) \in Unborn
      <4>1. Unborn \in SUBSET Nat
        BY Backends DEF Unborn
      <4> QED
        BY <2>2, <4>1, MinIn
    <3> QED
      BY <2>2, <3>1 DEF KeepsRows, Born, Unborn, Types, RowsOK
  <2> QED
    BY <1>2, <2>1, <2>2 DEF OpenBackend, BootFirst
<1>0. CASE Restart
  BY <1>0 DEF Restart, KeepsRows, Born, disk
<1>3. CASE Crash
  BY <1>3 DEF Crash, KeepsRows, Born, Ask, disk
<1>4. CASE RotateKey
  BY <1>4 DEF RotateKey, KeepsRows, Born, Ask, disk
<1>5. ASSUME NEW role \in Role, NEW place \in Place, NEW boot \in BOOLEAN, CreateBackend(role, place, boot) PROVE KeepsRows
  <2>1. Min(Unborn) \in Unborn
    <3>1. Unborn \in SUBSET Nat
      BY Backends DEF Unborn
    <3> QED
      BY <1>5, <3>1, MinIn DEF CreateBackend
  <2> QED
    BY <1>5, <2>1 DEF CreateBackend, KeepsRows, Born, Unborn, Types, RowsOK
<1>6. ASSUME NEW p \in Proc, NEW b \in Backend, AskDelete(p, b) PROVE KeepsRows
  BY <1>6 DEF AskDelete, KeepsRows, Born, Ask, disk
<1>7. ASSUME NEW p \in Proc, NEW b \in Backend, AskActivate(p, b) PROVE KeepsRows
  BY <1>7 DEF AskActivate, KeepsRows, Born, Ask, disk
<1>8. ASSUME NEW p \in Proc, NEW b \in Backend, AskDeactivate(p, b) PROVE KeepsRows
  BY <1>8 DEF AskDeactivate, KeepsRows, Born, Ask, disk
<1>9. ASSUME NEW p \in Proc, DeleteBackend(p) PROVE KeepsRows
  BY <1>9 DEF DeleteBackend, KeepsRows, Born, Types, RowsOK, Rows
<1>10. ASSUME NEW p \in Proc, Swap(p) PROVE KeepsRows
  BY <1>10 DEF Swap, KeepsRows, Born, Ask, disk
<1>11. ASSUME NEW p \in Proc, Clear(p) PROVE KeepsRows
  BY <1>11 DEF Clear, KeepsRows, Born, Types, RowsOK, Rows
<1>12. ASSUME NEW p \in Proc, Set(p) PROVE KeepsRows
  BY <1>12 DEF Set, KeepsRows, Born, Types, RowsOK, Rows
<1>13. ASSUME NEW p \in Proc, Deactivate(p) PROVE KeepsRows
  BY <1>13 DEF Deactivate, KeepsRows, Born, Types, RowsOK, Rows
<1>14. ASSUME NEW p \in Proc, AdminFails(p) PROVE KeepsRows
  BY <1>14 DEF AdminFails, KeepsRows, Born, Ask, disk
<1>15. ASSUME NEW p \in Proc, WriteChunk(p) PROVE KeepsRows
  BY <1>15 DEF WriteChunk, KeepsRows, Born, Ask, disk
<1>16. ASSUME NEW p \in Proc, WriteMain(p) PROVE KeepsRows
  BY <1>16 DEF WriteMain, KeepsRows, Born, Ask, disk
<1>17. ASSUME NEW p \in Proc, RecordPrimary(p) PROVE KeepsRows
  BY <1>17 DEF RecordPrimary, KeepsRows, Born, Ask, disk
<1>18. ASSUME NEW p \in Proc, WriteCopy(p) PROVE KeepsRows
  BY <1>18 DEF WriteCopy, KeepsRows, Born, Ask, disk
<1>19. ASSUME NEW p \in Proc, InsertLocation(p) PROVE KeepsRows
  BY <1>19 DEF InsertLocation, KeepsRows, Born, Ask, disk
<1>20. ASSUME NEW p \in Proc, Written(p) PROVE KeepsRows
  BY <1>20 DEF Written, KeepsRows, Born, Ask, disk
<1>21. ASSUME NEW p \in Proc, WriteFails(p) PROVE KeepsRows
  BY <1>21 DEF WriteFails, KeepsRows, Born, Ask, disk
<1>22. CASE UNCHANGED vars
  BY <1>22 DEF vars, disk, KeepsRows, Born
<1> QED
  BY <1>0, <1>1, <1>2, <1>3, <1>4, <1>5, <1>6, <1>7, <1>8, <1>9, <1>10, <1>11, <1>12, <1>13,
     <1>14, <1>15, <1>16, <1>17, <1>18, <1>19, <1>20, <1>21, <1>22 DEF Next, GqlCreate,
     GqlDelete, GqlActivate, GqlDeactivate

\* A step of p that finds and leaves the server up.
LEMMA ShapeOne ==
    ASSUME Types, Shape, KeepsRows, NEW p \in Proc, Others(p), server = "up", server' = server,
           pc'[p] \in AdminAt => job'[p].on \in Born,
           pc'[p] \in {"swap", "clear"} => row[job'[p].on].role = "primary",
           pc'[p] \in WriteAt => /\ job'[p].shard \in Born \cup {0}
                                 /\ job'[p].copies \cup job'[p].ids \cup job'[p].kept \subseteq Born
    PROVE  Shape'
<1>1. Born \subseteq Born' /\ \A b \in Born : row'[b].role = row[b].role
  BY DEF KeepsRows
<1>2. ASSUME NEW q \in Proc
      PROVE  /\ pc'[q] \in AdminAt => job'[q].on \in Born
             /\ pc'[q] \in {"swap", "clear"} => row[job'[q].on].role = "primary"
             /\ pc'[q] \in WriteAt => /\ job'[q].shard \in Born \cup {0}
                                      /\ job'[q].copies \cup job'[q].ids \cup job'[q].kept \subseteq Born
  <2>1. CASE q = p
    BY <2>1
  <2>2. CASE q # p
    BY <2>2 DEF Shape, Others
  <2> QED
    BY <2>1, <2>2
<1>3. \A q \in Proc : pc'[q] \in {"swap", "clear"} => row'[job'[q].on].role = "primary"
  BY <1>1, <1>2 DEF AdminAt
<1> QED
  BY <1>1, <1>2, <1>3 DEF Shape, AdminAt, WriteAt

\* Every step keeps the shape.
LEMMA ShapeStep ==
    ASSUME Types, Shape, [Next]_vars
    PROVE  Shape'
<1> KeepsRows
  BY RowsKeep
<1>1. CASE LoadKeys
  BY <1>1 DEF LoadKeys, Shape, Born, tasks
<1>2. CASE OpenBackend
  <2>1. UNCHANGED tasks /\ server = "keys"
    BY <1>2 DEF OpenBackend
  <2>2. server' \in {"up", "dead"} /\ \A p \in Proc : pc'[p] = "idle"
    BY <1>2, <2>1 DEF OpenBackend, BootFirst, Shape, tasks
  <2> QED
    BY <2>2 DEF Shape, AdminAt, WriteAt
<1>0. CASE Restart
  BY <1>0 DEF Restart, Shape, Born, disk, tasks
<1>3. CASE Crash
  BY <1>3 DEF Crash, Stop, Shape, AdminAt, WriteAt
<1>4. CASE RotateKey
  <2>1. CASE Stop
    BY <2>1 DEF Stop, Shape, AdminAt, WriteAt
  <2>2. CASE UNCHANGED <<server, askew, tasks>>
    BY <1>4, <2>2 DEF RotateKey, Shape, Born, tasks
  <2> QED
    BY <1>4, <2>1, <2>2 DEF RotateKey
<1>5. ASSUME NEW role \in Role, NEW place \in Place, NEW boot \in BOOLEAN, CreateBackend(role, place, boot) PROVE Shape'
  <2>1. server = "up" /\ UNCHANGED <<server, tasks>>
    BY <1>5 DEF CreateBackend, memory
  <2>2. Born \subseteq Born' /\ \A b \in Born : row'[b].role = row[b].role
    BY DEF KeepsRows
  <2> QED
    BY <2>1, <2>2 DEF Shape, tasks, AdminAt
<1>6. ASSUME NEW p \in Proc, NEW b \in Backend, AskDelete(p, b) PROVE Shape'
  <2>1. b \in Born /\ Ask(p, "delete", b)
    BY <1>6 DEF AskDelete, Live, Born
  <2>3. /\ Others(p) /\ server = "up" /\ UNCHANGED memory
        /\ job'[p].on = b
    BY <2>1, AskAt DEF Types
  <2>5. UNCHANGED server
    BY <2>3 DEF memory
  <2>4. pc'[p] = "delete"
    BY <2>1, AskAt DEF Types
  <2> QED
    BY <2>1, <2>3, <2>4, <2>5, ShapeOne DEF WriteAt
<1>7. ASSUME NEW p \in Proc, NEW b \in Backend, AskActivate(p, b) PROVE Shape'
  <2>1. b \in Born /\ Ask(p, IF row[b].role = "primary" THEN "swap" ELSE "set", b)
    BY <1>7 DEF AskActivate, Live, Born
  <2>3. /\ Others(p) /\ server = "up" /\ UNCHANGED memory
        /\ job'[p].on = b
    BY <2>1, AskAt DEF Types
  <2>5. UNCHANGED server
    BY <2>3 DEF memory
  <2>4. pc'[p] = IF row[b].role = "primary" THEN "swap" ELSE "set"
    BY <2>1, AskAt DEF Types
  <2> QED
    BY <2>1, <2>3, <2>4, <2>5, ShapeOne DEF WriteAt
<1>8. ASSUME NEW p \in Proc, NEW b \in Backend, AskDeactivate(p, b) PROVE Shape'
  <2>1. b \in Born /\ Ask(p, "unset", b)
    BY <1>8 DEF AskDeactivate, Live, Born
  <2>3. /\ Others(p) /\ server = "up" /\ UNCHANGED memory
        /\ job'[p].on = b
    BY <2>1, AskAt DEF Types
  <2>5. UNCHANGED server
    BY <2>3 DEF memory
  <2>4. pc'[p] = "unset"
    BY <2>1, AskAt DEF Types
  <2> QED
    BY <2>1, <2>3, <2>4, <2>5, ShapeOne DEF WriteAt
<1>9. ASSUME NEW p \in Proc, DeleteBackend(p) PROVE Shape'
  <2>1. server = "up" /\ UNCHANGED server
    BY <1>9 DEF DeleteBackend, Shape, memory
  <2>2. Others(p) /\ pc'[p] = "idle"
    BY <1>9, GotoAt DEF DeleteBackend, End, Types
  <2> QED
    BY <2>1, <2>2, ShapeOne DEF AdminAt, WriteAt
<1>10. ASSUME NEW p \in Proc, Swap(p) PROVE Shape'
  <2>1. server = "up" /\ UNCHANGED server
    BY <1>10 DEF Swap, Shape, memory
  <2>2. job[p] \in Jobs /\ job[p].on \in Born
    BY <1>10 DEF Swap, Shape, AdminAt, Types, TasksOK
  <2>3. Others(p) /\ pc'[p] = "clear" /\ job'[p] = job[p]
    BY <1>10, <2>2, AdvanceAt DEF Swap, Advance, Types
  <2>4. row[job[p].on].role = "primary"
    BY <1>10 DEF Swap, Shape
  <2> QED
    BY <2>1, <2>2, <2>3, <2>4, ShapeOne DEF AdminAt, WriteAt
<1>11. ASSUME NEW p \in Proc, Clear(p) PROVE Shape'
  <2>1. server = "up" /\ UNCHANGED server
    BY <1>11 DEF Clear, Shape, memory
  <2>2. job[p] \in Jobs /\ job[p].on \in Born
    BY <1>11 DEF Clear, Shape, AdminAt, Types, TasksOK
  <2>3. Others(p) /\ pc'[p] = "set" /\ job'[p] = job[p]
    BY <1>11, <2>2, AdvanceAt DEF Clear, Advance, Types
  <2>4. row[job[p].on].role = "primary"
    BY <1>11 DEF Clear, Shape
  <2> QED
    BY <2>1, <2>2, <2>3, <2>4, ShapeOne DEF AdminAt, WriteAt
<1>12. ASSUME NEW p \in Proc, Set(p) PROVE Shape'
  <2>1. server = "up" /\ UNCHANGED server
    BY <1>12 DEF Set, Shape, memory
  <2>2. Others(p) /\ pc'[p] = "idle"
    BY <1>12, GotoAt, AdvanceAt, JobFields DEF Set, End, Advance, Types
  <2> QED
    BY <2>1, <2>2, ShapeOne DEF AdminAt, WriteAt
<1>13. ASSUME NEW p \in Proc, Deactivate(p) PROVE Shape'
  <2>1. server = "up" /\ UNCHANGED server
    BY <1>13 DEF Deactivate, Shape, memory
  <2>2. Others(p) /\ pc'[p] = "idle"
    BY <1>13, GotoAt, AdvanceAt, JobFields DEF Deactivate, End, Advance, Types
  <2> QED
    BY <2>1, <2>2, ShapeOne DEF AdminAt, WriteAt
<1>14. ASSUME NEW p \in Proc, AdminFails(p) PROVE Shape'
  <2>1. server = "up" /\ UNCHANGED server
    BY <1>14 DEF AdminFails, Shape, memory
  <2>2. Others(p) /\ pc'[p] = "idle"
    BY <1>14, AdvanceAt, JobFields DEF AdminFails, Types
  <2> QED
    BY <2>1, <2>2, ShapeOne DEF AdminAt, WriteAt
<1>15. ASSUME NEW p \in Proc, WriteChunk(p) PROVE Shape'
  <2>1. server = "up" /\ UNCHANGED server
    BY <1>15 DEF WriteChunk, memory
  <2>2. PICK shard \in {Shard, 0}, copies \in {Active("replica"), {}} :
           /\ pc' = [pc EXCEPT ![p] = "main"]
           /\ job' = [job EXCEPT ![p] = [NoJob EXCEPT !.shard = shard, !.copies = copies,
                                                      !.crossed = askew \/ Activating # {}]]
    BY <1>15 DEF WriteChunk
  <2>3. Others(p) /\ pc'[p] = "main" /\ job'[p] = [NoJob EXCEPT !.shard = shard, !.copies = copies,
                                                                !.crossed = askew \/ Activating # {}]
    BY <2>2 DEF Others, Types, TasksOK
  <2>4. job'[p].shard = shard /\ job'[p].copies = copies /\ job'[p].ids = {} /\ job'[p].kept = {}
    BY <2>3 DEF NoJob
  <2>5. shard \in Born \cup {0} /\ copies \subseteq Born
    BY ShardIn DEF Active, Live, Born
  <2> QED
    BY <2>1, <2>3, <2>4, <2>5, ShapeOne DEF AdminAt, WriteAt
<1>16. ASSUME NEW p \in Proc, WriteMain(p) PROVE Shape'
  <2>1. server = "up" /\ UNCHANGED server
    BY <1>16 DEF WriteMain, Shape, memory
  <2>2. job[p] \in Jobs /\ job[p].shard \in Born \cup {0} /\ job[p].copies \cup job[p].ids \cup job[p].kept \subseteq Born
    BY <1>16 DEF WriteMain, Shape, WriteAt, Types, TasksOK
  <2>3. CASE job[p].shard # 0
    <3> DEFINE j == [job[p] EXCEPT !.ids = {job[p].shard}, !.kept = {job[p].shard}]
    <3>1. Goto(p, "copies", j)
      BY <1>16, <2>3 DEF WriteMain
    <3>2. j.shard = job[p].shard /\ j.copies = job[p].copies /\ j.ids = {job[p].shard} /\ j.kept = {job[p].shard}
      BY <2>2 DEF Jobs
    <3> HIDE DEF j
    <3>3. Others(p) /\ pc'[p] = "copies" /\ job'[p] = j
      BY <3>1, GotoAt DEF Types
    <3> QED
      BY <2>1, <2>2, <2>3, <3>2, <3>3, ShapeOne DEF AdminAt, WriteAt
  <2>4. CASE job[p].shard = 0
    <3>1. Others(p) /\ pc'[p] = "primary" /\ job'[p] = job[p]
      BY <1>16, <2>4, GotoAt DEF WriteMain, Types
    <3> QED
      BY <2>1, <2>2, <3>1, ShapeOne DEF AdminAt, WriteAt
  <2> QED
    BY <2>3, <2>4
<1>17. ASSUME NEW p \in Proc, RecordPrimary(p) PROVE Shape'
  <2>1. server = "up" /\ UNCHANGED server
    BY <1>17 DEF RecordPrimary, Shape, memory
  <2>2. job[p] \in Jobs /\ job[p].shard \in Born \cup {0} /\ job[p].copies \cup job[p].ids \cup job[p].kept \subseteq Born
    BY <1>17 DEF RecordPrimary, Shape, WriteAt, Types, TasksOK
  <2>3. PICK found \in {FindPrimary, {}} :
           /\ pc' = [pc EXCEPT ![p] = "copies"]
           /\ job' = [job EXCEPT ![p] = [job[p] EXCEPT !.ids = found, !.kept = IF job[p].crossed THEN {} ELSE found]]
    BY <1>17 DEF RecordPrimary
  <2> DEFINE kept == IF job[p].crossed THEN {} ELSE found
             j == [job[p] EXCEPT !.ids = found, !.kept = kept]
  <2>4. found \subseteq Born
    <3>1. Active("primary") \in SUBSET Nat /\ Active("primary") \subseteq Born
      BY Backends DEF Active, Live, Born
    <3> QED
      BY <3>1, MinIn DEF FindPrimary
  <2>5. j.shard = job[p].shard /\ j.copies = job[p].copies /\ j.ids = found /\ j.kept = kept
    BY <2>2 DEF Jobs
  <2>6. kept \subseteq found
    OBVIOUS
  <2>7. job' = [job EXCEPT ![p] = j]
    BY <2>3
  <2> HIDE DEF j, kept
  <2>8. Others(p) /\ pc'[p] = "copies" /\ job'[p] = j
    BY <2>3, <2>7 DEF Others, Types, TasksOK
  <2> QED
    BY <2>1, <2>2, <2>4, <2>5, <2>6, <2>8, ShapeOne DEF AdminAt, WriteAt
<1>18. ASSUME NEW p \in Proc, WriteCopy(p) PROVE Shape'
  <2>1. server = "up" /\ UNCHANGED server
    BY <1>18 DEF WriteCopy, Shape, memory
  <2>2. job[p] \in Jobs /\ job[p].shard \in Born \cup {0} /\ job[p].copies \cup job[p].ids \cup job[p].kept \subseteq Born
    BY <1>18 DEF WriteCopy, Shape, WriteAt, Types, TasksOK
  <2>3. Min(job[p].copies) \in job[p].copies
    <3>1. job[p].copies \in SUBSET Nat
      BY <2>2, Backends DEF Born
    <3> QED
      BY <1>18, <3>1, MinIn DEF WriteCopy
  <2>4. /\ Others(p) /\ pc'[p] = "copies" /\ job'[p].shard = job[p].shard
        /\ job'[p].copies \cup job'[p].ids \cup job'[p].kept
             \subseteq job[p].copies \cup job[p].ids \cup job[p].kept \cup {Min(job[p].copies)}
    <3> DEFINE b == Min(job[p].copies)
               rest == [job[p] EXCEPT !.copies = job[p].copies \ {b}]
               more == [rest EXCEPT !.ids = rest.ids \cup {b}, !.kept = rest.kept \cup {b}]
    <3>1. /\ rest.shard = job[p].shard /\ rest.copies = job[p].copies \ {b}
          /\ rest.ids = job[p].ids /\ rest.kept = job[p].kept
      BY <2>2 DEF Jobs
    <3>2. /\ more.shard = job[p].shard /\ more.copies = job[p].copies \ {b}
          /\ more.ids = job[p].ids \cup {b} /\ more.kept = job[p].kept \cup {b}
      BY <2>2 DEF Jobs
    <3> HIDE DEF rest, more
    <3>3. Goto(p, "copies", more) \/ (pc' = pc /\ job' = [job EXCEPT ![p] = rest] /\ pc[p] = "copies")
      BY <1>18 DEF WriteCopy, more, rest
    <3>4. CASE Goto(p, "copies", more)
      BY <3>2, <3>4, GotoAt DEF Types
    <3>5. CASE pc' = pc /\ job' = [job EXCEPT ![p] = rest] /\ pc[p] = "copies"
      BY <3>1, <3>5 DEF Others, Types, TasksOK
    <3> QED
      BY <3>3, <3>4, <3>5

  <2> QED
    BY <2>1, <2>2, <2>3, <2>4, ShapeOne DEF AdminAt, WriteAt
<1>19. ASSUME NEW p \in Proc, InsertLocation(p) PROVE Shape'
  <2>1. server = "up" /\ UNCHANGED server
    BY <1>19 DEF InsertLocation, Shape, memory
  <2>2. job[p] \in Jobs /\ job[p].shard \in Born \cup {0} /\ job[p].copies \cup job[p].ids \cup job[p].kept \subseteq Born
    BY <1>19 DEF InsertLocation, Shape, WriteAt, Types, TasksOK
  <2>3. PICK b \in job[p].ids :
           LET rest == [job[p] EXCEPT !.ids = job[p].ids \ {b}]
           IN  /\ pc[p] = "copies"
               /\ Goto(p, "copies", rest) \/ (pc' = pc /\ job' = [job EXCEPT ![p] = rest])
    BY <1>19 DEF InsertLocation
  <2>4. /\ Others(p) /\ pc'[p] = "copies" /\ job'[p].shard = job[p].shard
        /\ job'[p].copies = job[p].copies /\ job'[p].ids = job[p].ids \ {b} /\ job'[p].kept = job[p].kept
    <3> DEFINE rest == [job[p] EXCEPT !.ids = job[p].ids \ {b}]
    <3>1. /\ rest.shard = job[p].shard /\ rest.copies = job[p].copies
          /\ rest.ids = job[p].ids \ {b} /\ rest.kept = job[p].kept
      BY <2>2 DEF Jobs
    <3>3. Goto(p, "copies", rest) \/ (pc' = pc /\ job' = [job EXCEPT ![p] = rest])
      BY <2>3
    <3> HIDE DEF rest
    <3>4. CASE Goto(p, "copies", rest)
      BY <3>1, <3>4, GotoAt DEF Types
    <3>5. CASE pc' = pc /\ job' = [job EXCEPT ![p] = rest]
      BY <2>3, <3>1, <3>5 DEF Others, Types, TasksOK
    <3> QED
      BY <3>3, <3>4, <3>5

  <2> QED
    BY <2>1, <2>2, <2>4, ShapeOne DEF AdminAt, WriteAt
<1>20. ASSUME NEW p \in Proc, Written(p) PROVE Shape'
  <2>1. server = "up" /\ UNCHANGED server
    BY <1>20 DEF Written, Shape, memory
  <2>2. Others(p) /\ pc'[p] = "idle"
    BY <1>20, GotoAt DEF Written, End, Types
  <2> QED
    BY <2>1, <2>2, ShapeOne DEF AdminAt, WriteAt
<1>21. ASSUME NEW p \in Proc, WriteFails(p) PROVE Shape'
  <2>1. server = "up" /\ UNCHANGED server
    BY <1>21 DEF WriteFails, Shape, memory
  <2>2. Others(p) /\ pc'[p] = "idle"
    BY <1>21 DEF WriteFails, Others, Types, TasksOK
  <2> QED
    BY <2>1, <2>2, ShapeOne DEF AdminAt, WriteAt
<1>22. CASE UNCHANGED vars
  BY <1>22 DEF vars, disk, memory, tasks, Shape, Born
<1> QED
  BY <1>0, <1>1, <1>2, <1>3, <1>4, <1>5, <1>6, <1>7, <1>8, <1>9, <1>10, <1>11, <1>12, <1>13,
     <1>14, <1>15, <1>16, <1>17, <1>18, <1>19, <1>20, <1>21, <1>22 DEF Next, GqlCreate,
     GqlDelete, GqlActivate, GqlDeactivate

-----------------------------------------------------------------------------
(***************************************************************************)
(* Keys.                                                                   *)
(***************************************************************************)
\* Orders of keys: none, a first one, one more, and an old one when a key is made.
LEMMA GoodKeys ==
    ASSUME NEW m \in Nat
    PROVE  /\ Good(<<>>, m) /\ Good(<<m + 1>>, m + 1)
           /\ \A t : Good(t, m) => Good(t, m + 1) /\ Good(Append(t, m + 1), m + 1)
<1>1. Good(<<>>, m)
  BY DEF Good
<1>2. Good(<<m + 1>>, m + 1)
  <2>1. m + 1 \in 1 .. m + 1
    OBVIOUS
  <2> QED
    BY <2>1 DEF Good
<1>3. ASSUME NEW t, Good(t, m) PROVE Good(t, m + 1) /\ Good(Append(t, m + 1), m + 1)
  <2>1. /\ t \in Seq(1 .. m) /\ Len(t) \in Nat /\ DOMAIN t = 1 .. Len(t)
        /\ \A i \in DOMAIN t : t[i] \in 1 .. m
    BY <1>3 DEF Good
  <2>2. t \in Seq(1 .. m + 1)
    <3>1. 1 .. m \subseteq 1 .. m + 1
      OBVIOUS
    <3> QED
      BY <2>1, <3>1
  <2>3. Good(t, m + 1)
    BY <1>3, <2>2 DEF Good
  <2> DEFINE u == Append(t, m + 1)
  <2>4. u \in Seq(1 .. m + 1) /\ DOMAIN u = 1 .. Len(t) + 1
    BY <2>1, <2>2
  <2>5. u[Len(t) + 1] = m + 1 /\ \A i \in DOMAIN t : u[i] = t[i] /\ u[i] # m + 1
    BY <2>1
  <2> HIDE DEF u
  <2>6. \A i \in DOMAIN u : i \in DOMAIN t \/ i = Len(t) + 1
    BY <2>1, <2>4
  <2>7. \A i, k \in DOMAIN u : u[i] = u[k] => i = k
    BY <1>3, <2>5, <2>6 DEF Good
  <2> QED
    BY <2>3, <2>4, <2>7 DEF Good, u
<1> QED
  BY <1>1, <1>2, <1>3

\* A key that was not made is that of no copy: it may go anywhere.
LEMMA PlacedKeys ==
    ASSUME Types, Keyring
    PROVE  /\ Placed(<<>>, blob) /\ Placed(<<made + 1>>, blob)
           /\ \A t \in Seq(Nat) : Placed(t, blob) => Placed(Append(t, made + 1), blob)
<1>1. \A p \in Place : blob[p].key # made + 1
  BY DEF Types, PlainOK, Keyring, NoBlob
<1>2. Placed(<<>>, blob)
  BY DEF Placed
<1>3. Placed(<<made + 1>>, blob)
  BY <1>1 DEF Placed
<1>4. ASSUME NEW t \in Seq(Nat), Placed(t, blob) PROVE Placed(Append(t, made + 1), blob)
  <2>1. \A i \in DOMAIN Append(t, made + 1) :
           (i \in DOMAIN t /\ Append(t, made + 1)[i] = t[i]) \/ Append(t, made + 1)[i] = made + 1
    OBVIOUS
  <2> QED
    BY <1>1, <1>4, <2>1 DEF Placed
<1> QED
  BY <1>2, <1>3, <1>4

\* What a write leaves at a place names the place its key has in the ring, and in the
\* file if it is there.
LEMMA WriteKeeps ==
    ASSUME Types, Keyring, Open, NEW place \in Place, WriteEncrypted(place)
    PROVE  /\ Placed(ring, blob') /\ (file # Torn => Placed(file, blob'))
           /\ \A p \in Place : blob'[p] # NoBlob => blob'[p].key \in 1 .. made
           /\ blob'[place] # NoBlob /\ \A p \in Place : blob[p] # NoBlob => blob'[p] # NoBlob
<1> DEFINE c == Encrypted(place)
<1>1. blob'[place] = c /\ \A p \in Place \ {place} : blob'[p] = blob[p]
  BY DEF WriteEncrypted, Types, PlainOK
<1>2. c # NoBlob /\ Len(ring) \in DOMAIN ring /\ Last(ring) = ring[Len(ring)]
  BY WrittenIn
<1>3. CASE blob[place] # NoBlob
  <2>1. \A p \in Place : blob'[p] = blob[p]
    BY <1>1, <1>3 DEF Encrypted
  <2> QED
    BY <1>3, <2>1 DEF Keyring, Placed
<1>4. CASE blob[place] = NoBlob
  <2>1. c = [id |-> Len(ring), key |-> Last(ring)]
    BY <1>4 DEF Encrypted
  <2>2. ring[Len(ring)] \in 1 .. made
    BY WrittenIn
  <2> HIDE DEF c
  <2>3. Placed(ring, blob')
    <3> SUFFICES ASSUME NEW p \in Place, NEW i \in DOMAIN ring, blob'[p].key = ring[i] PROVE blob'[p].id = i
      BY DEF Placed
    <3>1. CASE p = place
      BY <1>1, <1>2, <2>1, <3>1 DEF Keyring, Good
    <3>2. CASE p # place
      BY <1>1, <3>2 DEF Keyring, Placed
    <3> QED
      BY <3>1, <3>2
  <2>4. ASSUME file # Torn PROVE Placed(file, blob')
    <3> SUFFICES ASSUME NEW p \in Place, NEW i \in DOMAIN file, blob'[p].key = file[i] PROVE blob'[p].id = i
      BY DEF Placed
    <3>1. CASE p = place
      <4>1. i \in DOMAIN ring /\ ring[i] = file[i]
        BY <2>4 DEF Keyring
      <4> QED
        BY <1>1, <1>2, <2>1, <3>1, <4>1 DEF Keyring, Good
    <3>2. CASE p # place
      BY <1>1, <2>4, <3>2 DEF Keyring, Placed
    <3> QED
      BY <3>1, <3>2
  <2>5. \A p \in Place : blob'[p] # NoBlob => blob'[p].key \in 1 .. made
    BY <1>1, <1>2, <2>1, <2>2 DEF Keyring
  <2>6. \A p \in Place : blob[p] # NoBlob => blob'[p] # NoBlob
    BY <1>1, <1>2
  <2> QED
    BY <1>1, <1>2, <2>3, <2>4, <2>5, <2>6
<1> QED
  BY <1>3, <1>4

\* A step that is quiet about keys.
KeepsKeys == UNCHANGED <<ring, file, blob, made>> /\ (Open' => Open)

\* Then the keyring is in order as it was.
LEMMA KeysKept == ASSUME Keyring, KeepsKeys PROVE Keyring'
  BY DEF Keyring, KeepsKeys

\* A copy may be added to it.
LEMMA KeysWritten ==
    ASSUME Types, Keyring, Open, NEW place \in Place, WriteEncrypted(place),
           UNCHANGED <<ring, file, made, server>>
    PROVE  Keyring'
<1>1. /\ Placed(ring, blob') /\ (file # Torn => Placed(file, blob'))
      /\ \A p \in Place : blob'[p] # NoBlob => blob'[p].key \in 1 .. made
  BY WriteKeeps
<1> QED
  BY <1>1 DEF Keyring, Open

\* Every step keeps the keyring in order.
LEMMA KeyringStep ==
    ASSUME Types, Shape, Keyring, [Next]_vars
    PROVE  Keyring'
<1> made \in Nat
  BY BackendsAssumption DEF Types, PlainOK
<1>1. CASE LoadKeys
  <2>1. UNCHANGED blob /\ ~Open
    BY <1>1 DEF LoadKeys, Open
  <2>2. CASE file = Torn
    <3>1. server' = "dead" /\ UNCHANGED <<ring, made, file>>
      BY <1>1, <2>2 DEF LoadKeys, Torn
    <3> QED
      BY <2>1, <3>1, KeysKept DEF KeepsKeys, Open
  <2>3. CASE file \notin {Torn, <<>>}
    <3>1. server' = "keys" /\ ring' = file /\ UNCHANGED <<made, file>>
      BY <1>1, <2>3 DEF LoadKeys
    <3> QED
      BY <2>1, <2>3, <3>1 DEF Keyring
  <2>4. CASE file = <<>>
    <3>1. /\ made' = made + 1
          /\ \/ file' = <<made'>> /\ server' = "keys" /\ ring' = <<made'>>
             \/ file' \in {file, Torn} /\ UNCHANGED <<server, ring>>
      BY <1>1, <2>4 DEF LoadKeys, NotWritten, Torn
    <3>2. \A p \in Place : blob[p] # NoBlob => blob[p].key \in 1 .. made'
      BY <3>1 DEF Keyring
    <3>3. CASE file' = <<made'>> /\ server' = "keys" /\ ring' = <<made'>>
      <4>1. Good(<<made'>>, made') /\ Placed(<<made'>>, blob)
        BY <3>1, GoodKeys, PlacedKeys
      <4> QED
        BY <2>1, <3>2, <3>3, <4>1 DEF Keyring
    <3>4. CASE file' \in {file, Torn} /\ UNCHANGED <<server, ring>>
      <4>1. Good(ring, made') /\ (file # Torn => Good(file, made'))
        BY <3>1, GoodKeys DEF Keyring
      <4>2. ~Open'
        BY <2>1, <3>4 DEF Open
      <4> QED
        BY <2>1, <3>2, <3>4, <4>1, <4>2 DEF Keyring
    <3> QED
      BY <3>1, <3>3, <3>4
  <2> QED
    BY <2>2, <2>3, <2>4
<1>2. CASE OpenBackend
  <2>1. KeepsKeys
    BY <1>2 DEF OpenBackend, BootFirst, KeepsKeys, Open
  <2> QED
    BY <2>1, KeysKept
<1>0. CASE Restart
  BY <1>0, KeysKept DEF Restart, KeepsKeys, Open, disk
<1>3. CASE Crash
  <2>1. ring' = <<>> /\ ~Open' /\ UNCHANGED <<file, blob, made>>
    BY <1>3 DEF Crash, Stop, Open, disk
  <2>2. Good(<<>>, made) /\ Placed(<<>>, blob)
    BY GoodKeys, PlacedKeys
  <2> QED
    BY <2>1, <2>2 DEF Keyring
<1>4. CASE RotateKey
  <2> DEFINE more == Append(ring, made + 1)
  <2>1. /\ made' = made + 1 /\ UNCHANGED blob /\ Open
        /\ file' \in {more, file, Torn}
        /\ \/ ring' = more /\ UNCHANGED server
           \/ file' = Torn /\ ring' = <<>> /\ server' = "down"
    BY <1>4 DEF RotateKey, Rotate, NotWritten, Stop, Open
  <2>2. Good(more, made') /\ Placed(more, blob)
    <3>1. ring \in Seq(Nat) /\ Good(ring, made) /\ Placed(ring, blob)
      BY DEF Keyring, Good
    <3> QED
      BY <2>1, <3>1, GoodKeys, PlacedKeys
  <2>3. Good(<<>>, made') /\ Placed(<<>>, blob)
    BY <2>1, GoodKeys, PlacedKeys
  <2>4. file # Torn => Good(file, made') /\ Placed(file, blob)
    BY <2>1, GoodKeys DEF Keyring
  <2>5. \A p \in Place : blob[p] # NoBlob => blob[p].key \in 1 .. made'
    BY <2>1 DEF Keyring
  <2>6. more # <<>> /\ \A i \in DOMAIN ring : i \in DOMAIN more /\ more[i] = ring[i]
    <3>1. ring \in Seq(Nat)
      BY DEF Keyring, Good
    <3>2. /\ Len(ring) \in Nat /\ DOMAIN ring = 1 .. Len(ring)
          /\ more \in Seq(Nat) /\ Len(more) = Len(ring) + 1 /\ DOMAIN more = 1 .. Len(ring) + 1
          /\ \A i \in 1 .. Len(ring) : more[i] = ring[i]
      BY <3>1
    <3> HIDE DEF more
    <3>3. more # <<>>
      BY <3>2
    <3> QED
      BY <3>2, <3>3
  <2>7. file # Torn => \A i \in DOMAIN file : i \in DOMAIN more /\ more[i] = file[i]
    BY <2>1, <2>6 DEF Keyring
  <2> HIDE DEF more
  <2>8. CASE file' = Torn /\ ring' = <<>> /\ server' = "down"
    BY <2>1, <2>3, <2>5, <2>8 DEF Keyring, Open
  <2>9. CASE ring' = more /\ UNCHANGED server
    <3>1. file' # Torn => Good(file', made') /\ Placed(file', blob)
      BY <2>1, <2>2, <2>4
    <3>2. file' # Torn => \A i \in DOMAIN file' : i \in DOMAIN more /\ more[i] = file'[i]
      BY <2>1, <2>7
    <3> QED
      BY <2>1, <2>2, <2>5, <2>6, <2>9, <3>1, <3>2 DEF Keyring
  <2> QED
    BY <2>1, <2>8, <2>9
<1>5. ASSUME NEW role \in Role, NEW place \in Place, NEW boot \in BOOLEAN, CreateBackend(role, place, boot) PROVE Keyring'
  BY <1>5, KeysKept DEF CreateBackend, KeepsKeys, Open, Ask, disk, memory
<1>6. ASSUME NEW p \in Proc, NEW b \in Backend, AskDelete(p, b) PROVE Keyring'
  BY <1>6, KeysKept DEF AskDelete, KeepsKeys, Open, Ask, disk, memory
<1>7. ASSUME NEW p \in Proc, NEW b \in Backend, AskActivate(p, b) PROVE Keyring'
  BY <1>7, KeysKept DEF AskActivate, KeepsKeys, Open, Ask, disk, memory
<1>8. ASSUME NEW p \in Proc, NEW b \in Backend, AskDeactivate(p, b) PROVE Keyring'
  BY <1>8, KeysKept DEF AskDeactivate, KeepsKeys, Open, Ask, disk, memory
<1>9. ASSUME NEW p \in Proc, DeleteBackend(p) PROVE Keyring'
  BY <1>9, KeysKept DEF DeleteBackend, KeepsKeys, Open, Ask, disk, memory
<1>10. ASSUME NEW p \in Proc, Swap(p) PROVE Keyring'
  BY <1>10, KeysKept DEF Swap, KeepsKeys, Open, Ask, disk, memory
<1>11. ASSUME NEW p \in Proc, Clear(p) PROVE Keyring'
  BY <1>11, KeysKept DEF Clear, KeepsKeys, Open, Ask, disk, memory
<1>12. ASSUME NEW p \in Proc, Set(p) PROVE Keyring'
  BY <1>12, KeysKept DEF Set, KeepsKeys, Open, Ask, disk, memory
<1>13. ASSUME NEW p \in Proc, Deactivate(p) PROVE Keyring'
  BY <1>13, KeysKept DEF Deactivate, KeepsKeys, Open, Ask, disk, memory
<1>14. ASSUME NEW p \in Proc, AdminFails(p) PROVE Keyring'
  BY <1>14, KeysKept DEF AdminFails, KeepsKeys, Open, Ask, disk, memory
<1>15. ASSUME NEW p \in Proc, WriteChunk(p) PROVE Keyring'
  BY <1>15, KeysKept DEF WriteChunk, KeepsKeys, Open, Ask, disk, memory
<1>16. ASSUME NEW p \in Proc, WriteMain(p) PROVE Keyring'
  <2>1. Open /\ UNCHANGED <<ring, file, made, server>>
    BY <1>16 DEF WriteMain, memory, Shape, Open
  <2>2. Target(job[p]) \in Place /\ WriteEncrypted(Target(job[p]))
    <3>1. job[p].shard \in Born \cup {0}
      BY <1>16 DEF WriteMain, Shape, WriteAt
    <3> QED
      BY <1>16, <3>1 DEF WriteMain, Target, Born, Types, RowsOK, PlainOK, Rows
  <2> QED
    BY <2>1, <2>2, KeysWritten
<1>17. ASSUME NEW p \in Proc, RecordPrimary(p) PROVE Keyring'
  BY <1>17, KeysKept DEF RecordPrimary, KeepsKeys, Open, Ask, disk, memory
<1>18. ASSUME NEW p \in Proc, WriteCopy(p) PROVE Keyring'
  <2> DEFINE b == Min(job[p].copies)
  <2>1. Open /\ UNCHANGED <<ring, file, made, server>>
    BY <1>18 DEF WriteCopy, memory, Shape, Open
  <2>2. b \in Backend
    <3>1. job[p].copies \in SUBSET Backend /\ job[p].copies # {}
      BY <1>18 DEF WriteCopy, Types, TasksOK, Jobs
    <3> QED
      BY <3>1, Backends, MinIn
  <2>3. row[b].place \in Place
    BY <2>2 DEF Types, RowsOK, Rows
  <2>4. WriteEncrypted(row[b].place) \/ UNCHANGED blob
    BY <1>18 DEF WriteCopy
  <2> HIDE DEF b
  <2>5. CASE UNCHANGED blob
    BY <2>1, <2>5, KeysKept DEF KeepsKeys
  <2> QED
    BY <2>1, <2>3, <2>4, <2>5, KeysWritten
<1>19. ASSUME NEW p \in Proc, InsertLocation(p) PROVE Keyring'
  BY <1>19, KeysKept DEF InsertLocation, KeepsKeys, Open, Ask, disk, memory
<1>20. ASSUME NEW p \in Proc, Written(p) PROVE Keyring'
  BY <1>20, KeysKept DEF Written, KeepsKeys, Open, Ask, disk, memory
<1>21. ASSUME NEW p \in Proc, WriteFails(p) PROVE Keyring'
  BY <1>21, KeysKept DEF WriteFails, KeepsKeys, Open, Ask, disk, memory
<1>22. CASE UNCHANGED vars
  BY <1>22, KeysKept DEF vars, disk, memory, KeepsKeys, Open
<1> QED
  BY <1>0, <1>1, <1>2, <1>3, <1>4, <1>5, <1>6, <1>7, <1>8, <1>9, <1>10, <1>11, <1>12, <1>13,
     <1>14, <1>15, <1>16, <1>17, <1>18, <1>19, <1>20, <1>21, <1>22 DEF Next, GqlCreate,
     GqlDelete, GqlActivate, GqlDeactivate

-----------------------------------------------------------------------------
(***************************************************************************)
(* Turn: who changes the primary.                                          *)
(***************************************************************************)
\* Whether the others are at work on a primary does not change.
LEMMA OthersOn ==
    ASSUME Types, Shape, KeepsRows, NEW p \in Proc, Others(p), NEW q \in Proc \ {p}
    PROVE  /\ q \in OnPrimary' <=> q \in OnPrimary
           /\ q \in Activating' <=> q \in Activating
<1>1. pc'[q] = pc[q] /\ job'[q].on = job[q].on
  BY DEF Others
<1>2. pc[q] \in AdminAt => job[q].on \in Born
  BY DEF Shape
<1>3. pc[q] \in AdminAt => row'[job[q].on].role = row[job[q].on].role
  BY <1>2 DEF KeepsRows
<1>4. q \in OnPrimary' <=> q \in OnPrimary
  BY <1>1, <1>3 DEF OnPrimary, AdminAt
<1>5. q \in Activating' <=> q \in Activating
  BY <1>1, <1>4 DEF Activating
<1> QED
  BY <1>4, <1>5

\* A step of p that is quiet about the primary: p is not at work on one.
KeepsTurn(p) ==
    /\ Others(p) /\ \A q \in Proc \ {p} : job'[q].alone = job[q].alone
    /\ p \notin OnPrimary /\ p \notin OnPrimary'
    /\ UNCHANGED <<server, hot, askew>>
    /\ \A b \in Born : row[b].role = "primary" => row'[b] = row[b]
    /\ Active("primary")' = Active("primary")
    /\ Live' # {} => Live # {} \/ server = "up"

\* Such a step keeps Turn.
LEMMA TurnKept ==
    ASSUME Types, Shape, KeepsRows, Turn, NEW p \in Proc, KeepsTurn(p)
    PROVE  Turn'
<1>1. \A q \in Proc \ {p} : (q \in OnPrimary' <=> q \in OnPrimary) /\ (q \in Activating' <=> q \in Activating)
  BY OthersOn DEF KeepsTurn
<1>2. OnPrimary' = OnPrimary /\ Activating' = Activating
  BY <1>1 DEF KeepsTurn, OnPrimary, Activating
<1>3. \A q \in OnPrimary : /\ q \in Proc \ {p} /\ pc'[q] = pc[q] /\ job'[q].on = job[q].on /\ job'[q].alone = job[q].alone
                           /\ row'[job[q].on] = row[job[q].on]
  BY DEF KeepsTurn, Others, OnPrimary, Shape, AdminAt
<1>4. \A b \in Active("primary") : row'[b].place = row[b].place
  BY DEF KeepsRows, Active, Live, Born
<1>5. OnePrimary'
  BY <1>2, <1>3 DEF KeepsTurn, Turn, OnePrimary
<1>6. Straight'
  BY <1>2, <1>3, <1>4 DEF KeepsTurn, Turn, Straight
<1> QED
  BY <1>5, <1>6 DEF Turn

\* p leaves its work on a primary: no other was alone there.
LEMMA TurnLeft ==
    ASSUME Types, Shape, KeepsRows, Turn, NEW p \in OnPrimary, Others(p), pc'[p] \notin AdminAt,
           \A q \in Proc \ {p} : job'[q].alone = job[q].alone
    PROVE  /\ OnePrimary' /\ OnPrimary' = OnPrimary \ {p} /\ Activating' = Activating \ {p}
           /\ \A q \in OnPrimary' : pc'[q] = pc[q] /\ job'[q].on = job[q].on
<1>1. \A q \in Proc \ {p} : (q \in OnPrimary' <=> q \in OnPrimary) /\ (q \in Activating' <=> q \in Activating)
  BY OthersOn DEF OnPrimary
<1>2. p \notin OnPrimary'
  BY DEF OnPrimary, AdminAt
<1>3. OnPrimary' = OnPrimary \ {p} /\ Activating' = Activating \ {p}
  BY <1>1, <1>2 DEF OnPrimary, Activating
<1>4. \A q \in OnPrimary' : q \in OnPrimary /\ q \in Proc \ {p}
  BY <1>3 DEF OnPrimary
<1>5. \A q \in OnPrimary' : ~job'[q].alone
  BY <1>4 DEF Turn, OnePrimary
<1>6. OnePrimary'
  BY <1>5 DEF OnePrimary
<1> QED
  BY <1>3, <1>4, <1>6 DEF Others

\* A stop ends all work; a change of the primary that it ends is a wrong one.
LEMMA TurnStopped ==
    ASSUME Types, Shape, Turn, Stop, UNCHANGED row
    PROVE  Turn'
<1>1. OnPrimary' = {} /\ server' = "down" /\ askew' = (askew \/ Activating # {})
  BY DEF Stop, OnPrimary
<1>2. Active("primary")' = Active("primary") /\ Live' = Live
  BY DEF Active, Live
<1>3. \A p \in OnPrimary : pc[p] = "set" => p \in Activating
  BY DEF Activating
<1>4. Straight'
  BY <1>1, <1>2, <1>3 DEF Turn, Straight
<1> QED
  BY <1>1, <1>4 DEF Turn, OnePrimary

\* Nobody is at work while the server is not up.
LEMMA NotUp == ASSUME Shape, server # "up" PROVE OnPrimary = {} /\ Activating = {}
  BY DEF Shape, OnPrimary, Activating

\* A new request: alone if nobody else is at work on a primary, and then nobody was.
LEMMA TurnAsked ==
    ASSUME Types, Shape, Turn, NEW p \in Proc, NEW b \in Live, NEW l \in AdminAt, Ask(p, l, b),
           row[b].role = "primary" => l \in {"swap", "unset", "delete"},
           l = "delete" => ~row[b].active
    PROVE  Turn'
<1>1. /\ Others(p) /\ pc'[p] = l /\ pc[p] = "idle" /\ server = "up"
      /\ job'[p].on = b /\ (job'[p].alone <=> OnPrimary = {})
      /\ \A q \in Proc \ {p} : job'[q].alone = (job[q].alone /\ row[b].role # "primary")
  BY AskAt DEF Types, Live
<1>2. UNCHANGED <<row, server, hot, askew>>
  BY AskAt DEF Types, Live, disk, memory, hist
<1>3. KeepsRows
  BY <1>2 DEF KeepsRows, Born
<1>4. \A q \in Proc \ {p} : (q \in OnPrimary' <=> q \in OnPrimary) /\ (q \in Activating' <=> q \in Activating)
  BY <1>1, <1>3, OthersOn
<1>5. p \notin OnPrimary /\ (p \in OnPrimary' <=> row[b].role = "primary")
  BY <1>1, <1>2 DEF OnPrimary, AdminAt
<1>6. Active("primary")' = Active("primary") /\ Live' = Live
  BY <1>2 DEF Active, Live
<1>7. OnePrimary'
  <2> SUFFICES ASSUME NEW q \in OnPrimary', job'[q].alone
               PROVE  /\ OnPrimary' = {q}
                      /\ pc'[q] \in {"swap", "clear", "set"} => row'[job'[q].on].st = "live"
                      /\ pc'[q] \in {"clear", "set"} => hot' = row'[job'[q].on].place
                      /\ pc'[q] = "set" => Active("primary")' = {}
    BY DEF OnePrimary
  <2>1. q \in Proc /\ OnPrimary' \subseteq Proc /\ OnPrimary \subseteq Proc
    BY DEF OnPrimary
  <2>2. CASE q = p
    <3>1. OnPrimary = {}
      BY <1>1, <2>2
    <3>2. OnPrimary' = {p}
      BY <1>4, <2>1, <2>2, <3>1
    <3>3. l \in {"swap", "unset", "delete"} /\ row[b].st = "live"
      BY <1>5, <2>2 DEF Live
    <3> QED
      BY <1>1, <1>2, <2>2, <3>2, <3>3
  <2>3. CASE q # p
    <3>1. q \in OnPrimary /\ job[q].alone /\ row[b].role # "primary"
      BY <1>1, <1>4, <2>1, <2>3
    <3>2. OnPrimary = {q}
      BY <3>1 DEF Turn, OnePrimary
    <3>3. OnPrimary' = {q}
      BY <1>4, <1>5, <2>1, <3>1, <3>2
    <3>4. pc'[q] = pc[q] /\ job'[q].on = job[q].on
      BY <1>1, <2>1, <2>3 DEF Others
    <3> QED
      BY <1>2, <1>6, <3>1, <3>3, <3>4 DEF Turn, OnePrimary
  <2> QED
    BY <2>2, <2>3
<1>8. Straight'
  <2> SUFFICES ASSUME ~askew
               PROVE  /\ Live # {} \/ server = "up" =>
                            Active("primary") # {} \/ \E q \in OnPrimary' : pc'[q] = "set"
                      /\ Activating' = {} =>
                            \A c \in Active("primary") :
                                /\ \A d \in Active("primary") : d = c
                                /\ server = "up" => row[c].place = hot
                      /\ \A q \in OnPrimary' : pc'[q] = "delete" => ~row[job'[q].on].active
    BY <1>2, <1>6 DEF Straight
  <2>1. \A q \in OnPrimary : q \in Proc \ {p} /\ pc'[q] = pc[q] /\ q \in OnPrimary'
    BY <1>1, <1>4, <1>5 DEF Others, OnPrimary
  <2>2. Activating' = {} => Activating = {}
    BY <1>4, <1>5 DEF Activating, OnPrimary
  <2>3. \A q \in OnPrimary' : pc'[q] = "delete" => ~row[job'[q].on].active
    <3> SUFFICES ASSUME NEW q \in OnPrimary', pc'[q] = "delete" PROVE ~row[job'[q].on].active
      OBVIOUS
    <3>1. q \in Proc
      BY DEF OnPrimary
    <3>2. CASE q = p
      BY <1>1, <3>2
    <3>3. CASE q # p
      <4>1. q \in OnPrimary /\ pc[q] = "delete" /\ job'[q].on = job[q].on
        BY <1>1, <1>4, <3>1, <3>3 DEF Others
      <4> QED
        BY <4>1 DEF Turn, Straight
    <3> QED
      BY <3>2, <3>3
  <2> QED
    BY <2>1, <2>2, <2>3 DEF Turn, Straight
<1> QED
  BY <1>7, <1>8 DEF Turn

\* Every step keeps it: a request that is alone goes its way undisturbed, and what is
\* not alone leaves the server askew.
LEMMA TurnStep ==
    ASSUME Types, Shape, Turn, [Next]_vars
    PROVE  Turn'
<1> KeepsRows
  BY RowsKeep
<1>1. CASE LoadKeys
  <2>1. server # "up" /\ server' # "up" /\ UNCHANGED <<row, tasks, askew>>
    BY <1>1 DEF LoadKeys, hist
  <2>2. OnPrimary = {} /\ Activating = {} /\ OnPrimary' = {} /\ Activating' = {}
    BY <2>1, NotUp DEF OnPrimary, Activating, tasks
  <2>3. Active("primary")' = Active("primary") /\ Live' = Live
    BY <2>1 DEF Active, Live
  <2> QED
    BY <2>1, <2>2, <2>3 DEF Turn, OnePrimary, Straight
<1>2. CASE OpenBackend
  <2>1. server = "keys" /\ hot = EnvPlace /\ UNCHANGED tasks
    BY <1>2 DEF OpenBackend, Shape
  <2>2. OnPrimary = {} /\ Activating = {}
    BY <2>1, NotUp
  <2>3. OnPrimary' = {} /\ Activating' = {}
    <3>1. \A p \in Proc : pc'[p] = "idle"
      BY <2>1 DEF Shape, tasks
    <3> QED
      BY <3>1 DEF OnPrimary, Activating
  <2>4. OnePrimary'
    BY <2>3 DEF OnePrimary
  <2>5. ASSUME NEW b \in Live, row[b].active, hot' = row[b].place, server' = "up",
               askew' = (askew \/ row[b].role # "primary"), UNCHANGED row
        PROVE  Straight'
    <3>1. Active("primary")' = Active("primary") /\ Live' = Live
      BY <2>5 DEF Active, Live
    <3>2. ~askew' => ~askew /\ b \in Active("primary")
      BY <2>5 DEF Active
    <3> QED
      BY <2>2, <2>3, <2>5, <3>1, <3>2 DEF Turn, Straight
  <2>6. ASSUME server' = "dead", UNCHANGED <<row, askew, hot>> PROVE Straight'
    <3>1. Active("primary")' = Active("primary") /\ Live' = Live
      BY <2>6 DEF Active, Live
    <3>2. ASSUME ~askew'
          PROVE  /\ Live # {} => Active("primary") # {}
                 /\ \A b \in Active("primary") : \A c \in Active("primary") : c = b
      BY <2>1, <2>2, <2>6, <3>2 DEF Turn, Straight
    <3> QED
      BY <2>3, <2>6, <3>1, <3>2 DEF Straight
  <2>7. ASSUME Active("primary") = {}, Unborn # {}, row' = [row EXCEPT ![Min(Unborn)] = BootRow],
               server' = "up", UNCHANGED hot
        PROVE  Straight'
    <3>1. Min(Unborn) \in Unborn
      <4>1. Unborn \in SUBSET Nat
        BY Backends DEF Unborn
      <4> QED
        BY <2>7, <4>1, MinIn
    <3>2. \A b \in Backend : row'[b] = IF b = Min(Unborn) THEN BootRow ELSE row[b]
      BY <2>7 DEF Types, RowsOK
    <3>3. Active("primary")' = {Min(Unborn)}
      BY <2>7, <3>1, <3>2 DEF Active, Live, Unborn, BootRow
    <3>4. row'[Min(Unborn)].place = hot'
      BY <2>1, <2>7, <3>1, <3>2 DEF Unborn, BootRow
    <3>5. Active("primary")' # {} /\ \A b \in Active("primary")' : \A c \in Active("primary")' : c = b
      BY <3>3
    <3>6. \A b \in Active("primary")' : row'[b].place = hot'
      BY <3>3, <3>4
    <3> QED
      BY <2>3, <3>5, <3>6 DEF Straight
  <2>8. \/ \E b \in Live : /\ row[b].active /\ hot' = row[b].place /\ server' = "up"
                           /\ askew' = (askew \/ row[b].role # "primary") /\ UNCHANGED row
        \/ server' = "dead" /\ UNCHANGED <<row, askew, hot>>
        \/ /\ Unborn # {} /\ row' = [row EXCEPT ![Min(Unborn)] = BootRow]
           /\ server' = "up" /\ askew' = (Active("primary") # {}) /\ UNCHANGED hot
    BY <1>2 DEF OpenBackend, BootFirst
  <2>9. Straight'
    BY <2>5, <2>6, <2>7, <2>8 DEF Straight
  <2> QED
    BY <2>4, <2>9 DEF Turn
<1>0. CASE Restart
  BY <1>0, NotUp DEF Restart, Turn, OnePrimary, Straight, OnPrimary, Activating, Active, Live, disk, tasks, hist
<1>3. CASE Crash
  BY <1>3, TurnStopped DEF Crash, disk
<1>4. CASE RotateKey
  <2>1. CASE Stop
    BY <1>4, <2>1, TurnStopped DEF RotateKey
  <2>2. CASE UNCHANGED <<server, askew, tasks>>
    <3>1. UNCHANGED <<row, hot, server, askew, pc, job>>
      BY <1>4, <2>2 DEF RotateKey, tasks
    <3> QED
      BY <3>1 DEF Turn, OnePrimary, Straight, OnPrimary, Activating, Active, Live
  <2> QED
    BY <1>4, <2>1, <2>2 DEF RotateKey
<1>5. ASSUME NEW role \in Role, NEW place \in Place, NEW boot \in BOOLEAN, CreateBackend(role, place, boot) PROVE Turn'
  <2>1. /\ server = "up" /\ UNCHANGED <<hot, server, askew, pc, job>> /\ Unborn # {}
        /\ row' = [row EXCEPT ![Min(Unborn)] =
                     [st |-> "live", boot |-> boot, role |-> role, place |-> place, active |-> FALSE]]
    BY <1>5 DEF CreateBackend, memory, tasks, hist
  <2>2. Min(Unborn) \in Unborn
    <3>1. Unborn \in SUBSET Nat
      BY Backends DEF Unborn
    <3> QED
      BY <2>1, <3>1, MinIn
  <2>3. \A b \in Backend : \/ b = Min(Unborn) /\ ~row'[b].active /\ row[b].st = "unborn"
                           \/ row'[b] = row[b]
    BY <2>1 , <2>2 DEF Types, RowsOK, Unborn
  <2>4. \A b \in Born : row'[b] = row[b]
    BY <2>3 DEF Born
  <2>5. Active("primary")' = Active("primary")
    BY <2>3 DEF Active, Live
  <2>6. \A p \in Proc : pc[p] \in AdminAt => job[p].on \in Born
    BY DEF Shape
  <2>7. OnPrimary' = OnPrimary /\ Activating' = Activating
    BY <2>1, <2>4, <2>6 DEF OnPrimary, Activating, AdminAt
  <2>8. \A q \in OnPrimary : row'[job[q].on] = row[job[q].on]
    BY <2>4, <2>6 DEF OnPrimary, AdminAt
  <2>9. \A b \in Active("primary") : row'[b] = row[b]
    BY <2>4 DEF Active, Live, Born
  <2>10. OnePrimary'
    BY <2>1, <2>5, <2>7, <2>8 DEF Turn, OnePrimary
  <2>11. Straight'
    BY <2>1, <2>5, <2>7, <2>8, <2>9 DEF Turn, Straight
  <2> QED
    BY <2>10, <2>11 DEF Turn
<1>6. ASSUME NEW p \in Proc, NEW b \in Backend, AskDelete(p, b) PROVE Turn'
  BY <1>6, TurnAsked DEF AskDelete, AdminAt
<1>7. ASSUME NEW p \in Proc, NEW b \in Backend, AskActivate(p, b) PROVE Turn'
  <2>1. b \in Live /\ Ask(p, IF row[b].role = "primary" THEN "swap" ELSE "set", b)
    BY <1>7 DEF AskActivate
  <2>2. CASE row[b].role = "primary"
    BY <2>1, <2>2, TurnAsked DEF AdminAt
  <2>3. CASE row[b].role # "primary"
    BY <2>1, <2>3, TurnAsked DEF AdminAt
  <2> QED
    BY <2>2, <2>3
<1>8. ASSUME NEW p \in Proc, NEW b \in Backend, AskDeactivate(p, b) PROVE Turn'
  BY <1>8, TurnAsked DEF AskDeactivate, AdminAt
<1>9. ASSUME NEW p \in Proc, DeleteBackend(p) PROVE Turn'
  <2>1. job[p] \in Jobs /\ job[p].on \in Born /\ job[p].on \in Backend
    BY <1>9 DEF DeleteBackend, Shape, AdminAt, Born, Types, TasksOK
  <2>2. /\ Others(p) /\ pc'[p] = "idle"
        /\ \A q \in Proc \ {p} : job'[q].alone = job[q].alone
    BY <1>9, GotoAt DEF DeleteBackend, End, Types
  <2>3. \A b \in Backend : b # job[p].on => row'[b] = row[b]
    BY <1>9 DEF DeleteBackend, Types, RowsOK
  <2>4. row'[job[p].on].role = row[job[p].on].role
    BY <2>1 DEF KeepsRows
  <2>5. CASE p \notin OnPrimary
    <3>1. row[job[p].on].role # "primary"
      BY <1>9, <2>5 DEF DeleteBackend, OnPrimary
    <3>2. Active("primary")' = Active("primary")
      BY <2>3, <2>4, <3>1 DEF Active, Live
    <3>3. Live' # {} => Live # {} \/ server = "up"
      BY <1>9 DEF DeleteBackend, Shape
    <3>4. UNCHANGED <<server, hot, askew>>
      BY <1>9, <2>5 DEF DeleteBackend, memory, hist, Types, PlainOK
    <3>5. KeepsTurn(p)
      BY <2>2, <2>3, <2>5, <3>1, <3>2, <3>3, <3>4 DEF KeepsTurn, OnPrimary, Born
    <3> QED
      BY <3>5, TurnKept
  <2>6. CASE p \in OnPrimary
    <3>1. /\ OnePrimary' /\ OnPrimary' = OnPrimary \ {p} /\ Activating' = Activating \ {p}
          /\ \A q \in OnPrimary' : pc'[q] = pc[q] /\ job'[q].on = job[q].on
      BY <2>2, <2>6, TurnLeft DEF AdminAt
    <3>2. UNCHANGED <<askew, hot, server>> /\ pc[p] = "delete"
      BY <1>9 DEF DeleteBackend, memory, hist
    <3>3. row'[job[p].on].st = "gone" /\ ~row'[job[p].on].active
      BY <1>9, <2>1 DEF DeleteBackend, Types, RowsOK, Rows
    <3>4. ASSUME ~askew PROVE Active("primary")' = Active("primary")
      <4>1. ~row[job[p].on].active
        BY <2>6, <3>2, <3>4 DEF Turn, Straight
      <4> QED
        BY <2>1, <2>3, <3>3, <4>1 DEF Active, Live
    <3>5. Live' \subseteq Live
      BY <2>3, <3>3 DEF Live
    <3>6. Activating' = Activating /\ \A q \in OnPrimary : pc[q] = "set" => q \in OnPrimary'
      BY <3>1, <3>2 DEF Activating
    <3>7. \A b \in Active("primary") : row'[b].place = row[b].place
      BY DEF KeepsRows, Active, Live, Born
    <3>8. \A q \in OnPrimary : job[q].on \in Backend
      BY DEF OnPrimary, Shape, AdminAt, Born
    <3>9. ASSUME ~askew, NEW q \in OnPrimary', pc'[q] = "delete" PROVE ~row'[job'[q].on].active
      <4>1. q \in OnPrimary /\ pc[q] = "delete" /\ job'[q].on = job[q].on
        BY <3>1, <3>9
      <4>2. ~row[job[q].on].active
        BY <3>9, <4>1 DEF Turn, Straight
      <4> QED
        BY <2>3, <3>3, <3>8, <4>1, <4>2
    <3>10. Straight'
      BY <3>1, <3>2, <3>4, <3>5, <3>6, <3>7, <3>9 DEF Turn, Straight
    <3> QED
      BY <3>1, <3>10 DEF Turn
  <2> QED
    BY <2>5, <2>6
<1>10. ASSUME NEW p \in Proc, Swap(p) PROVE Turn'
  <2>1. job[p] \in Jobs /\ job[p].on \in Born /\ row[job[p].on].role = "primary" /\ pc[p] = "swap"
    BY <1>10 DEF Swap, Shape, AdminAt, Types, TasksOK
  <2>2. /\ Others(p) /\ pc'[p] = "clear" /\ job'[p] = job[p]
        /\ \A q \in Proc \ {p} : job'[q].alone = job[q].alone
    BY <1>10, <2>1, AdvanceAt DEF Swap, Advance, Types
  <2>3. UNCHANGED <<row, server, askew>> /\ hot' = row[job[p].on].place
    BY <1>10 DEF Swap, disk, hist
  <2>4. p \in Activating /\ p \in Activating'
    BY <2>1, <2>2, <2>3 DEF Activating, OnPrimary
  <2>5. OnPrimary' = OnPrimary
    <3>1. \A q \in Proc \ {p} : q \in OnPrimary' <=> q \in OnPrimary
      BY <2>2, OthersOn
    <3> QED
      BY <2>4, <3>1 DEF OnPrimary, Activating
  <2>6. Active("primary")' = Active("primary") /\ Live' = Live
    BY <2>3 DEF Active, Live
  <2>7. \A q \in OnPrimary : /\ job'[q].on = job[q].on /\ job'[q].alone = job[q].alone
                             /\ q # p => pc'[q] = pc[q]
    BY <2>2 DEF Others, OnPrimary
  <2>8. OnePrimary'
    <3> SUFFICES ASSUME NEW q \in OnPrimary, job[q].alone
                 PROVE  /\ OnPrimary = {q}
                        /\ pc'[q] \in {"swap", "clear", "set"} => row[job[q].on].st = "live"
                        /\ pc'[q] \in {"clear", "set"} => hot' = row[job[q].on].place
                        /\ pc'[q] = "set" => Active("primary") = {}
      BY <2>3, <2>5, <2>6, <2>7 DEF OnePrimary
    <3>1. OnPrimary = {q} /\ q = p
      BY <2>4 DEF Turn, OnePrimary, Activating
    <3> QED
      BY <2>1, <2>2, <2>3, <3>1 DEF Turn, OnePrimary
  <2>9. Straight'
    BY <2>1, <2>2, <2>3, <2>4, <2>5, <2>6, <2>7 DEF Turn, Straight
  <2> QED
    BY <2>8, <2>9 DEF Turn
<1>11. ASSUME NEW p \in Proc, Clear(p) PROVE Turn'
  <2>1. job[p] \in Jobs /\ job[p].on \in Born /\ row[job[p].on].role = "primary" /\ pc[p] = "clear"
    BY <1>11 DEF Clear, Shape, AdminAt, Types, TasksOK
  <2>2. /\ Others(p) /\ pc'[p] = "set" /\ job'[p] = job[p]
        /\ \A q \in Proc \ {p} : job'[q].alone = job[q].alone
    BY <1>11, <2>1, AdvanceAt DEF Clear, Advance, Types
  <2>3. /\ UNCHANGED <<hot, server, askew>>
        /\ \A b \in Backend : /\ row'[b].st = row[b].st /\ row'[b].role = row[b].role /\ row'[b].place = row[b].place
                              /\ row[b].role = "primary" => ~row'[b].active
    BY <1>11 DEF Clear, memory, hist, Types, RowsOK, Rows
  <2>4. p \in OnPrimary /\ p \in Activating' /\ p \in OnPrimary'
    BY <2>1, <2>2, <2>3 DEF Activating, OnPrimary, Born
  <2>5. OnPrimary' = OnPrimary
    <3>1. \A q \in Proc \ {p} : q \in OnPrimary' <=> q \in OnPrimary
      BY <2>2, OthersOn
    <3> QED
      BY <2>4, <3>1 DEF OnPrimary
  <2>6. Active("primary")' = {}
    BY <2>3 DEF Active, Live
  <2>7. \A q \in OnPrimary : /\ job'[q].on = job[q].on /\ job'[q].alone = job[q].alone
                             /\ job[q].on \in Backend /\ row[job[q].on].role = "primary"
    BY <2>2 DEF Others, OnPrimary, Shape, AdminAt, Born
  <2>8. OnePrimary'
    <3> SUFFICES ASSUME NEW q \in OnPrimary, job[q].alone
                 PROVE  /\ OnPrimary = {q}
                        /\ row[job[q].on].st = "live" /\ hot = row[job[q].on].place
      BY <2>3, <2>5, <2>6, <2>7 DEF OnePrimary
    <3>1. OnPrimary = {q} /\ q = p
      BY <2>4 DEF Turn, OnePrimary
    <3> QED
      BY <2>1, <3>1 DEF Turn, OnePrimary
  <2>9. Straight'
    BY <2>2, <2>3, <2>4, <2>5, <2>6, <2>7 DEF Turn, Straight
  <2> QED
    BY <2>8, <2>9 DEF Turn
<1>12. ASSUME NEW p \in Proc, Set(p) PROVE Turn'
  <2>1. job[p] \in Jobs /\ job[p].on \in Born /\ job[p].on \in Backend
    BY <1>12 DEF Set, Shape, AdminAt, Born, Types, TasksOK
  <2>2. /\ Others(p) /\ pc'[p] = "idle"
        /\ \A q \in Proc \ {p} : job'[q].alone = job[q].alone
    BY <1>12, GotoAt, AdvanceAt, JobFields DEF Set, End, Advance, Types
  <2>3. \A b \in Backend : b # job[p].on => row'[b] = row[b]
    BY <1>12 DEF Set, Types, RowsOK
  <2>4. row'[job[p].on].role = row[job[p].on].role
    BY <2>1 DEF KeepsRows
  <2>5. CASE p \notin OnPrimary
    <3>1. row[job[p].on].role # "primary"
      BY <1>12, <2>5 DEF Set, OnPrimary
    <3>2. Active("primary")' = Active("primary")
      BY <2>3, <2>4, <3>1 DEF Active, Live
    <3>3. Live' # {} => Live # {} \/ server = "up"
      BY <1>12 DEF Set, Shape
    <3>4. UNCHANGED <<server, hot, askew>>
      BY <1>12, <2>5 DEF Set, memory, hist, Types, PlainOK
    <3>5. KeepsTurn(p)
      BY <2>2, <2>3, <2>5, <3>1, <3>2, <3>3, <3>4 DEF KeepsTurn, OnPrimary, Born
    <3> QED
      BY <3>5, TurnKept
  <2>6. CASE p \in OnPrimary
    <3>1. /\ OnePrimary' /\ OnPrimary' = OnPrimary \ {p} /\ Activating' = Activating \ {p}
          /\ \A q \in OnPrimary' : pc'[q] = pc[q] /\ job'[q].on = job[q].on
      BY <2>2, <2>6, TurnLeft DEF AdminAt
    <3>2. askew' = ~job[p].alone /\ UNCHANGED <<hot, server>>
      BY <1>12, <2>6 DEF Set, memory
    <3>3. CASE ~job[p].alone
      BY <3>1, <3>2, <3>3 DEF Turn, Straight
    <3>4. CASE job[p].alone
      <4> DEFINE b == job[p].on
      <4>1. OnPrimary = {p} /\ row[b].st = "live" /\ hot = row[b].place /\ Active("primary") = {}
        BY <1>12, <2>6, <3>4 DEF Set, Turn, OnePrimary
      <4>2. row'[b].active /\ row'[b].st = "live" /\ row'[b].place = row[b].place /\ row'[b].role = "primary"
        BY <1>12, <2>1, <2>6, <4>1 DEF Set, OnPrimary, Types, RowsOK, Rows
      <4> HIDE DEF b
      <4>3. Active("primary")' = {b}
        BY <2>1, <2>3, <4>1, <4>2 DEF Active, Live, b
      <4>4. OnPrimary' = {}
        BY <3>1, <4>1
      <4> QED
        BY <3>1, <3>2, <4>1, <4>2, <4>3, <4>4 DEF Turn, Straight
    <3> QED
      BY <3>3, <3>4
  <2> QED
    BY <2>5, <2>6
<1>13. ASSUME NEW p \in Proc, Deactivate(p) PROVE Turn'
  <2>1. job[p] \in Jobs /\ job[p].on \in Born /\ job[p].on \in Backend
    BY <1>13 DEF Deactivate, Shape, AdminAt, Born, Types, TasksOK
  <2>2. /\ Others(p) /\ pc'[p] = "idle"
        /\ \A q \in Proc \ {p} : job'[q].alone = job[q].alone
    BY <1>13, GotoAt, AdvanceAt, JobFields DEF Deactivate, End, Advance, Types
  <2>3. \A b \in Backend : b # job[p].on => row'[b] = row[b]
    BY <1>13 DEF Deactivate, Types, RowsOK
  <2>4. row'[job[p].on].role = row[job[p].on].role
    BY <2>1 DEF KeepsRows
  <2>5. CASE p \notin OnPrimary
    <3>1. row[job[p].on].role # "primary"
      BY <1>13, <2>5 DEF Deactivate, OnPrimary
    <3>2. Active("primary")' = Active("primary")
      BY <2>3, <2>4, <3>1 DEF Active, Live
    <3>3. Live' # {} => Live # {} \/ server = "up"
      BY <1>13 DEF Deactivate, Shape
    <3>4. UNCHANGED <<server, hot, askew>>
      BY <1>13, <2>5 DEF Deactivate, memory, hist, Types, PlainOK
    <3>5. KeepsTurn(p)
      BY <2>2, <2>3, <2>5, <3>1, <3>2, <3>3, <3>4 DEF KeepsTurn, OnPrimary, Born
    <3> QED
      BY <3>5, TurnKept
  <2>6. CASE p \in OnPrimary
    <3>1. /\ OnePrimary' /\ OnPrimary' = OnPrimary \ {p} /\ Activating' = Activating \ {p}
          /\ \A q \in OnPrimary' : pc'[q] = pc[q] /\ job'[q].on = job[q].on
      BY <2>2, <2>6, TurnLeft DEF AdminAt
    <3>2. askew'
      BY <1>13, <2>6 DEF Deactivate
    <3> QED
      BY <3>1, <3>2 DEF Turn, Straight
  <2> QED
    BY <2>5, <2>6
<1>14. ASSUME NEW p \in Proc, AdminFails(p) PROVE Turn'
  <2>1. /\ Others(p) /\ pc'[p] = "idle"
        /\ \A q \in Proc \ {p} : job'[q].alone = job[q].alone
    BY <1>14, AdvanceAt, JobFields DEF AdminFails, Types
  <2>2. UNCHANGED <<row, hot, server>> /\ askew' = (askew \/ p \in Activating)
    BY <1>14 DEF AdminFails, disk, memory
  <2>3. Active("primary")' = Active("primary") /\ Live' = Live
    BY <2>2 DEF Active, Live
  <2>4. CASE p \notin OnPrimary
    <3>2. UNCHANGED askew /\ p \notin OnPrimary'
      BY <2>1, <2>2, <2>4 DEF Types, PlainOK, OnPrimary, Activating
    <3>1. KeepsTurn(p)
      BY <2>1, <2>2, <2>3, <2>4, <3>2 DEF KeepsTurn
    <3> QED
      BY <3>1, TurnKept
  <2>5. CASE p \in OnPrimary
    <3>1. /\ OnePrimary' /\ OnPrimary' = OnPrimary \ {p} /\ Activating' = Activating \ {p}
          /\ \A q \in OnPrimary' : pc'[q] = pc[q] /\ job'[q].on = job[q].on
      BY <2>1, <2>5, TurnLeft DEF AdminAt
    <3>2. CASE p \in Activating
      BY <2>2, <3>1, <3>2 DEF Turn, Straight
    <3>3. CASE p \notin Activating
      <4>1. Activating' = Activating /\ \A q \in OnPrimary : pc[q] = "set" => q \in OnPrimary'
        BY <2>5, <3>1, <3>3 DEF Activating
      <4> QED
        BY <2>2, <2>3, <3>1, <3>3, <4>1 DEF Turn, Straight
    <3> QED
      BY <3>2, <3>3
  <2> QED
    BY <2>4, <2>5
<1>15. ASSUME NEW p \in Proc, WriteChunk(p) PROVE Turn'
  <2>1. /\ Others(p) /\ pc[p] \notin AdminAt /\ pc'[p] \notin AdminAt
        /\ \A q \in Proc \ {p} : job'[q].alone = job[q].alone
    BY <1>15 DEF WriteChunk, Others, Types, TasksOK, AdminAt
  <2>2. UNCHANGED <<row, hot, server, askew>>
    BY <1>15 DEF WriteChunk, disk, memory, hist
  <2>3. KeepsTurn(p)
    BY <2>1, <2>2 DEF KeepsTurn, OnPrimary, AdminAt, Active, Live
  <2> QED
    BY <2>3, TurnKept
<1>16. ASSUME NEW p \in Proc, WriteMain(p) PROVE Turn'
  <2>1. /\ Others(p) /\ pc[p] \notin AdminAt /\ pc'[p] \notin AdminAt
        /\ \A q \in Proc \ {p} : job'[q].alone = job[q].alone
    BY <1>16, GotoAt DEF WriteMain, End, Types, AdminAt
  <2>2. UNCHANGED <<row, hot, server, askew>>
    BY <1>16 DEF WriteMain, disk, memory, hist
  <2>3. KeepsTurn(p)
    BY <2>1, <2>2 DEF KeepsTurn, OnPrimary, AdminAt, Active, Live
  <2> QED
    BY <2>3, TurnKept
<1>17. ASSUME NEW p \in Proc, RecordPrimary(p) PROVE Turn'
  <2>1. /\ Others(p) /\ pc[p] \notin AdminAt /\ pc'[p] \notin AdminAt
        /\ \A q \in Proc \ {p} : job'[q].alone = job[q].alone
    BY <1>17 DEF RecordPrimary, Others, Types, TasksOK, AdminAt
  <2>2. UNCHANGED <<row, hot, server, askew>>
    BY <1>17 DEF RecordPrimary, disk, memory, hist
  <2>3. KeepsTurn(p)
    BY <2>1, <2>2 DEF KeepsTurn, OnPrimary, AdminAt, Active, Live
  <2> QED
    BY <2>3, TurnKept
<1>18. ASSUME NEW p \in Proc, WriteCopy(p) PROVE Turn'
  <2>1. /\ pc' = [pc EXCEPT ![p] = "copies"] \/ pc' = pc
        /\ pc[p] = "copies" /\ \E j : job' = [job EXCEPT ![p] = j]
    BY <1>18 DEF WriteCopy, Goto
  <2>2. /\ Others(p) /\ pc[p] \notin AdminAt /\ pc'[p] \notin AdminAt
        /\ \A q \in Proc \ {p} : job'[q].alone = job[q].alone
    BY <2>1 DEF Others, Types, TasksOK, AdminAt
  <2>3. UNCHANGED <<row, hot, server, askew>>
    BY <1>18 DEF WriteCopy, disk, memory, hist
  <2>4. KeepsTurn(p)
    BY <2>2, <2>3 DEF KeepsTurn, OnPrimary, AdminAt, Active, Live
  <2> QED
    BY <2>4, TurnKept
<1>19. ASSUME NEW p \in Proc, InsertLocation(p) PROVE Turn'
  <2>1. /\ pc' = [pc EXCEPT ![p] = "copies"] \/ pc' = pc
        /\ pc[p] = "copies" /\ \E j : job' = [job EXCEPT ![p] = j]
    BY <1>19 DEF InsertLocation, Goto
  <2>2. /\ Others(p) /\ pc[p] \notin AdminAt /\ pc'[p] \notin AdminAt
        /\ \A q \in Proc \ {p} : job'[q].alone = job[q].alone
    BY <2>1 DEF Others, Types, TasksOK, AdminAt
  <2>3. UNCHANGED <<row, hot, server, askew>>
    BY <1>19 DEF InsertLocation, disk, memory, hist
  <2>4. KeepsTurn(p)
    BY <2>2, <2>3 DEF KeepsTurn, OnPrimary, AdminAt, Active, Live
  <2> QED
    BY <2>4, TurnKept
<1>20. ASSUME NEW p \in Proc, Written(p) PROVE Turn'
  <2>1. /\ Others(p) /\ pc[p] \notin AdminAt /\ pc'[p] \notin AdminAt
        /\ \A q \in Proc \ {p} : job'[q].alone = job[q].alone
    BY <1>20, GotoAt DEF Written, End, Types, AdminAt
  <2>2. UNCHANGED <<row, hot, server, askew>>
    BY <1>20 DEF Written, disk, memory, hist
  <2>3. KeepsTurn(p)
    BY <2>1, <2>2 DEF KeepsTurn, OnPrimary, AdminAt, Active, Live
  <2> QED
    BY <2>3, TurnKept
<1>21. ASSUME NEW p \in Proc, WriteFails(p) PROVE Turn'
  <2>1. /\ Others(p) /\ pc[p] \notin AdminAt /\ pc'[p] \notin AdminAt
        /\ \A q \in Proc \ {p} : job'[q].alone = job[q].alone
    BY <1>21 DEF WriteFails, Others, Types, TasksOK, AdminAt
  <2>2. UNCHANGED <<row, hot, server, askew>>
    BY <1>21 DEF WriteFails, disk, memory, hist
  <2>3. KeepsTurn(p)
    BY <2>1, <2>2 DEF KeepsTurn, OnPrimary, AdminAt, Active, Live
  <2> QED
    BY <2>3, TurnKept
<1>22. CASE UNCHANGED vars
  BY <1>22 DEF vars, disk, memory, tasks, hist, Turn, OnePrimary, Straight, OnPrimary,
     Activating, Active, Live
<1> QED
  BY <1>0, <1>1, <1>2, <1>3, <1>4, <1>5, <1>6, <1>7, <1>8, <1>9, <1>10, <1>11, <1>12, <1>13,
     <1>14, <1>15, <1>16, <1>17, <1>18, <1>19, <1>20, <1>21, <1>22 DEF Next, GqlCreate,
     GqlDelete, GqlActivate, GqlDeactivate

-----------------------------------------------------------------------------
(***************************************************************************)
(* Starting.                                                               *)
(***************************************************************************)
\* A start that finds no active row though there is one finds the primary changed askew.
LEMMA DeadStep ==
    ASSUME Types, Shape, Turn, StartsUnlessExcused, [Next]_vars
    PROVE  StartsUnlessExcused'
<1>1. CASE LoadKeys
  BY <1>1 DEF LoadKeys, Ask, Begin, Shape, Stop, StartsUnlessExcused, memory
<1>2. CASE OpenBackend
  <2> SUFFICES ASSUME server' = "dead", ~misread' PROVE askew'
    BY DEF StartsUnlessExcused
  <2>1. server = "keys" /\ NameTaken(TRUE) /\ {b \in Live : row[b].active} = {} /\ UNCHANGED askew
    BY <1>2 DEF OpenBackend, BootFirst
  <2>2. Live # {} /\ Active("primary") = {}
    BY <2>1 DEF NameTaken, Active
  <2>3. OnPrimary = {}
    BY <2>1, NotUp
  <2> QED
    BY <2>1, <2>2, <2>3 DEF Turn, Straight
<1>0. CASE Restart
  BY <1>0 DEF Restart, StartsUnlessExcused
<1>3. CASE Crash
  BY <1>3 DEF Crash, Ask, Begin, Shape, Stop, StartsUnlessExcused, memory
<1>4. CASE RotateKey
  BY <1>4 DEF RotateKey, Ask, Begin, Shape, Stop, StartsUnlessExcused, memory
<1>5. ASSUME NEW role \in Role, NEW place \in Place, NEW boot \in BOOLEAN, CreateBackend(role, place, boot) PROVE StartsUnlessExcused'
  BY <1>5 DEF CreateBackend, Ask, Begin, Shape, Stop, StartsUnlessExcused, memory
<1>6. ASSUME NEW p \in Proc, NEW b \in Backend, AskDelete(p, b) PROVE StartsUnlessExcused'
  BY <1>6 DEF AskDelete, Ask, Begin, Shape, Stop, StartsUnlessExcused, memory
<1>7. ASSUME NEW p \in Proc, NEW b \in Backend, AskActivate(p, b) PROVE StartsUnlessExcused'
  BY <1>7 DEF AskActivate, Ask, Begin, Shape, Stop, StartsUnlessExcused, memory
<1>8. ASSUME NEW p \in Proc, NEW b \in Backend, AskDeactivate(p, b) PROVE StartsUnlessExcused'
  BY <1>8 DEF AskDeactivate, Ask, Begin, Shape, Stop, StartsUnlessExcused, memory
<1>9. ASSUME NEW p \in Proc, DeleteBackend(p) PROVE StartsUnlessExcused'
  BY <1>9 DEF DeleteBackend, Ask, Begin, Shape, Stop, StartsUnlessExcused, memory
<1>10. ASSUME NEW p \in Proc, Swap(p) PROVE StartsUnlessExcused'
  BY <1>10 DEF Swap, Ask, Begin, Shape, Stop, StartsUnlessExcused, memory
<1>11. ASSUME NEW p \in Proc, Clear(p) PROVE StartsUnlessExcused'
  BY <1>11 DEF Clear, Ask, Begin, Shape, Stop, StartsUnlessExcused, memory
<1>12. ASSUME NEW p \in Proc, Set(p) PROVE StartsUnlessExcused'
  BY <1>12 DEF Set, Ask, Begin, Shape, Stop, StartsUnlessExcused, memory
<1>13. ASSUME NEW p \in Proc, Deactivate(p) PROVE StartsUnlessExcused'
  BY <1>13 DEF Deactivate, Ask, Begin, Shape, Stop, StartsUnlessExcused, memory
<1>14. ASSUME NEW p \in Proc, AdminFails(p) PROVE StartsUnlessExcused'
  BY <1>14 DEF AdminFails, Ask, Begin, Shape, Stop, StartsUnlessExcused, memory
<1>15. ASSUME NEW p \in Proc, WriteChunk(p) PROVE StartsUnlessExcused'
  BY <1>15 DEF WriteChunk, Ask, Begin, Shape, Stop, StartsUnlessExcused, memory
<1>16. ASSUME NEW p \in Proc, WriteMain(p) PROVE StartsUnlessExcused'
  BY <1>16 DEF WriteMain, Ask, Begin, Shape, Stop, StartsUnlessExcused, memory
<1>17. ASSUME NEW p \in Proc, RecordPrimary(p) PROVE StartsUnlessExcused'
  BY <1>17 DEF RecordPrimary, Ask, Begin, Shape, Stop, StartsUnlessExcused, memory
<1>18. ASSUME NEW p \in Proc, WriteCopy(p) PROVE StartsUnlessExcused'
  BY <1>18 DEF WriteCopy, Ask, Begin, Shape, Stop, StartsUnlessExcused, memory
<1>19. ASSUME NEW p \in Proc, InsertLocation(p) PROVE StartsUnlessExcused'
  BY <1>19 DEF InsertLocation, Ask, Begin, Shape, Stop, StartsUnlessExcused, memory
<1>20. ASSUME NEW p \in Proc, Written(p) PROVE StartsUnlessExcused'
  BY <1>20 DEF Written, Ask, Begin, Shape, Stop, StartsUnlessExcused, memory
<1>21. ASSUME NEW p \in Proc, WriteFails(p) PROVE StartsUnlessExcused'
  BY <1>21 DEF WriteFails, Ask, Begin, Shape, Stop, StartsUnlessExcused, memory
<1>22. CASE UNCHANGED vars
  BY <1>22 DEF vars, disk, memory, hist, StartsUnlessExcused
<1> QED
  BY <1>0, <1>1, <1>2, <1>3, <1>4, <1>5, <1>6, <1>7, <1>8, <1>9, <1>10, <1>11, <1>12, <1>13,
     <1>14, <1>15, <1>16, <1>17, <1>18, <1>19, <1>20, <1>21, <1>22 DEF Next, GqlCreate,
     GqlDelete, GqlActivate, GqlDeactivate

-----------------------------------------------------------------------------
(***************************************************************************)
(* Writing: what a write records is where it wrote.                        *)
(***************************************************************************)
\* What p does leaves the copies, and what the writes of others count on.
KeepsWrites(p) ==
    /\ Others(p)
    /\ \/ \A q \in Proc \ {p} : job'[q].crossed
       \/ UNCHANGED hot /\ Active("primary")' \subseteq Active("primary")
    /\ \A x \in Place : blob[x] # NoBlob => blob'[x] # NoBlob

\* A copy is not lost.
LEMMA HeldOn ==
    ASSUME Types, KeepsRows, NEW b \in Born, Held(b),
           \A x \in Place : blob[x] # NoBlob => blob'[x] # NoBlob
    PROVE  Held(b)'
<1>1. row[b].place \in Place /\ row'[b].place = row[b].place
  BY DEF Types, RowsOK, Rows, Born, KeepsRows
<1> QED
  BY <1>1 DEF Held

\* Then the writes of others still see what they saw.
LEMMA OthersSee ==
    ASSUME Types, Shape, KeepsRows, Writing, NEW p \in Proc, KeepsWrites(p), NEW q \in Proc \ {p}
    PROVE  Sees(q)'
<1>1. pc'[q] = pc[q] /\ job'[q].kept = job[q].kept /\ (job[q].crossed => job'[q].crossed)
  BY DEF KeepsWrites, Others
<1>2. Active("primary") \subseteq Born /\ (pc[q] = "copies" => job[q].kept \subseteq Born)
  BY DEF Active, Live, Born, Shape, WriteAt
<1>3. \A b \in Born : /\ row'[b].place = row[b].place
                      /\ Held(b) => Held(b)'
  BY HeldOn DEF KeepsWrites, KeepsRows
<1>4. pc'[q] = "copies" => \A b \in job'[q].kept : Held(b)'
  BY <1>1, <1>2, <1>3 DEF Writing, Sees
<1>5. CASE job'[q].crossed
  BY <1>4, <1>5 DEF Sees
<1>6. CASE ~job'[q].crossed
  <2>1. ~job[q].crossed /\ UNCHANGED hot /\ Active("primary")' \subseteq Active("primary")
    BY <1>1, <1>6 DEF KeepsWrites
  <2>2. pc'[q] = "main" => \A b \in Active("primary")' : row'[b].place = hot'
    BY <1>1, <1>2, <1>3, <2>1 DEF Writing, Sees
  <2>3. pc'[q] = "primary" => \A b \in Active("primary")' : Held(b)'
    BY <1>1, <1>2, <1>3, <2>1 DEF Writing, Sees
  <2> QED
    BY <1>4, <2>2, <2>3 DEF Sees
<1> QED
  BY <1>5, <1>6

\* A step of p that records nothing, and its own write, if it has one, still holds.
LEMMA WritesKept ==
    ASSUME Types, Shape, KeepsRows, Writing, NEW p \in Proc, KeepsWrites(p), Sees(p)', UNCHANGED <<loc, sound>>
    PROVE  Writing'
<1>1. \A q \in Proc : Sees(q)'
  BY OthersSee
<1>2. \A b \in sound : b \in loc \cap Born' /\ Held(b)'
  BY HeldOn DEF KeepsRows, KeepsWrites, Writing
<1> QED
  BY <1>1, <1>2 DEF Writing

\* A request that is no write sees nothing.
LEMMA NoWrite == ASSUME NEW p \in Proc, pc'[p] \notin WriteAt PROVE Sees(p)'
  BY DEF Sees, WriteAt

\* When nobody is at work, it is enough that copies stay.
LEMMA NobodyWrites ==
    ASSUME Types, Shape, KeepsRows, Writing, \A p \in Proc : pc'[p] = "idle", UNCHANGED <<loc, sound, blob>>
    PROVE  Writing'
<1>1. \A p \in Proc : Sees(p)'
  BY NoWrite DEF WriteAt
<1>2. \A b \in sound : b \in loc \cap Born' /\ Held(b)'
  BY HeldOn DEF KeepsRows, Writing
<1> QED
  BY <1>1, <1>2 DEF Writing

\* Every step keeps it: what could move the hot place or the active primary crosses the writes under way.
LEMMA WritingStep ==
    ASSUME Types, Shape, Keyring, Turn, Writing, [Next]_vars
    PROVE  Writing'
<1> KeepsRows
  BY RowsKeep
<1>1. CASE LoadKeys
  <2>1. (\A p \in Proc : pc'[p] = "idle") /\ UNCHANGED <<loc, sound, blob>>
    BY <1>1 DEF LoadKeys, Shape, tasks, hist
  <2> QED
    BY <2>1, NobodyWrites
<1>2. CASE OpenBackend
  <2>1. (\A p \in Proc : pc'[p] = "idle") /\ UNCHANGED <<loc, sound, blob>>
    BY <1>2 DEF OpenBackend, Shape, tasks, hist
  <2> QED
    BY <2>1, NobodyWrites
<1>0. CASE Restart
  BY <1>0, NobodyWrites DEF Restart, Shape, disk, tasks, hist
<1>3. CASE Crash
  BY <1>3, NobodyWrites DEF Crash, Stop, disk
<1>4. CASE RotateKey
  <2>1. UNCHANGED <<loc, sound, blob>>
    BY <1>4 DEF RotateKey
  <2>2. CASE Stop
    BY <2>1, <2>2, NobodyWrites DEF Stop
  <2>3. CASE UNCHANGED tasks
    <3>1. UNCHANGED <<row, hot, loc, sound, blob, pc, job>>
      BY <1>4, <2>3 DEF RotateKey, tasks
    <3> QED
      BY <3>1 DEF Writing, Sees, Held, Active, Live, Born
  <2> QED
    BY <1>4, <2>2, <2>3 DEF RotateKey
<1>5. ASSUME NEW role \in Role, NEW place \in Place, NEW boot \in BOOLEAN, CreateBackend(role, place, boot) PROVE Writing'
  <2>1. /\ UNCHANGED <<hot, loc, sound, blob, pc, job>> /\ Unborn # {}
        /\ row' = [row EXCEPT ![Min(Unborn)] =
                     [st |-> "live", boot |-> boot, role |-> role, place |-> place, active |-> FALSE]]
    BY <1>5 DEF CreateBackend, memory, tasks, hist
  <2>2. Active("primary")' \subseteq Active("primary")
    <3>1. \A b \in Backend : ~row'[b].active \/ row'[b] = row[b]
      BY <2>1 DEF Types, RowsOK
    <3> QED
      BY <3>1 DEF Active, Live
  <2>3. \A b \in sound : b \in loc \cap Born' /\ Held(b)'
    BY <2>1, HeldOn DEF KeepsRows, Writing
  <2>4. ASSUME NEW p \in Proc PROVE Sees(p)'
    <3>1. Sees(p) /\ Active("primary") \subseteq Born /\ (pc[p] = "copies" => job[p].kept \subseteq Born)
      BY DEF Writing, Active, Live, Born, Shape, WriteAt
    <3>2. \A b \in Born : row'[b].place = row[b].place /\ (Held(b) => Held(b)')
      BY <2>1, HeldOn DEF KeepsRows
    <3>3. pc'[p] = "main" /\ ~job'[p].crossed => \A b \in Active("primary")' : row'[b].place = hot'
      BY <2>1, <2>2, <3>1, <3>2 DEF Sees
    <3>4. pc'[p] = "primary" /\ ~job'[p].crossed => \A b \in Active("primary")' : Held(b)'
      BY <2>1, <2>2, <3>1, <3>2 DEF Sees
    <3>5. pc'[p] = "copies" => \A b \in job'[p].kept : Held(b)'
      BY <2>1, <3>1, <3>2 DEF Sees
    <3> QED
      BY <3>3, <3>4, <3>5 DEF Sees
  <2> QED
    BY <2>1, <2>3, <2>4 DEF Writing
<1>6. ASSUME NEW p \in Proc, NEW b \in Backend, AskDelete(p, b) PROVE Writing'
  <2>1. Others(p) /\ pc'[p] \notin WriteAt
    BY <1>6, AskAt DEF AskDelete, Live, Types, WriteAt
  <2>2. UNCHANGED <<blob, loc, sound>>
    BY <1>6 DEF AskDelete, Ask, disk, memory, hist
  <2>3. KeepsWrites(p)
    <3>1. UNCHANGED <<row, hot>>
      BY <1>6 DEF AskDelete, Ask, disk, memory
    <3>2. Active("primary")' = Active("primary")
      BY <3>1 DEF Active, Live
    <3> QED
      BY <2>1, <2>2, <3>1, <3>2 DEF KeepsWrites
  <2> QED
    BY <2>1, <2>2, <2>3, NoWrite, WritesKept
<1>7. ASSUME NEW p \in Proc, NEW b \in Backend, AskActivate(p, b) PROVE Writing'
  <2>1. Others(p) /\ pc'[p] \notin WriteAt
    <3>1. PICK l \in {"swap", "set"} : Ask(p, l, b)
      BY <1>7 DEF AskActivate
    <3> QED
      BY <3>1, AskAt DEF Types, WriteAt
  <2>2. UNCHANGED <<blob, loc, sound>>
    BY <1>7 DEF AskActivate, Ask, disk, memory, hist
  <2>3. KeepsWrites(p)
    <3>1. UNCHANGED <<row, hot>>
      BY <1>7 DEF AskActivate, Ask, disk, memory
    <3>2. Active("primary")' = Active("primary")
      BY <3>1 DEF Active, Live
    <3> QED
      BY <2>1, <2>2, <3>1, <3>2 DEF KeepsWrites
  <2> QED
    BY <2>1, <2>2, <2>3, NoWrite, WritesKept
<1>8. ASSUME NEW p \in Proc, NEW b \in Backend, AskDeactivate(p, b) PROVE Writing'
  <2>1. Others(p) /\ pc'[p] \notin WriteAt
    BY <1>8, AskAt DEF AskDeactivate, Live, Types, WriteAt
  <2>2. UNCHANGED <<blob, loc, sound>>
    BY <1>8 DEF AskDeactivate, Ask, disk, memory, hist
  <2>3. KeepsWrites(p)
    <3>1. UNCHANGED <<row, hot>>
      BY <1>8 DEF AskDeactivate, Ask, disk, memory
    <3>2. Active("primary")' = Active("primary")
      BY <3>1 DEF Active, Live
    <3> QED
      BY <2>1, <2>2, <3>1, <3>2 DEF KeepsWrites
  <2> QED
    BY <2>1, <2>2, <2>3, NoWrite, WritesKept
<1>9. ASSUME NEW p \in Proc, DeleteBackend(p) PROVE Writing'
  <2>1. Others(p) /\ pc'[p] \notin WriteAt
    BY <1>9, GotoAt DEF DeleteBackend, End, Types, WriteAt
  <2>2. UNCHANGED <<blob, loc, sound>>
    BY <1>9 DEF DeleteBackend, Ask, disk, memory, hist
  <2>3. KeepsWrites(p)
    <3>1. UNCHANGED hot
      BY <1>9 DEF DeleteBackend, memory
    <3>2. \A b \in Backend : row'[b] = row[b] \/ ~row'[b].active
      BY <1>9 DEF DeleteBackend, Types, RowsOK, Rows
    <3>3. Active("primary")' \subseteq Active("primary")
      BY <3>2 DEF Active, Live
    <3> QED
      BY <2>1, <2>2, <3>1, <3>3 DEF KeepsWrites
  <2> QED
    BY <2>1, <2>2, <2>3, NoWrite, WritesKept
<1>10. ASSUME NEW p \in Proc, Swap(p) PROVE Writing'
  <2>1. Others(p) /\ pc'[p] \notin WriteAt
    BY <1>10, AdvanceAt DEF Swap, Advance, Types, TasksOK, WriteAt
  <2>2. UNCHANGED <<blob, loc, sound>>
    BY <1>10 DEF Swap, Ask, disk, memory, hist
  <2>3. KeepsWrites(p)
    <3>1. \A q \in Proc \ {p} : job'[q].crossed
      BY <1>10, AdvanceAt DEF Swap, Advance, Types, TasksOK
    <3> QED
      BY <2>1, <2>2, <3>1 DEF KeepsWrites
  <2> QED
    BY <2>1, <2>2, <2>3, NoWrite, WritesKept
<1>11. ASSUME NEW p \in Proc, Clear(p) PROVE Writing'
  <2>1. Others(p) /\ pc'[p] \notin WriteAt
    BY <1>11, AdvanceAt DEF Clear, Advance, Types, TasksOK, WriteAt
  <2>2. UNCHANGED <<blob, loc, sound>>
    BY <1>11 DEF Clear, Ask, disk, memory, hist
  <2>3. KeepsWrites(p)
    <3>1. UNCHANGED hot
      BY <1>11 DEF Clear, memory
    <3>2. \A b \in Backend : row'[b] = row[b] \/ ~row'[b].active
      BY <1>11 DEF Clear, Types, RowsOK, Rows
    <3>3. Active("primary")' \subseteq Active("primary")
      BY <3>2 DEF Active, Live
    <3> QED
      BY <2>1, <2>2, <3>1, <3>3 DEF KeepsWrites
  <2> QED
    BY <2>1, <2>2, <2>3, NoWrite, WritesKept
<1>12. ASSUME NEW p \in Proc, Set(p) PROVE Writing'
  <2>1. Others(p) /\ pc'[p] \notin WriteAt
    <3>1. Others(p) /\ pc'[p] = "idle"
      BY <1>12, GotoAt, AdvanceAt, JobFields DEF Set, End, Advance, Types
    <3> QED
      BY <3>1 DEF WriteAt
  <2>2. UNCHANGED <<blob, loc, sound>>
    BY <1>12 DEF Set, Ask, disk, memory, hist
  <2>3. KeepsWrites(p)
    <3>1. CASE p \in OnPrimary
      <4>1. \A q \in Proc \ {p} : job'[q].crossed
        BY <1>12, <3>1, AdvanceAt, JobFields DEF Set, Advance, Types
      <4> QED
        BY <2>1, <2>2, <4>1 DEF KeepsWrites
    <3>2. CASE p \notin OnPrimary
      <4>1. row[job[p].on].role # "primary" /\ UNCHANGED hot
        BY <1>12, <3>2 DEF Set, OnPrimary, memory
      <4>2. \A b \in Backend : row'[b] = row[b] \/ row'[b].role # "primary"
        BY <1>12, <4>1 DEF Set, Types, RowsOK, Rows
      <4>3. Active("primary")' \subseteq Active("primary")
        BY <4>2 DEF Active, Live
      <4> QED
        BY <2>1, <2>2, <4>1, <4>3 DEF KeepsWrites
    <3> QED
      BY <3>1, <3>2
  <2> QED
    BY <2>1, <2>2, <2>3, NoWrite, WritesKept
<1>13. ASSUME NEW p \in Proc, Deactivate(p) PROVE Writing'
  <2>1. Others(p) /\ pc'[p] \notin WriteAt
    <3>1. Others(p) /\ pc'[p] = "idle"
      BY <1>13, GotoAt, AdvanceAt, JobFields DEF Deactivate, End, Advance, Types
    <3> QED
      BY <3>1 DEF WriteAt
  <2>2. UNCHANGED <<blob, loc, sound>>
    BY <1>13 DEF Deactivate, Ask, disk, memory, hist
  <2>3. KeepsWrites(p)
    <3>1. UNCHANGED hot
      BY <1>13 DEF Deactivate, memory
    <3>2. \A b \in Backend : row'[b] = row[b] \/ ~row'[b].active
      BY <1>13 DEF Deactivate, Types, RowsOK, Rows
    <3>3. Active("primary")' \subseteq Active("primary")
      BY <3>2 DEF Active, Live
    <3> QED
      BY <2>1, <2>2, <3>1, <3>3 DEF KeepsWrites
  <2> QED
    BY <2>1, <2>2, <2>3, NoWrite, WritesKept
<1>14. ASSUME NEW p \in Proc, AdminFails(p) PROVE Writing'
  <2>1. Others(p) /\ pc'[p] \notin WriteAt
    BY <1>14, AdvanceAt, JobFields DEF AdminFails, Types, WriteAt
  <2>2. UNCHANGED <<blob, loc, sound>>
    BY <1>14 DEF AdminFails, Ask, disk, memory, hist
  <2>3. KeepsWrites(p)
    <3>1. UNCHANGED <<row, hot>>
      BY <1>14 DEF AdminFails, Ask, disk, memory
    <3>2. Active("primary")' = Active("primary")
      BY <3>1 DEF Active, Live
    <3> QED
      BY <2>1, <2>2, <3>1, <3>2 DEF KeepsWrites
  <2> QED
    BY <2>1, <2>2, <2>3, NoWrite, WritesKept
<1>15. ASSUME NEW p \in Proc, WriteChunk(p) PROVE Writing'
  <2>1. /\ Others(p) /\ pc'[p] = "main" /\ server = "up"
        /\ job'[p].crossed = (askew \/ Activating # {})
    BY <1>15 DEF WriteChunk, Others, Types, TasksOK, NoJob
  <2>2. UNCHANGED <<row, hot, blob, loc, sound>>
    BY <1>15 DEF WriteChunk, disk, memory, hist
  <2>3. Active("primary")' = Active("primary")
    BY <2>2 DEF Active, Live
  <2>4. KeepsWrites(p)
    BY <2>1, <2>2, <2>3 DEF KeepsWrites
  <2>5. Sees(p)'
    BY <2>1, <2>2, <2>3 DEF Turn, Straight, Sees
  <2> QED
    BY <2>2, <2>4, <2>5, WritesKept
<1>16. ASSUME NEW p \in Proc, WriteMain(p) PROVE Writing'
  <2> DEFINE t == Target(job[p])
  <2>1. /\ pc[p] = "main" /\ job[p] \in Jobs /\ job[p].shard \in Born \cup {0}
        /\ UNCHANGED <<row, hot, loc, sound>>
    BY <1>16 DEF WriteMain, Shape, WriteAt, memory, hist, Types, TasksOK
  <2>2. t \in Place /\ WriteEncrypted(t) /\ Open
    BY <1>16, <2>1 DEF WriteMain, Target, Shape, Born, Open, Types, RowsOK, PlainOK, Rows
  <2> HIDE DEF t
  <2>3. blob'[t] # NoBlob /\ \A x \in Place : blob[x] # NoBlob => blob'[x] # NoBlob
    BY <2>2, WriteKeeps
  <2>4. Active("primary")' = Active("primary")
    BY <2>1 DEF Active, Live
  <2>5. Others(p)
    BY <1>16, GotoAt DEF WriteMain, Types
  <2>6. KeepsWrites(p)
    BY <2>1, <2>3, <2>4, <2>5 DEF KeepsWrites
  <2>7. CASE job[p].shard # 0
    <3>1. pc'[p] = "copies" /\ job'[p] = [job[p] EXCEPT !.ids = {job[p].shard}, !.kept = {job[p].shard}]
      BY <1>16, <2>7, GotoAt DEF WriteMain, Types
    <3>2. job'[p].kept = {job[p].shard}
      BY <2>1, <3>1 DEF Jobs
    <3>3. \A b \in {job[p].shard} : Held(b)'
      BY <2>1, <2>3, <2>7 DEF Held, t, Target
    <3>4. Sees(p)'
      BY <3>1, <3>2, <3>3 DEF Sees
    <3> QED
      BY <2>1, <2>6, <3>4, WritesKept
  <2>8. CASE job[p].shard = 0
    <3>1. pc'[p] = "primary" /\ job'[p] = job[p] /\ t = hot
      BY <1>16, <2>8, GotoAt DEF WriteMain, Types, t, Target
    <3>2. ~job[p].crossed => \A b \in Active("primary") : row[b].place = t
      BY <2>1, <3>1 DEF Writing, Sees
    <3>3. ~job[p].crossed => \A b \in Active("primary") : Held(b)'
      BY <2>1, <2>3, <3>2 DEF Held
    <3>4. Sees(p)'
      BY <2>4, <3>1, <3>3 DEF Sees
    <3> QED
      BY <2>1, <2>6, <3>4, WritesKept
  <2> QED
    BY <2>7, <2>8
<1>17. ASSUME NEW p \in Proc, RecordPrimary(p) PROVE Writing'
  <2>1. /\ pc[p] = "primary" /\ job[p] \in Jobs /\ UNCHANGED <<row, hot, blob, loc, sound>>
    BY <1>17 DEF RecordPrimary, disk, memory, hist, Types, TasksOK
  <2>2. FindPrimary \subseteq Active("primary")
    <3>1. Active("primary") \in SUBSET Nat
      BY Backends DEF Active, Live
    <3> QED
      BY <3>1, MinIn DEF FindPrimary
  <2>0. PICK found \in {FindPrimary, {}} :
           /\ pc' = [pc EXCEPT ![p] = "copies"]
           /\ job' = [job EXCEPT ![p] = [job[p] EXCEPT !.ids = found, !.kept = IF job[p].crossed THEN {} ELSE found]]
    BY <1>17 DEF RecordPrimary
  <2> DEFINE kept == IF job[p].crossed THEN {} ELSE found
  <2>3. /\ Others(p) /\ pc'[p] = "copies"
        /\ job'[p] = [job[p] EXCEPT !.ids = found, !.kept = kept]
    BY <2>0 DEF Others, Types, TasksOK
  <2>4. \A b \in kept : Held(b)
    BY <2>1, <2>2 DEF Writing, Sees
  <2>5. Active("primary")' = Active("primary") /\ \A b : Held(b)' <=> Held(b)
    BY <2>1 DEF Active, Live, Held
  <2> HIDE DEF kept
  <2>6. job'[p].kept = kept
    BY <2>1, <2>3 DEF Jobs
  <2>7. Sees(p)'
    BY <2>3, <2>4, <2>5, <2>6 DEF Sees
  <2>8. KeepsWrites(p)
    BY <2>1, <2>3, <2>5 DEF KeepsWrites
  <2> QED
    BY <2>1, <2>7, <2>8, WritesKept
<1>18. ASSUME NEW p \in Proc, WriteCopy(p) PROVE Writing'
  <2>0. PICK b : b = Min(job[p].copies)
    OBVIOUS
  <2>1. /\ pc[p] = "copies" /\ job[p] \in Jobs /\ UNCHANGED <<row, hot, loc, sound>> /\ Open
        /\ job[p].copies # {} /\ job[p].copies \in SUBSET Backend /\ job[p].copies \subseteq Born
        /\ job[p].kept \subseteq Born
    BY <1>18 DEF WriteCopy, memory, hist, Types, TasksOK, Jobs, Shape, WriteAt, Open
  <2>2. b \in Born
    BY <2>0, <2>1, Backends, MinIn
  <2>3. row[b].place \in Place
    BY <2>2 DEF Types, RowsOK, Rows, Born
  <2>4. Active("primary")' = Active("primary")
    BY <2>1 DEF Active, Live
  <2>5. \/ /\ WriteEncrypted(row[b].place)
           /\ Goto(p, "copies", [[job[p] EXCEPT !.copies = job[p].copies \ {b}]
                                    EXCEPT !.ids = job[p].ids \cup {b}, !.kept = job[p].kept \cup {b}])
        \/ /\ UNCHANGED <<blob, pc>>
           /\ job' = [job EXCEPT ![p] = [job[p] EXCEPT !.copies = job[p].copies \ {b}]]
    BY <1>18, <2>0, <2>1 DEF WriteCopy, Jobs
  <2>6. CASE /\ WriteEncrypted(row[b].place)
             /\ Goto(p, "copies", [[job[p] EXCEPT !.copies = job[p].copies \ {b}]
                                      EXCEPT !.ids = job[p].ids \cup {b}, !.kept = job[p].kept \cup {b}])
    <3>1. blob'[row[b].place] # NoBlob /\ \A x \in Place : blob[x] # NoBlob => blob'[x] # NoBlob
      BY <2>1, <2>3, <2>6, WriteKeeps
    <3>2. Others(p) /\ pc'[p] = "copies" /\ job'[p].kept = job[p].kept \cup {b}
      <4>1. Others(p) /\ pc'[p] = "copies"
        BY <2>6, GotoAt DEF Types
      <4>2. job'[p] = [[job[p] EXCEPT !.copies = job[p].copies \ {b}]
                          EXCEPT !.ids = job[p].ids \cup {b}, !.kept = job[p].kept \cup {b}]
        BY <2>6, GotoAt DEF Types
      <4>3. job'[p].kept = job[p].kept \cup {b}
        BY <2>1, <4>2 DEF Jobs
      <4> QED
        BY <4>1, <4>3
    <3>3. Held(b)' /\ \A c \in job[p].kept : Held(c)'
      <4>1. Held(b)'
        BY <2>1, <3>1 DEF Held
      <4>2. \A c \in job[p].kept : Held(c)
        BY <2>1 DEF Writing, Sees
      <4> QED
        BY <2>1, <3>1, <4>1, <4>2, HeldOn
    <3>4. Sees(p)'
      BY <3>2, <3>3 DEF Sees
    <3>5. KeepsWrites(p)
      BY <2>1, <2>4, <3>1, <3>2 DEF KeepsWrites
    <3> QED
      BY <2>1, <3>4, <3>5, WritesKept
  <2>7. CASE /\ UNCHANGED <<blob, pc>>
             /\ job' = [job EXCEPT ![p] = [job[p] EXCEPT !.copies = job[p].copies \ {b}]]
    <3>1. Others(p) /\ pc'[p] = "copies" /\ job'[p].kept = job[p].kept
      BY <2>1, <2>7 DEF Others, Types, TasksOK, Jobs
    <3>2. Sees(p)'
      BY <2>1, <2>7, <3>1 DEF Sees, Writing, Held
    <3>3. KeepsWrites(p)
      BY <2>1, <2>4, <2>7, <3>1 DEF KeepsWrites
    <3> QED
      BY <2>1, <3>2, <3>3, WritesKept
  <2> QED
    BY <2>5, <2>6, <2>7
<1>19. ASSUME NEW p \in Proc, InsertLocation(p) PROVE Writing'
  <2>1. PICK b \in job[p].ids :
           /\ pc[p] = "copies" /\ UNCHANGED <<row, hot, blob>>
           /\ \/ loc' = loc \cup {b} /\ sound' = sound \cup ({b} \cap job[p].kept)
              \/ UNCHANGED <<loc, sound>>
           /\ pc' = [pc EXCEPT ![p] = "copies"] \/ pc' = pc
           /\ job' = [job EXCEPT ![p] = [job[p] EXCEPT !.ids = job[p].ids \ {b}]]
    BY <1>19 DEF InsertLocation, Goto, memory, Types, TasksOK, Jobs
  <2>2. job[p] \in Jobs /\ job[p].kept \subseteq Born
    BY <2>1 DEF Shape, WriteAt, Types, TasksOK
  <2>3. Others(p) /\ pc'[p] = "copies" /\ job'[p].kept = job[p].kept
    BY <2>1, <2>2 DEF Others, Types, TasksOK, Jobs
  <2>4. Active("primary")' = Active("primary") /\ Born' = Born /\ \A c : Held(c)' <=> Held(c)
    BY <2>1 DEF Active, Live, Born, Held
  <2>5. \A c \in job[p].kept : Held(c)
    BY <2>1 DEF Writing, Sees
  <2>6. Sees(p)'
    BY <2>3, <2>4, <2>5 DEF Sees
  <2>7. KeepsWrites(p)
    BY <2>1, <2>3, <2>4 DEF KeepsWrites
  <2>8. \A q \in Proc : Sees(q)'
    BY <2>6, <2>7, OthersSee
  <2>9. \A c \in sound' : c \in loc' \cap Born /\ Held(c)
    BY <2>1, <2>2, <2>5 DEF Writing
  <2> QED
    BY <2>4, <2>8, <2>9 DEF Writing
<1>20. ASSUME NEW p \in Proc, Written(p) PROVE Writing'
  <2>1. Others(p) /\ pc'[p] \notin WriteAt
    BY <1>20, GotoAt DEF Written, End, Types, WriteAt
  <2>2. UNCHANGED <<blob, loc, sound>>
    BY <1>20 DEF Written, Ask, disk, memory, hist
  <2>3. KeepsWrites(p)
    <3>1. UNCHANGED <<row, hot>>
      BY <1>20 DEF Written, Ask, disk, memory
    <3>2. Active("primary")' = Active("primary")
      BY <3>1 DEF Active, Live
    <3> QED
      BY <2>1, <2>2, <3>1, <3>2 DEF KeepsWrites
  <2> QED
    BY <2>1, <2>2, <2>3, NoWrite, WritesKept
<1>21. ASSUME NEW p \in Proc, WriteFails(p) PROVE Writing'
  <2>1. Others(p) /\ pc'[p] \notin WriteAt
    BY <1>21 DEF WriteFails, Others, Types, TasksOK, WriteAt
  <2>2. UNCHANGED <<blob, loc, sound>>
    BY <1>21 DEF WriteFails, Ask, disk, memory, hist
  <2>3. KeepsWrites(p)
    <3>1. UNCHANGED <<row, hot>>
      BY <1>21 DEF WriteFails, Ask, disk, memory
    <3>2. Active("primary")' = Active("primary")
      BY <3>1 DEF Active, Live
    <3> QED
      BY <2>1, <2>2, <3>1, <3>2 DEF KeepsWrites
  <2> QED
    BY <2>1, <2>2, <2>3, NoWrite, WritesKept
<1>22. CASE UNCHANGED vars
  BY <1>22 DEF vars, disk, memory, tasks, hist, Writing, Sees, Held, Active, Live, Born
<1> QED
  BY <1>0, <1>1, <1>2, <1>3, <1>4, <1>5, <1>6, <1>7, <1>8, <1>9, <1>10, <1>11, <1>12, <1>13,
     <1>14, <1>15, <1>16, <1>17, <1>18, <1>19, <1>20, <1>21, <1>22 DEF Next, GqlCreate,
     GqlDelete, GqlActivate, GqlDeactivate

-----------------------------------------------------------------------------
(***************************************************************************)
(* The theorems.                                                           *)
(***************************************************************************)
\* It holds at first.
LEMMA IInvInit == Init => IInv
<1> SUFFICES ASSUME Init PROVE IInv
  OBVIOUS
<1>1. Types
  <2>1. RowsOK
    BY JobFields DEF Init, RowsOK
  <2>2. TasksOK
    <3>1. 0 \in 0 .. MaxOps /\ 0 \in 0 .. MaxFaults
      BY BackendsAssumption
    <3>2. "idle" \in Point /\ NoJob \in Jobs
      BY JobFields DEF Point
    <3> QED
      BY <3>1, <3>2 DEF Init, TasksOK
  <2>3. PlainOK
    <3>1. 0 \in 0 .. MaxKeys
      BY BackendsAssumption
    <3>2. NoBlob \in Blobs
      BY <3>1 DEF NoBlob, Blobs
    <3> QED
      BY <3>1, <3>2, BackendsAssumption DEF Init, PlainOK
  <2> QED
    BY <2>1, <2>2, <2>3 DEF Types
<1>2. (\A p \in Proc : pc[p] = "idle") /\ Live = {} /\ OnPrimary = {}
  BY DEF Init, Live, NoRow, OnPrimary
<1>3. Shape
  BY <1>2 DEF Init, Shape, AdminAt, WriteAt
<1>4. Keyring
  <2>1. Good(<<>>, 0)
    BY GoodKeys
  <2> QED
    BY <2>1 DEF Init, Keyring, Placed, Open
<1>5. Turn
  <2>1. Active("primary") = {}
    BY <1>2 DEF Active
  <2> QED
    BY <1>2, <2>1 DEF Init, Turn, OnePrimary, Straight
<1>6. Writing /\ StartsUnlessExcused
  BY <1>2 DEF Init, Writing, Sees, StartsUnlessExcused
<1> QED
  BY <1>1, <1>3, <1>4, <1>5, <1>6 DEF IInv

\* Every step keeps it.
LEMMA IInvStep == IInv /\ [Next]_vars => IInv'
<1> SUFFICES ASSUME IInv, [Next]_vars PROVE IInv'
  OBVIOUS
<1>1. Types' /\ Shape' /\ Keyring'
  BY TypesStep, ShapeStep, KeyringStep DEF IInv
<1>2. Turn' /\ Writing' /\ StartsUnlessExcused'
  BY TurnStep, WritingStep, DeadStep DEF IInv
<1> QED
  BY <1>1, <1>2 DEF IInv

\* No key is in the ring twice: it has as many as it is long.
LEMMA RingSize == ASSUME Keyring PROVE Cardinality(ToSet(ring)) = Len(ring)
<1>1. ring \in Seq(1 .. made) /\ Len(ring) \in Nat /\ DOMAIN ring = 1 .. Len(ring)
  BY DEF Keyring, Good
<1> DEFINE f == [i \in 1 .. Len(ring) |-> ring[i]]
<1>2. f \in Bijection(1 .. Len(ring), ToSet(ring))
  BY <1>1 DEF Keyring, Good, Bijection, Injection, IsInjective, Surjection, ToSet
<1>3. IsFiniteSet(1 .. Len(ring)) /\ Cardinality(1 .. Len(ring)) = Len(ring)
  BY <1>1, FS_Interval
<1> QED
  BY <1>2, <1>3, FS_Bijection DEF ExistsBijection

\* A sequence over a set is one over a larger set.
LEMMA SeqOver == ASSUME NEW S, NEW T, S \subseteq T, NEW t \in Seq(S) PROVE t \in Seq(T)
  OBVIOUS

\* Its parts give the types as the module states them.
LEMMA IInvTypes == IInv => TypeOK
<1> SUFFICES ASSUME IInv PROVE TypeOK
  OBVIOUS
<1>1. 1 .. made \subseteq Key /\ Key \subseteq 0 .. MaxKeys
  BY BackendsAssumption DEF IInv, Types, PlainOK, Key
<1>2. ring \in Seq(Key)
  <2>1. ring \in Seq(1 .. made)
    BY DEF IInv, Keyring, Good
  <2> QED
    BY <1>1, <2>1, SeqOver
<1>3. file \in Seq(0 .. MaxKeys)
  <2>1. CASE file = Torn
    BY <2>1, BackendsAssumption DEF Torn
  <2>2. CASE file # Torn
    <3>1. file \in Seq(1 .. made) /\ 1 .. made \subseteq 0 .. MaxKeys
      BY <1>1, <2>2 DEF IInv, Keyring, Good
    <3> QED
      BY <3>1, SeqOver
  <2> QED
    BY <2>1, <2>2
<1>4. Cardinality(ToSet(ring)) = Len(ring) /\ (server = "up" => ring # <<>>)
  BY RingSize DEF IInv, Keyring, Open
<1>5. /\ row \in [Backend -> [st : {"unborn", "live", "gone"}, boot : BOOLEAN, role : Role,
                              place : Place, active : BOOLEAN]]
      /\ job \in [Proc -> [on : 0 .. NBackends, shard : 0 .. NBackends, copies : SUBSET Backend,
                           ids : SUBSET Backend, kept : SUBSET Backend,
                           crossed : BOOLEAN, alone : BOOLEAN]]
      /\ blob \in [Place -> [id : 0 .. MaxKeys, key : 0 .. MaxKeys]]
  BY DEF IInv, Types, RowsOK, TasksOK, PlainOK, Rows, Jobs, Blobs
<1>6. pc \in [Proc -> {"idle", "swap", "clear", "set", "unset", "delete", "main", "primary", "copies"}]
  <2>1. Point = {"idle", "swap", "clear", "set", "unset", "delete", "main", "primary", "copies"}
    BY DEF Point, AdminAt, WriteAt
  <2> QED
    BY <2>1 DEF IInv, Types, TasksOK
<1> QED
  BY <1>2, <1>3, <1>4, <1>5, <1>6 DEF TypeOK, IInv, Types, RowsOK, TasksOK, PlainOK

\* A copy that a sound backend led to is under a key of the file, so of the ring, in the
\* place the copy names.
LEMMA IInvReads == IInv => StoredIsReadableUnlessExcused
<1> SUFFICES ASSUME IInv, server = "up", sound \cap Live # {},
                    \A p \in Place : blob[p].key \in ToSet(file) \cup {0},
                    NEW c \in Copies
             PROVE  Decrypts(c)
  BY DEF StoredIsReadableUnlessExcused, Readable
<1> DEFINE there == {x \in Locations : blob[x] # NoBlob}
<1>1. there # {}
  <2>1. PICK b \in sound : b \in Live
    OBVIOUS
  <2>2. row[b].place \in Locations /\ blob[row[b].place] # NoBlob
    BY <2>1 DEF IInv, Writing, Held, Locations
  <2> QED
    BY <2>2
<1>2. PICK x \in there : c = blob[x]
  BY <1>1 DEF Copies
<1>3. x \in Place /\ c # NoBlob
  BY <1>2 DEF Locations, Live, IInv, Types, RowsOK, Rows
<1>4. c.key \in 1 .. made
  BY <1>2, <1>3 DEF IInv, Keyring
<1>5. made \in Nat
  BY BackendsAssumption DEF IInv, Types, PlainOK
<1>6. PICK i \in DOMAIN file : file[i] = c.key
  BY <1>2, <1>3, <1>4, <1>5 DEF ToSet
<1>7. file # Torn
  BY <1>4, <1>5, <1>6 DEF Torn
<1>8. i \in DOMAIN ring /\ ring[i] = c.key
  BY <1>6, <1>7 DEF IInv, Keyring, Open
<1>9. c.id = i
  BY <1>2, <1>3, <1>6, <1>7 DEF IInv, Keyring, Placed
<1> QED
  BY <1>8, <1>9 DEF Decrypts

\* So it always holds.
LEMMA IInvAlways == Spec => []IInv
  BY IInvInit, IInvStep, PTL DEF Spec

\* What is asked of the module follows from it.
LEMMA IInvMeans == IInv => TypeOK /\ StoredIsReadableUnlessExcused /\ StartsUnlessExcused
  BY IInvTypes, IInvReads DEF IInv

\* The rows, the requests and the keys keep their types, no key of the ring is in it
\* twice, and a server that is up has a key (crypto.rs).
THEOREM TypesHold == Spec => []TypeOK
  BY IInvAlways, IInvMeans, PTL

\* main.rs: only a torn key file, a start that could not read or write the rows or open a
\* place, or a primary left cut, refused, undone, changed by two at once or made by a start
\* that could not read it, keeps the program from starting.
THEOREM Starts == Spec => []StartsUnlessExcused
  BY IInvAlways, IInvMeans, PTL

\* write_chunk_bytes, read_chunk: a chunk recorded on a backend that has a row is found
\* there and decrypted, however many backends, keys and requests there are.
THEOREM Stored == Spec => []StoredIsReadableUnlessExcused
  BY IInvAlways, IInvMeans, PTL

=============================================================================
