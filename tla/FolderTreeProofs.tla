--------------------------- MODULE FolderTreeProofs ---------------------------
(***************************************************************************)
(* Machine-checked proofs about FolderTree, for any number of folders,     *)
(* files, handlers and requests: its types, that no cycle appears and that *)
(* what is live stays listed unless requests overlap, and that only what   *)
(* is in the trash is destroyed.                                           *)
(***************************************************************************)
EXTENDS FolderTree, FiniteSetTheorems, WellFoundedInduction, TLAPS

-----------------------------------------------------------------------------
(***************************************************************************)
(* Helpers: finite sets of ids, and the rows that a SELECT returns.        *)
(***************************************************************************)
\* Ids are naturals; the root is none of them.
LEMMA Ids ==
    /\ Item \subseteq Nat \ {0} /\ Folder \cap File = {} /\ Root \notin Item
    /\ IsFiniteSet(Folder) /\ IsFiniteSet(Item) /\ Cardinality(Folder) = NFolders
<1>1. NFolders \in Nat /\ NFiles \in Nat
  BY FolderTreeAssumption
<1>2. IsFiniteSet(Folder) /\ IsFiniteSet(File) /\ Cardinality(Folder) = NFolders
  BY <1>1, FS_Interval DEF Folder, File
<1>3. IsFiniteSet(Item)
  BY <1>2, FS_Union DEF Item
<1> QED BY <1>1, <1>2, <1>3 DEF Item, Folder, File, Root

\* A set of naturals that is not empty has a smallest member (FiniteSetsExt's Min).
LEMMA MinIn ==
    ASSUME NEW S \in SUBSET Nat, S # {}
    PROVE  Min(S) \in S /\ \A y \in S : Min(S) =< y
<1>1. PICK x \in S : \A y \in S : <<y, x>> \notin OpToRel(<, Nat)
  BY NatLessThanWellFounded, WFMin
<1>2. \A y \in S : y < x => <<y, x>> \in OpToRel(<, Nat)
  BY DEF OpToRel
<1>3. x \in Nat /\ \A y \in S : y \in Nat
  OBVIOUS
<1>4. \A y \in S : ~(y < x)
  BY <1>1, <1>2
<1>5. \A y \in S : x =< y
  BY <1>3, <1>4
<1> QED BY <1>5 DEF Min

\* The ranks of a finite set of ids are 1, 2, ... and each is taken once.
LEMMA Ranks ==
    ASSUME NEW T \in SUBSET Nat, IsFiniteSet(T)
    PROVE  LET Rank(i) == 1 + Cardinality({j \in T : j < i})
               n == Cardinality(T)
           IN  /\ n \in Nat
               /\ \A i \in T : Rank(i) \in 1 .. n
               /\ \A i, j \in T : Rank(i) = Rank(j) => i = j
               /\ \A k \in 1 .. n : \E i \in T : Rank(i) = k
<1> DEFINE Under(i) == {j \in T : j < i}
           Rank(i) == 1 + Cardinality(Under(i))
           n == Cardinality(T)
<1>1. n \in Nat
  BY FS_CardinalityType
<1>2. ASSUME NEW i \in T
      PROVE  IsFiniteSet(Under(i)) /\ Cardinality(Under(i)) \in Nat /\ Rank(i) \in 1 .. n
  <2>1. Under(i) \in SUBSET T
    OBVIOUS
  <2>2. IsFiniteSet(Under(i)) /\ Cardinality(Under(i)) <= n /\ (n = Cardinality(Under(i)) => T = Under(i))
    BY <2>1, FS_Subset
  <2>3. Cardinality(Under(i)) \in Nat
    BY <2>2, FS_CardinalityType
  <2>4. i \notin Under(i)
    OBVIOUS
  <2>5. Cardinality(Under(i)) # n
    BY <1>2, <2>2, <2>4
  <2> QED BY <1>1, <2>2, <2>3, <2>5
<1>3. ASSUME NEW i \in T, NEW j \in T, i < j PROVE Rank(i) < Rank(j)
  <2>1. Under(i) \in SUBSET Under(j) /\ i \in Under(j) /\ i \notin Under(i)
    <3>1. \A x \in T : x \in Nat
      OBVIOUS
    <3>2. \A x \in T : x < i => x < j
      BY <1>3, <3>1
    <3>3. ~(i < i)
      BY <3>1
    <3>4. \A x \in Under(i) : x \in Under(j)
      BY <3>2
    <3>5. i \in Under(j)
      BY <1>3
    <3>6. i \notin Under(i)
      BY <3>3
    <3> HIDE DEF Under
    <3> QED BY <3>4, <3>5, <3>6
  <2>2. Cardinality(Under(i)) <= Cardinality(Under(j))
        /\ Cardinality(Under(i)) # Cardinality(Under(j))
    <3>1. IsFiniteSet(Under(j))
      BY <1>2
    <3> HIDE DEF Under
    <3> QED BY <2>1, <3>1, FS_Subset
  <2> QED BY <1>2, <2>2
<1>4. \A i, j \in T : Rank(i) = Rank(j) => i = j
  <2> SUFFICES ASSUME NEW i \in T, NEW j \in T, Rank(i) = Rank(j) PROVE i = j
    OBVIOUS
  <2>1. ~(i < j) /\ ~(j < i)
    BY <1>2, <1>3
  <2> QED BY <2>1
<1>5. \A k \in 1 .. n : \E i \in T : Rank(i) = k
  <2> DEFINE rank == [i \in T |-> Rank(i)]
  <2>1. rank \in Injection(T, 1 .. n)
    <3>1. rank \in [T -> 1 .. n]
      BY <1>2
    <3>2. \A i, j \in T : rank[i] = rank[j] => i = j
      BY <1>4
    <3> QED BY <3>1, <3>2 DEF Injection, IsInjective
  <2>2. IsFiniteSet(1 .. n) /\ Cardinality(1 .. n) = n
    BY <1>1, FS_Interval
  <2>3. rank \in Surjection(T, 1 .. n)
    <3> HIDE DEF rank, n
    <3> QED BY <2>1, <2>2, FS_Injection DEF n
  <2> QED BY <2>3 DEF Surjection
<1> QED BY <1>1, <1>2, <1>4, <1>5

\* What the SELECT returns: every row of S with that status, and no other.
LEMMA RowsAre ==
    ASSUME NEW S \in SUBSET Item, NEW s
    PROVE  Rows(S, s) \in Seq(S) /\ ToSet(Rows(S, s)) = {i \in S : stat[i] = s}
<1> DEFINE T == {i \in S : stat[i] = s}
           Rank(i) == 1 + Cardinality({j \in T : j < i})
           n == Cardinality(T)
           At(k) == CHOOSE i \in T : Rank(i) = k
<1>1. T \in SUBSET Nat /\ IsFiniteSet(T)
  BY Ids, FS_Subset
<1>2. /\ n \in Nat /\ \A i \in T : Rank(i) \in 1 .. n
      /\ \A i, j \in T : Rank(i) = Rank(j) => i = j
      /\ \A k \in 1 .. n : \E i \in T : Rank(i) = k
  BY <1>1, Ranks
<1> HIDE DEF n, Rank, T
<1>3. \A k \in 1 .. n : At(k) \in T /\ Rank(At(k)) = k
  BY <1>2
<1>4. \A i \in T : At(Rank(i)) = i
  BY <1>2, <1>3
<1>5. Rows(S, s) = [k \in 1 .. n |-> At(k)]
  BY DEF Rows, n, Rank, T
<1> HIDE DEF At
<1>6. Rows(S, s) \in [1 .. n -> S]
  BY <1>3, <1>5 DEF T
<1>7. ToSet(Rows(S, s)) = T
  BY <1>2, <1>3, <1>4, <1>5 DEF ToSet
<1> QED BY <1>2, <1>6, <1>7 DEF T

-----------------------------------------------------------------------------
(***************************************************************************)
(* The inductive invariant: the types.                                     *)
(***************************************************************************)
Label == {"idle", "insert", "collect", "mark", "files", "drop", "target", "place", "restore",
          "count", "remove", "rows", "spins"}
Jobs  == [it : Item \cup {0}, to : Folder \cup {Root}, found : Seq(Item), next : Nat, day : Nat,
          then : {"idle", "mark", "target", "files"}]

\* What the locals hold at each step that reads them.
Fit(p, l, j) ==
    /\ l \in {"collect", "mark", "files"} => j.found \in Seq(Folder) /\ j.next \in 1 .. Len(j.found)
    /\ l = "collect" =>
         /\ j.then \in {"mark", "target"}
         /\ j.then = "target" => j.it \in Folder /\ j.to \in Folder
    /\ l \in {"collect", "mark", "files", "drop"} => j.day \in 0 .. MaxDay
    /\ l \in {"drop", "target", "place", "restore", "count", "remove"} => j.it \in Item
    /\ l = "target" => j.to \in Folder
    /\ p = Sweeper => l \in {"idle", "rows", "count", "remove"} /\ j.next # 0
    /\ p # Sweeper => l # "rows"
TypedAt(p) == Fit(p, pc[p], job[p])
Typed == \A p \in Actor : TypedAt(p)

\* What is left of an actor's step once its writes are set apart.
Tasks  == pc \in [Actor -> Label] /\ job \in [Actor -> Jobs] /\ stale \in [Actor -> BOOLEAN] /\ raced \in BOOLEAN
Others(p) == \A q \in Actor \ {p} : pc'[q] = pc[q] /\ job'[q] = job[q]

LEMMA Types ==
    ASSUME TypeOK
    PROVE  /\ Tasks /\ loose \in BOOLEAN
           /\ parent \in [Item -> Folder \cup {Root}]
           /\ stat \in [Item -> {"unborn", "live", "trash", "gone"}]
           /\ since \in [Item -> 0 .. MaxDay] /\ today \in 0 .. MaxDay
  BY DEF TypeOK, Tasks, Label, Jobs

LEMMA NoJobIn == NoJob \in Jobs /\ NoJob.next = 1 /\ NoJob.day = 0
  BY FolderTreeAssumption, Ids DEF NoJob, Jobs, Root

LEMMA StepIs ==
    ASSUME Tasks, NEW p \in Actor, NEW l \in Label, NEW j \in Jobs, Step(p, l, j)
    PROVE  /\ pc' \in [Actor -> Label] /\ job' \in [Actor -> Jobs] /\ Others(p)
           /\ pc'[p] = l /\ job'[p] = (IF l = "idle" THEN NoJob ELSE j)
  BY NoJobIn DEF Step, Tasks, Others

LEMMA ReadIs ==
    ASSUME Tasks, NEW p \in Actor, NEW l \in Label, NEW j \in Jobs, Read(p, l, j)
    PROVE  /\ Tasks' /\ Others(p) /\ pc'[p] = l /\ job'[p] = (IF l = "idle" THEN NoJob ELSE j)
           /\ \A q \in Actor : stale'[q] => stale[q]
           /\ \A q \in Actor \ {p} : stale'[q] = stale[q]
           /\ l # "idle" => stale'[p] = stale[p]
           /\ raced' = raced
<1>1. stale' \in [Actor -> BOOLEAN] /\ raced' = raced
  BY DEF Read, Tasks
<1>2. \A q \in Actor \ {p} : stale'[q] = stale[q]
  BY DEF Read, Tasks
<1>3. stale'[p] => stale[p]
  BY DEF Read, Tasks
<1>4. l # "idle" => stale'[p] = stale[p]
  BY DEF Read, Tasks
<1> QED BY <1>1, <1>2, <1>3, <1>4, StepIs DEF Read, Tasks

LEMMA WroteIs ==
    ASSUME Tasks, NEW p \in Actor, NEW l \in Label, NEW j \in Jobs, Wrote(p, l, j)
    PROVE  /\ Tasks' /\ Others(p) /\ pc'[p] = l /\ job'[p] = (IF l = "idle" THEN NoJob ELSE j)
           /\ \A q \in Actor \ {p} : stale'[q] \/ pc'[q] = "idle"
           /\ stale'[p] => stale[p]
           /\ l # "idle" => stale'[p] = stale[p]
           /\ raced => raced'
           /\ stale[p] => raced'
           /\ (\E q \in Proc \ {p} : HalfDone(q)) => raced'
<1>1. stale' \in [Actor -> BOOLEAN] /\ raced' \in BOOLEAN
  BY DEF Wrote, Tasks
<1>2. \A q \in Actor \ {p} : stale'[q] \/ pc[q] = "idle"
  BY DEF Wrote, Tasks
<1>3. stale'[p] => stale[p]
  BY DEF Wrote, Tasks
<1>4. l # "idle" => stale'[p] = stale[p]
  BY DEF Wrote, Tasks
<1>5. (raced => raced') /\ (stale[p] => raced') /\ ((\E q \in Proc \ {p} : HalfDone(q)) => raced')
  BY DEF Wrote, Tasks
<1> QED BY <1>1, <1>2, <1>3, <1>4, <1>5, StepIs DEF Wrote, Tasks, Others

\* An actor that goes on has the locals its next step reads.
LEMMA GoTyped ==
    ASSUME Typed, NEW p \in Actor, Others(p), NEW l, NEW j, pc'[p] = l,
           job'[p] = (IF l = "idle" THEN NoJob ELSE j), l # "idle" => Fit(p, l, j)
    PROVE  Typed'
<1>1. ASSUME NEW q \in Actor \ {p} PROVE TypedAt(q)'
  BY DEF Typed, TypedAt, Others
<1>2. TypedAt(p)'
  BY NoJobIn DEF TypedAt, Fit
<1> QED BY <1>1, <1>2 DEF Typed

LEMMA RowAdded ==
    ASSUME TypeOK, NEW S \in SUBSET Item, NEW to \in Folder \cup {Root}, NewRow(S, to)
    PROVE  /\ \E i \in S : /\ stat[i] = "unborn"
                           /\ stat' = [stat EXCEPT ![i] = "live"] /\ parent' = [parent EXCEPT ![i] = to]
           /\ to \in KeptFolders /\ UNCHANGED since
           /\ loose' \in BOOLEAN /\ (loose => loose') /\ (to \notin LiveFolders => loose')
<1>1. Unborn(S) \in SUBSET Nat /\ Unborn(S) # {}
  BY Ids DEF Unborn, NewRow, Fits
<1>2. Min(Unborn(S)) \in Unborn(S)
  BY <1>1, MinIn
<1>3. \E i \in S : /\ stat[i] = "unborn"
                   /\ stat' = [stat EXCEPT ![i] = "live"] /\ parent' = [parent EXCEPT ![i] = to]
  BY <1>2 DEF NewRow, Unborn
<1> QED BY <1>3, Types DEF NewRow, Fits

LEMMA TypeAgain ==
    ASSUME TypeOK, Tasks', loose' \in BOOLEAN,
           parent' \in [Item -> Folder \cup {Root}],
           stat' \in [Item -> {"unborn", "live", "trash", "gone"}],
           since' \in [Item -> 0 .. MaxDay],
           mine' \in Keeps \cup {Unset}, global' \in Seq(Keeps), today' \in 0 .. MaxDay,
           ops' \in 0 .. MaxOps, faults' \in 0 .. MaxFaults,
           asked' \in Nat, misread' \subseteq {"default", "own"}
    PROVE  TypeOK'
  BY DEF TypeOK, Tasks, Label, Jobs

LEMMA BeginTyped ==
    ASSUME TypeOK, Typed, NEW p \in Proc, NEW l \in Label, NEW j \in Jobs, Fit(p, l, j), Begin(p, l, j)
    PROVE  TypeOK' /\ Typed'
<1>1. p \in Actor /\ Tasks
  BY Types DEF Actor
<1>2. Tasks' /\ Others(p) /\ pc'[p] = l /\ job'[p] = (IF l = "idle" THEN NoJob ELSE j)
  BY <1>1, ReadIs DEF Begin
<1>3. Typed'
  BY <1>1, <1>2, GoTyped
<1>4. ops' \in 0 .. MaxOps
  BY FolderTreeAssumption DEF Begin, TypeOK
<1>5. TypeOK'
  BY <1>2, <1>4, TypeAgain DEF Begin, treeVars, policyVars, sweepVars, TypeOK
<1> QED BY <1>3, <1>5

LEMMA BeginsTyped ==
    ASSUME TypeOK, Typed, NEW p \in Proc,
           \/ \E to \in Folder \cup {Root} :
                \/ BeginCreate(p, to)
                \/ \E f \in Folder : BeginMove(p, f, to)
                \/ \E i \in Item : (i \in File /\ BeginMoveFile(p, i, to)) \/ (to = parent[i] /\ BeginRename(p, i))
           \/ \E f \in Folder : BeginDelete(p, f)
           \/ \E i \in Item : BeginDrop(p, i) \/ BeginRestore(p, i) \/ BeginPurge(p, i)
    PROVE  TypeOK' /\ Typed'
<1> p # Sweeper /\ Item = Folder \cup File /\ today \in 0 .. MaxDay /\ 0 .. MaxDay \subseteq Nat
  BY FolderTreeAssumption, Types DEF Item
<1> USE NoJobIn
<1>1. ASSUME NEW to \in Folder \cup {Root}, BeginCreate(p, to) PROVE TypeOK' /\ Typed'
  <2> DEFINE j == [NoJob EXCEPT !.to = to]
  <2>1. j \in Jobs /\ Fit(p, "insert", j)
    BY DEF Jobs, Fit
  <2> QED BY <1>1, <2>1, BeginTyped DEF BeginCreate, Label
<1>2. ASSUME NEW to \in Folder \cup {Root}, NEW f \in Folder, BeginMove(p, f, to) PROVE TypeOK' /\ Typed'
  <2> DEFINE l == IF to = Root THEN "place" ELSE "collect"
             j == [NoJob EXCEPT !.it = f, !.to = to, !.then = "target",
                                !.found = IF to = Root THEN <<>> ELSE <<f>>]
  <2>1. j \in Jobs /\ j.it = f /\ j.to = to /\ j.then = "target" /\ j.next = 1 /\ j.day = 0
        /\ (to # Root => j.found = <<f>>)
    <3>1. f \in Item /\ <<f>> \in Seq(Item) /\ <<>> \in Seq(Item)
      OBVIOUS
    <3> DEFINE seq == IF to = Root THEN <<>> ELSE <<f>>
    <3>2. seq \in Seq(Item) /\ (to # Root => seq = <<f>>)
      BY <3>1
    <3> HIDE DEF seq
    <3> QED BY <3>1, <3>2 DEF Jobs
  <2>2. Fit(p, l, j)
    BY <2>1, FolderTreeAssumption DEF Fit
  <2> HIDE DEF j
  <2> QED BY <1>2, <2>1, <2>2, BeginTyped DEF BeginMove, Label, j
<1>3. ASSUME NEW to \in Folder \cup {Root}, NEW i \in File, BeginMoveFile(p, i, to) PROVE TypeOK' /\ Typed'
  <2> DEFINE l == IF to = Root THEN "place" ELSE "target"
             j == [NoJob EXCEPT !.it = i, !.to = to]
  <2>1. j \in Jobs /\ Fit(p, l, j)
    BY DEF Jobs, Fit
  <2> QED BY <1>3, <2>1, BeginTyped DEF BeginMoveFile, Label
<1>4. ASSUME NEW i \in Item, BeginRename(p, i) PROVE TypeOK' /\ Typed'
  <2> DEFINE j == [NoJob EXCEPT !.it = i, !.to = parent[i]]
  <2>1. j \in Jobs /\ Fit(p, "place", j)
    BY Types DEF Jobs, Fit
  <2> QED BY <1>4, <2>1, BeginTyped DEF BeginRename, Label
<1>5. ASSUME NEW f \in Folder, BeginDelete(p, f) PROVE TypeOK' /\ Typed'
  <2> DEFINE j == [NoJob EXCEPT !.found = <<f>>, !.day = today, !.then = "mark"]
  <2>1. j \in Jobs /\ j.then = "mark" /\ j.next = 1 /\ j.day = today /\ j.found = <<f>>
    <3>1. f \in Item /\ <<f>> \in Seq(Item)
      OBVIOUS
    <3> DEFINE seq == <<f>>
    <3>2. seq \in Seq(Item) /\ seq = <<f>>
      BY <3>1
    <3> HIDE DEF seq
    <3> QED BY <3>1, <3>2 DEF Jobs
  <2>2. Fit(p, "collect", j)
    BY <2>1 DEF Fit
  <2> HIDE DEF j
  <2> QED BY <1>5, <2>1, <2>2, BeginTyped DEF BeginDelete, Label, j
<1>6. ASSUME NEW i \in Item, BeginDrop(p, i) PROVE TypeOK' /\ Typed'
  <2> DEFINE j == [NoJob EXCEPT !.it = i, !.day = today]
  <2>1. j \in Jobs /\ Fit(p, "drop", j)
    BY DEF Jobs, Fit, NoJob
  <2> QED BY <1>6, <2>1, BeginTyped DEF BeginDrop, Label
<1>7. ASSUME NEW i \in Item, BeginRestore(p, i) \/ BeginPurge(p, i) PROVE TypeOK' /\ Typed'
  <2> DEFINE j == [NoJob EXCEPT !.it = i]
  <2>1. j \in Jobs /\ \A l \in {"restore", "count", "remove"} : Fit(p, l, j)
    BY DEF Jobs, Fit
  <2>2. \E l \in {"restore", "count", "remove"} : Begin(p, l, j)
    BY <1>7 DEF BeginRestore, BeginPurge
  <2> QED BY <2>1, <2>2, BeginTyped DEF Label
<1> QED BY <1>1, <1>2, <1>3, <1>4, <1>5, <1>6, <1>7

LEMMA SeqOfMore ==
    ASSUME NEW S, NEW T, S \subseteq T, NEW s \in Seq(S)
    PROVE  s \in Seq(T)
  OBVIOUS

LEMMA ToSetConcat ==
    ASSUME NEW S, NEW s \in Seq(S), NEW t \in Seq(S)
    PROVE  ToSet(s \o t) = ToSet(s) \cup ToSet(t)
<1>1. /\ Len(s) \in Nat /\ Len(t) \in Nat
      /\ DOMAIN (s \o t) = 1 .. Len(s) + Len(t) /\ DOMAIN s = 1 .. Len(s) /\ DOMAIN t = 1 .. Len(t)
      /\ \A k \in 1 .. Len(s) + Len(t) : (s \o t)[k] = IF k <= Len(s) THEN s[k] ELSE t[k - Len(s)]
  OBVIOUS
<1>2. ASSUME NEW x \in ToSet(s \o t) PROVE x \in ToSet(s) \cup ToSet(t)
  <2>1. PICK k \in 1 .. Len(s) + Len(t) : x = (s \o t)[k]
    BY <1>1 DEF ToSet
  <2>2. CASE k <= Len(s)
    BY <1>1, <2>1, <2>2 DEF ToSet
  <2>3. CASE k > Len(s)
    <3>1. k - Len(s) \in DOMAIN t /\ x = t[k - Len(s)]
      BY <1>1, <2>1, <2>3
    <3> QED BY <3>1 DEF ToSet
  <2> QED BY <1>1, <2>2, <2>3
<1>3. ASSUME NEW x \in ToSet(s) PROVE x \in ToSet(s \o t)
  <2>1. PICK k \in 1 .. Len(s) : x = s[k]
    BY <1>1, <1>3 DEF ToSet
  <2>2. k \in DOMAIN (s \o t) /\ x = (s \o t)[k]
    BY <1>1, <2>1
  <2> QED BY <2>2 DEF ToSet
<1>4. ASSUME NEW x \in ToSet(t) PROVE x \in ToSet(s \o t)
  <2>1. PICK k \in 1 .. Len(t) : x = t[k]
    BY <1>1, <1>4 DEF ToSet
  <2>2. k + Len(s) \in DOMAIN (s \o t) /\ x = (s \o t)[k + Len(s)]
    BY <1>1, <2>1
  <2> QED BY <2>2 DEF ToSet
<1> QED BY <1>2, <1>3, <1>4

\* A SELECT of the walk: the live folders in one that was found.
Children(j) == Rows(Listing(j.found[j.next]) \cap Folder, "live")
LEMMA WalkIs ==
    ASSUME TypeOK, Typed, NEW p \in Actor, pc[p] = "collect"
    PROVE  LET j == job[p] IN
           /\ j.found \in Seq(Folder) /\ j.next \in 1 .. Len(j.found)
           /\ Children(j) \in Seq(Folder)
           /\ ToSet(Children(j)) = {x \in Folder : parent[x] = j.found[j.next] /\ stat[x] = "live"}
           /\ j.found \o Children(j) \in Seq(Folder) /\ Len(j.found \o Children(j)) >= Len(j.found)
           /\ ToSet(j.found \o Children(j)) = ToSet(j.found) \cup ToSet(Children(j))
<1> DEFINE j == job[p]  S == Listing(j.found[j.next]) \cap Folder
<1>1. j.found \in Seq(Folder) /\ j.next \in 1 .. Len(j.found)
  BY DEF Typed, TypedAt, Fit
<1>2. S \in SUBSET Item /\ S \subseteq Folder
  BY DEF Item
<1>3. Children(j) \in Seq(S) /\ ToSet(Children(j)) = {i \in S : stat[i] = "live"}
  <2> HIDE DEF S
  <2> QED BY <1>2, RowsAre DEF Children, S
<1>4. Children(j) \in Seq(Folder)
  <2> HIDE DEF S
  <2> QED BY <1>2, <1>3
<1>5. ToSet(Children(j)) = {x \in Folder : parent[x] = j.found[j.next] /\ stat[x] = "live"}
  BY <1>3 DEF Listing, Item
<1>6. j.found \o Children(j) \in Seq(Folder) /\ Len(j.found \o Children(j)) = Len(j.found) + Len(Children(j))
  BY <1>1, <1>4
<1>7. ToSet(j.found \o Children(j)) = ToSet(j.found) \cup ToSet(Children(j))
  BY <1>1, <1>4, ToSetConcat
<1>8. Len(j.found) \in Nat /\ Len(Children(j)) \in Nat
  BY <1>1, <1>4
<1> HIDE DEF j
<1>9. Len(j.found \o Children(j)) >= Len(j.found)
  BY <1>6, <1>8
<1> QED BY <1>1, <1>4, <1>5, <1>6, <1>7, <1>9 DEF j

\* A step of a request under way, from its parts.
LEMMA GoneOn ==
    ASSUME TypeOK, Typed, NEW p \in Actor, NEW l \in Label, NEW j \in Jobs, Read(p, l, j) \/ Wrote(p, l, j),
           l # "idle" => Fit(p, l, j), loose' \in BOOLEAN,
           parent' \in [Item -> Folder \cup {Root}],
           stat' \in [Item -> {"unborn", "live", "trash", "gone"}],
           since' \in [Item -> 0 .. MaxDay], Quiet
    PROVE  TypeOK' /\ Typed'
<1>1. Tasks' /\ Others(p) /\ pc'[p] = l /\ job'[p] = (IF l = "idle" THEN NoJob ELSE j)
  BY Types, ReadIs, WroteIs
<1>2. Typed'
  BY <1>1, GoTyped
<1>3. TypeOK'
  BY <1>1, TypeAgain DEF Quiet, policyVars, bounds, sweepVars, TypeOK
<1> QED BY <1>2, <1>3

LEMMA TrashedTypes ==
    ASSUME TypeOK, NEW S, NEW day \in 0 .. MaxDay, Trashed(S, day)
    PROVE  /\ parent' \in [Item -> Folder \cup {Root}]
           /\ stat' \in [Item -> {"unborn", "live", "trash", "gone"}]
           /\ since' \in [Item -> 0 .. MaxDay]
  BY Types DEF Trashed

LEMMA CollectTyped ==
    ASSUME TypeOK, Typed, NEW p \in Actor, Collect(p)
    PROVE  TypeOK' /\ Typed'
<1> DEFINE j == job[p]
           found == j.found \o Children(j)
           long == Len(found) > MaxWalk
           ends == j.next = Len(found)
           l == IF long THEN "spins" ELSE IF ~ends THEN "collect" ELSE AfterWalk(j, found)
           seq == IF long THEN <<>> ELSE IF ends /\ j.then = "target" THEN <<>> ELSE found
           turn == IF ends \/ long THEN 1 ELSE j.next + 1
           k == [j EXCEPT !.found = seq, !.next = turn]
<1>1. pc[p] = "collect" /\ Read(p, l, k) /\ UNCHANGED <<treeVars, loose>> /\ Quiet
  BY DEF Collect, Children
<1>2. /\ Fit(p, "collect", j) /\ j \in Jobs
      /\ found \in Seq(Folder) /\ j.next \in 1 .. Len(found) /\ Len(found) \in Nat
  <2>1. Fit(p, "collect", j) /\ j \in Jobs
    BY <1>1, Types DEF Typed, TypedAt, Tasks
  <2>2. found \in Seq(Folder) /\ Len(found) >= Len(j.found) /\ j.next \in 1 .. Len(j.found) /\ j.found \in Seq(Folder)
    BY <1>1, WalkIs
  <2> HIDE DEF j, found
  <2>3. Len(found) \in Nat /\ Len(j.found) \in Nat
    BY <2>2
  <2> QED BY <2>1, <2>2, <2>3
<1>3. l \in Label /\ (l = "collect" => ~long /\ ~ends)
      /\ (l = "mark" => ~long /\ ends /\ j.then = "mark") /\ l \in {"spins", "collect", "mark", "target", "idle"}
      /\ (l = "target" => j.then = "target")
  BY <1>2 DEF Fit, AfterWalk, Label
<1>4. seq \in Seq(Item) /\ turn \in Nat
  <2>1. <<>> \in Seq(Item) /\ (found \in Seq(Folder) => found \in Seq(Item))
    <3> HIDE DEF found
    <3> QED BY DEF Item
  <2>2. j.next \in Nat
    BY <1>2 DEF Jobs
  <2> HIDE DEF found, j
  <2> QED BY <1>2, <2>1, <2>2
<1>5. /\ k.then = j.then /\ k.it = j.it /\ k.to = j.to /\ k.day = j.day
      /\ (~long /\ ~ends => k.found = found /\ k.next = j.next + 1)
      /\ (~long /\ ends /\ j.then = "mark" => k.found = found /\ k.next = 1)
      /\ k.next # 0 /\ k \in Jobs
  <2>1. k \in Jobs /\ k.found = seq /\ k.next = turn
        /\ k.then = j.then /\ k.it = j.it /\ k.to = j.to /\ k.day = j.day
    <3> HIDE DEF seq, turn, j
    <3> QED BY <1>2, <1>4 DEF Jobs
  <2> HIDE DEF k, j, found
  <2>2. j.next \in Nat /\ j.next >= 1
    BY <1>2
  <2>3. turn # 0
    BY <2>2
  <2> QED BY <2>1, <2>3
<1>6. l # "idle" => Fit(p, l, k)
  <2> HIDE DEF k, l, found, j
  <2> QED BY <1>2, <1>3, <1>5 DEF Fit, Item
<1> HIDE DEF k, l, found, j
<1>7. TypeOK' /\ Typed'
  BY <1>1, <1>3, <1>5, <1>6, GoneOn, Types DEF treeVars
<1> QED BY <1>7

LEMMA HandlerTyped ==
    ASSUME TypeOK, Typed, NEW p \in Actor,
           \/ Insert(p) \/ Mark(p) \/ MarkFiles(p) \/ Drop(p)
           \/ Target(p) \/ Place(p) \/ Restore(p) \/ Count(p) \/ DeleteRow(p)
    PROVE  TypeOK' /\ Typed'
<1> Tasks /\ TypedAt(p) /\ job[p] \in Jobs /\ pc[p] \in Label
  BY Types DEF Typed, Tasks
<1> USE NoJobIn, Types DEF treeVars
<1>1. CASE Insert(p)
  <2>1. Read(p, "idle", NoJob) \/ Wrote(p, "idle", NoJob)
    BY <1>1 DEF Insert
  <2>2. /\ loose' \in BOOLEAN /\ parent' \in [Item -> Folder \cup {Root}] /\ UNCHANGED since
        /\ stat' \in [Item -> {"unborn", "live", "trash", "gone"}] /\ Quiet
    <3>1. job[p].to \in Folder \cup {Root} /\ Folder \in SUBSET Item
      BY DEF Jobs, Item
    <3>2. CASE NewRow(Folder, job[p].to)
      BY <1>1, <3>1, <3>2, RowAdded DEF Insert
    <3>3. CASE UNCHANGED <<treeVars, loose>>
      BY <1>1, <3>3 DEF Insert
    <3> QED BY <1>1, <3>2, <3>3 DEF Insert
  <2> QED BY <2>1, <2>2, GoneOn DEF Label
<1>2. CASE Mark(p)
  <2>1. Fit(p, "mark", job[p]) /\ Fit(p, "files", job[p]) /\ job[p].day \in 0 .. MaxDay
    BY <1>2 DEF Mark, TypedAt, Fit
  <2> QED BY <1>2, <2>1, TrashedTypes, GoneOn DEF Mark, Label
<1>3. CASE MarkFiles(p)
  <2> DEFINE j == job[p]
  <2>1. Fit(p, "files", j) /\ j.day \in 0 .. MaxDay
    BY <1>3 DEF MarkFiles, TypedAt, Fit
  <2>2. loose' \in BOOLEAN /\ Quiet /\ Trashed(FilesIn(j.found[j.next]), j.day)
    BY <1>3 DEF MarkFiles
  <2>3. CASE j.next = Len(j.found)
    BY <1>3, <2>1, <2>2, <2>3, TrashedTypes, GoneOn DEF MarkFiles, Label
  <2>4. CASE j.next # Len(j.found)
    <3> DEFINE k == [j EXCEPT !.next = @ + 1]
    <3>1. k \in Jobs /\ k.found = j.found /\ k.next = j.next + 1 /\ k.day = j.day
      <4>1. j \in Jobs
        OBVIOUS
      <4> HIDE DEF j
      <4>2. j.next + 1 \in Nat
        BY <4>1 DEF Jobs
      <4> QED BY <4>1, <4>2 DEF Jobs
    <3>2. Fit(p, "mark", k)
      BY <2>1, <2>4, <3>1 DEF Fit
    <3>3. Wrote(p, "mark", k)
      BY <1>3, <2>4 DEF MarkFiles
    <3> HIDE DEF k, j
    <3> QED BY <2>1, <2>2, <3>1, <3>2, <3>3, TrashedTypes, GoneOn DEF Label
  <2> QED BY <2>3, <2>4
<1>4. CASE Drop(p)
  <2>1. job[p].day \in 0 .. MaxDay
    BY <1>4 DEF Drop, TypedAt, Fit
  <2> QED BY <1>4, <2>1, TrashedTypes, GoneOn DEF Drop, Label
<1>5. CASE Target(p)
  <2>1. Fit(p, "place", job[p])
    BY <1>5 DEF Target, TypedAt, Fit
  <2>2. PICK l \in {"place", "idle"} : Read(p, l, job[p])
    BY <1>5 DEF Target
  <2> QED BY <1>5, <2>1, <2>2, GoneOn DEF Target, Label
<1>6. CASE Place(p)
  <2>1. Read(p, "idle", NoJob) \/ Wrote(p, "idle", NoJob)
    BY <1>6 DEF Place
  <2>2. parent' \in [Item -> Folder \cup {Root}]
    BY <1>6 DEF Place, Jobs
  <2> QED BY <1>6, <2>1, <2>2, GoneOn DEF Place, Label
<1>7. CASE Restore(p)
  <2>1. /\ loose' \in BOOLEAN /\ stat' \in [Item -> {"unborn", "live", "trash", "gone"}]
        /\ since' \in [Item -> 0 .. MaxDay]
    <3>1. loose' \in BOOLEAN
      BY <1>7 DEF Restore
    <3>2. stat' \in [Item -> {"unborn", "live", "trash", "gone"}]
      BY <1>7 DEF Restore
    <3>3. 0 \in 0 .. MaxDay
      BY FolderTreeAssumption
    <3>4. since' \in [Item -> 0 .. MaxDay]
      BY <1>7, <3>3 DEF Restore
    <3> QED BY <3>1, <3>2, <3>4
  <2> QED BY <1>7, <2>1, GoneOn DEF Restore, Label
<1>8. CASE Count(p)
  <2>1. pc[p] = "count" /\ NextRow(p) \in {"rows", "idle"} /\ (NextRow(p) = "rows" => p = Sweeper)
    BY <1>8 DEF Count, NextRow
  <2>2. PICK l \in {"remove", NextRow(p)} : Read(p, l, job[p])
    BY <1>8 DEF Count
  <2>3. l # "idle" => Fit(p, l, job[p])
    BY <2>1, <2>2 DEF TypedAt, Fit
  <2> QED BY <1>8, <2>1, <2>2, <2>3, GoneOn DEF Count, Label
<1>9. CASE DeleteRow(p)
  <2>1. pc[p] = "remove" /\ NextRow(p) \in {"rows", "idle"} /\ (NextRow(p) = "rows" => p = Sweeper)
    BY <1>9 DEF DeleteRow, NextRow
  <2>2. \/ Read(p, "idle", NoJob)
        \/ \E l \in {NextRow(p)} : Read(p, l, job[p]) \/ Wrote(p, l, job[p])
    BY <1>9 DEF DeleteRow
  <2>3. NextRow(p) # "idle" => Fit(p, NextRow(p), job[p])
    BY <2>1 DEF TypedAt, Fit
  <2>4. /\ stat' \in [Item -> {"unborn", "live", "trash", "gone"}] /\ since' \in [Item -> 0 .. MaxDay]
        /\ UNCHANGED <<parent, loose>> /\ Quiet
    BY <1>9, FolderTreeAssumption DEF DeleteRow
  <2> QED BY <2>1, <2>2, <2>3, <2>4, GoneOn DEF Label
<1> QED BY <1>1, <1>2, <1>3, <1>4, <1>5, <1>6, <1>7, <1>8, <1>9

\* Requests of one statement: an upload, and a change of policy.
LEMMA OnceTyped ==
    ASSUME TypeOK, Typed, NEW p \in Proc,
           \/ \E to \in Folder \cup {Root} : UploadInto(p, to)
           \/ \E d \in Keeps : PutMine(p, d) \/ PutGlobal(p, d)
    PROVE  TypeOK' /\ Typed'
<1>1. p \in Actor /\ Tasks /\ "idle" \in Label /\ NoJob \in Jobs
  BY Types, NoJobIn DEF Actor, Label
<1>2. Wrote(p, "idle", NoJob) /\ ops < MaxOps /\ ops' = ops + 1 /\ UNCHANGED <<today, faults>>
  BY DEF UploadInto, PutMine, PutGlobal
<1>3. Tasks' /\ Others(p) /\ pc'[p] = "idle" /\ job'[p] = NoJob
  BY <1>1, <1>2, WroteIs
<1>4. Typed'
  BY <1>1, <1>3, GoTyped
<1>5. ops' \in 0 .. MaxOps /\ faults' \in 0 .. MaxFaults /\ today' \in 0 .. MaxDay
      /\ asked' \in Nat /\ misread' \subseteq {"default", "own"}
  <2>1. UNCHANGED sweepVars
    BY DEF UploadInto, PutMine, PutGlobal
  <2> QED BY <1>2, <2>1, FolderTreeAssumption DEF TypeOK, sweepVars
<1>6. /\ loose' \in BOOLEAN /\ parent' \in [Item -> Folder \cup {Root}]
      /\ stat' \in [Item -> {"unborn", "live", "trash", "gone"}] /\ since' \in [Item -> 0 .. MaxDay]
  <2>1. ASSUME NEW to \in Folder \cup {Root}, UploadInto(p, to) PROVE <1>6!1 /\ <1>6!2
    <3>1. File \in SUBSET Item /\ NewRow(File, to)
      BY <2>1 DEF UploadInto, Item
    <3> QED BY <3>1, RowAdded, Types
  <2>2. ASSUME NEW d \in Keeps, PutMine(p, d) \/ PutGlobal(p, d) PROVE <1>6!1 /\ <1>6!2
    BY <2>2, Types DEF PutMine, PutGlobal, treeVars
  <2> QED BY <2>1, <2>2
<1>7. mine' \in Keeps \cup {Unset} /\ global' \in Seq(Keeps)
  <2>1. mine \in Keeps \cup {Unset} /\ global \in Seq(Keeps)
    BY DEF TypeOK
  <2>2. ASSUME NEW to, UploadInto(p, to) PROVE <1>7
    BY <2>1, <2>2 DEF UploadInto, policyVars
  <2>3. ASSUME NEW d \in Keeps, PutMine(p, d) PROVE <1>7
    BY <2>1, <2>3 DEF PutMine
  <2>4. ASSUME NEW d \in Keeps, PutGlobal(p, d) PROVE <1>7
    BY <2>1, <2>4 DEF PutGlobal
  <2> QED BY <2>2, <2>3, <2>4
<1> QED BY <1>3, <1>4, <1>5, <1>6, <1>7, TypeAgain

\* The retention task.
LEMMA DefaultIsNat ==
    ASSUME TypeOK
    PROVE  GlobalDefault \in Nat
<1>1. global \in Seq(Keeps)
  BY DEF TypeOK
<1>2. global # <<>> => Head(global) \in Keeps
  BY <1>1
<1> QED BY <1>2, FolderTreeAssumption DEF GlobalDefault

\* What a failed SELECT of a policy leaves alone.
LEMMA UnheardTypes ==
    ASSUME TypeOK, NEW lost \in BOOLEAN, NEW there, Unheard(lost, there)
    PROVE  faults' \in 0 .. MaxFaults /\ UNCHANGED <<policyVars, today, ops>>
<1>1. faults \in 0 .. MaxFaults /\ MaxFaults \in Nat
  BY FolderTreeAssumption DEF TypeOK
<1> QED BY <1>1 DEF Unheard

LEMMA SweepTyped ==
    ASSUME TypeOK, Typed, SweepStart \/ SweepFiles \/ SweepEnd \/ SweepRow
    PROVE  TypeOK' /\ Typed'
<1> DEFINE p == Sweeper  j == job[Sweeper]
<1> /\ p \in Actor /\ Tasks /\ TypedAt(p) /\ j \in Jobs /\ NoJob \in Jobs /\ p \notin Proc
    /\ {"idle", "rows", "count", "remove"} \subseteq Label
  BY Types, NoJobIn, FolderTreeAssumption DEF Typed, Tasks, Actor, Label
<1>1. UNCHANGED <<treeVars, loose>>
  BY DEF SweepStart, SweepFiles, SweepEnd, SweepRow
<1>2. CASE SweepStart
  <2>0. PICK lost \in BOOLEAN :
           /\ Unheard(lost, global # <<>>)
           /\ Read(p, "rows", [NoJob EXCEPT !.day = IF lost THEN DefaultKeep ELSE GlobalDefault,
                                            !.found = Rows(Folder, "trash"), !.then = "files"])
           /\ misread' = IF lost THEN {"default"} ELSE {}
    BY <1>2 DEF SweepStart
  <2> DEFINE rows == Rows(Folder, "trash")
             keep == IF lost THEN DefaultKeep ELSE GlobalDefault
             k == [NoJob EXCEPT !.day = keep, !.found = rows, !.then = "files"]
  <2>1. rows \in Seq(Item)
    <3>1. Folder \in SUBSET Item
      BY DEF Item
    <3> QED BY <3>1, RowsAre, SeqOfMore
  <2>2. k \in Jobs /\ k.next = 1
    <3>1. keep \in Nat
      BY DefaultIsNat, FolderTreeAssumption
    <3> HIDE DEF rows, keep
    <3> QED BY <2>1, <3>1, NoJobIn DEF Jobs
  <2>3. Read(p, "rows", k) /\ Fit(p, "rows", k)
    BY <2>0, <2>2 DEF Fit
  <2>4. asked' \in Nat /\ misread' \subseteq {"default", "own"}
    BY <1>2, <2>0, DefaultIsNat DEF SweepStart
  <2>5. faults' \in 0 .. MaxFaults /\ UNCHANGED <<policyVars, today, ops>>
    BY <2>0, UnheardTypes
  <2> HIDE DEF k
  <2>6. Tasks' /\ Others(p) /\ pc'[p] = "rows" /\ job'[p] = k
    BY <2>2, <2>3, ReadIs
  <2>7. Typed'
    BY <2>3, <2>6, GoTyped
  <2> QED BY <1>1, <2>4, <2>5, <2>6, <2>7, TypeAgain DEF treeVars, policyVars, TypeOK
<1>3. CASE SweepFiles
  <2> DEFINE rows == Rows(File, "trash")
             k == [j EXCEPT !.found = rows, !.next = 1, !.then = "idle"]
  <2>1. rows \in Seq(Item)
    <3>1. File \in SUBSET Item
      BY DEF Item
    <3> QED BY <3>1, RowsAre, SeqOfMore
  <2>2. k \in Jobs /\ k.next = 1
    <3> HIDE DEF rows, j
    <3> QED BY <2>1 DEF Jobs
  <2>3. Read(p, "rows", k) /\ Fit(p, "rows", k)
    BY <1>3, <2>2 DEF SweepFiles, Fit
  <2> HIDE DEF k
  <2> QED BY <1>1, <1>3, <2>2, <2>3, GoneOn, Types DEF SweepFiles, treeVars
<1>4. CASE SweepEnd
  BY <1>1, <1>4, GoneOn, Types DEF SweepEnd, treeVars
<1>5. CASE SweepRow
  <2>0. PICK lost \in BOOLEAN :
           /\ Unheard(lost, mine # Unset)
           /\ Step(p, IF ~Past(j.found[j.next], IF lost THEN j.day ELSE Effective(j.day)) THEN "rows"
                      ELSE IF j.found[j.next] \in Folder THEN "count" ELSE "remove",
                   [j EXCEPT !.it = j.found[j.next], !.next = @ + 1])
           /\ misread' = IF lost THEN misread \cup {"own"} ELSE misread \ {"own"}
    BY <1>5 DEF SweepRow
  <2> DEFINE i == j.found[j.next]
             k == [j EXCEPT !.it = i, !.next = @ + 1]
             l == IF ~Past(i, IF lost THEN j.day ELSE Effective(j.day)) THEN "rows"
                  ELSE IF i \in Folder THEN "count" ELSE "remove"
  <2>1. j.next \in Nat /\ j.next # 0 /\ j.next <= Len(j.found) /\ j.found \in Seq(Item)
    BY <1>5 DEF SweepRow, TypedAt, Fit, Jobs
  <2>2. i \in Item
    <3> HIDE DEF j
    <3> QED BY <2>1
  <2>3. k \in Jobs /\ k.it = i /\ k.next = j.next + 1
    <3> HIDE DEF j, i
    <3>1. i \in Item \cup {0} /\ j.next + 1 \in Nat
      BY <2>1, <2>2
    <3> QED BY <3>1 DEF Jobs
  <2>4. l \in {"rows", "count", "remove"}
    OBVIOUS
  <2>5. Fit(p, l, k)
    <3> HIDE DEF j, k, l
    <3> QED BY <2>1, <2>2, <2>3, <2>4 DEF Fit
  <2>6. Step(p, l, k) /\ stale' = [stale EXCEPT ![p] = FALSE] /\ raced' = raced
    BY <1>5, <2>0 DEF SweepRow
  <2> HIDE DEF k, l
  <2>7. Tasks' /\ Others(p) /\ pc'[p] = l /\ job'[p] = k
    BY <2>3, <2>4, <2>6, StepIs DEF Tasks
  <2>8. Typed'
    BY <2>4, <2>5, <2>7, GoTyped
  <2>9. faults' \in 0 .. MaxFaults /\ UNCHANGED <<policyVars, today, ops>>
    BY <2>0, UnheardTypes
  <2>10. asked' \in Nat /\ misread' \subseteq {"default", "own"}
    BY <1>5, <2>0 DEF SweepRow, TypeOK
  <2> QED BY <1>1, <2>7, <2>8, <2>9, <2>10, TypeAgain, Types DEF treeVars, policyVars, TypeOK
<1> QED BY <1>2, <1>3, <1>4, <1>5

LEMMA StopTyped ==
    ASSUME TypeOK, Typed, NEW P, Stop(P)
    PROVE  TypeOK' /\ Typed'
<1>1. Tasks'
  BY Types, NoJobIn DEF Stop, Tasks, Label
<1>2. loose' \in BOOLEAN /\ faults' \in 0 .. MaxFaults
  <2>1. loose' \in BOOLEAN
    BY DEF Stop
  <2> QED BY <2>1, FolderTreeAssumption DEF Stop, TypeOK
<1>3. ASSUME NEW q \in Actor PROVE TypedAt(q)'
  <2>1. \/ pc'[q] = pc[q] /\ job'[q] = job[q]
        \/ pc'[q] = "idle" /\ job'[q] = NoJob
    BY DEF Stop
  <2> QED BY <2>1, NoJobIn DEF Typed, TypedAt, Fit
<1> QED BY <1>1, <1>2, <1>3, TypeAgain DEF Stop, treeVars, policyVars, sweepVars, TypeOK, Typed

LEMMA TypedStep ==
    ASSUME TypeOK, Typed, [Next]_vars
    PROVE  TypeOK' /\ Typed'
<1> Proc \subseteq Actor /\ Sweeper \in Actor /\ File \subseteq Item /\ Folder \subseteq Item
  BY DEF Actor, Item
<1>1. ASSUME NEW p \in Proc, Rest(p) \/ GraphQl(p) PROVE TypeOK' /\ Typed'
  BY <1>1, BeginsTyped, OnceTyped
     DEF Rest, GraphQl, UpdateFolder, UpdateFile, DeleteFile, GqlCreateFolder, GqlDeleteFolder,
         GqlUpdateFolder, GqlDeleteFile, GqlUpdateFile, GqlTrash, GqlPolicy
<1>2. ASSUME NEW p \in Proc, Handler(p) PROVE TypeOK' /\ Typed'
  BY <1>2, CollectTyped, HandlerTyped DEF Handler
<1>3. CASE Sweep
  BY <1>3, SweepTyped, HandlerTyped DEF Sweep
<1>4. CASE Crash \/ \E p \in Actor : Abort(p)
  BY <1>4, StopTyped DEF Crash, Abort
<1>5. CASE Tick
  <2>1. Tasks' /\ Typed' /\ loose' \in BOOLEAN
    BY <1>5, Types DEF Tick, Typed, TypedAt, Tasks
  <2>2. today' \in 0 .. MaxDay
    BY <1>5, FolderTreeAssumption DEF Tick, TypeOK
  <2> QED BY <1>5, <2>1, <2>2, TypeAgain DEF Tick, treeVars, policyVars, bounds, sweepVars, TypeOK
<1>6. CASE UNCHANGED vars
  <2>1. Tasks' /\ Typed' /\ loose' \in BOOLEAN
    BY <1>6, Types DEF vars, Typed, TypedAt, Tasks
  <2> QED BY <1>6, <2>1, TypeAgain DEF vars, treeVars, policyVars, bounds, sweepVars, TypeOK
<1> QED BY <1>1, <1>2, <1>3, <1>4, <1>5, <1>6 DEF Next

LEMMA TypedStart ==
    ASSUME Init
    PROVE  TypeOK /\ Typed
<1>1. \A nd \in 0 .. NFolders : 0 .. nd \subseteq Folder \cup {Root}
  BY FolderTreeAssumption DEF Folder, Root
<1>2. parent \in [Item -> Folder \cup {Root}]
  BY <1>1 DEF Init
<1>3. stat \in [Item -> {"unborn", "live", "trash", "gone"}]
  BY DEF Init
<1>4. Typed
  BY NoJobIn DEF Init, Typed, TypedAt, Fit
<1>5. since \in [Item -> 0 .. MaxDay] /\ today \in 0 .. MaxDay
      /\ ops \in 0 .. MaxOps /\ faults \in 0 .. MaxFaults
  BY FolderTreeAssumption DEF Init
<1>6. job \in [Actor -> Jobs]
  BY NoJobIn DEF Init
<1>7. global \in Seq(Keeps) /\ mine \in Keeps \cup {Unset}
  BY DEF Init
<1>8. asked \in Nat /\ misread \subseteq {"default", "own"}
  BY FolderTreeAssumption DEF Init
<1> QED BY <1>2, <1>3, <1>4, <1>5, <1>6, <1>7, <1>8 DEF Init, TypeOK, Jobs

-----------------------------------------------------------------------------
(***************************************************************************)
(* The inductive invariant: the tree, and what an actor may rely on.       *)
(***************************************************************************)
BornOK       == \A i \in Item : parent[i] = Root \/ stat[parent[i]] # "unborn"
NoCycle(par) == \A S \in SUBSET Folder : S # {} => \E x \in S : par[x] \notin S
TreeOK       == Excused \/ NoCycle(parent)
AllListed    == \A i \in Item : stat[i] = "live" => parent[i] \in LiveFolders

\* Nobody has written behind the actor, and no deletion is half-way.
Clear(p) == ~Excused /\ ~stale[p] /\ \A q \in Proc \ {p} : ~HalfDone(q)

\* A set of folders with all that is live below them; one that holds i, not to.
Closed(D)    == \A x \in Folder : stat[x] = "live" /\ parent[x] \in D => x \in D
Aside(i, to) == \E D \in SUBSET Folder : i \in D /\ to \notin D /\ Closed(D)

\* The walk has found live folders, and all those below the ones it looked into.
Walking(l, j) == l = "collect" =>
    /\ \A k \in 1 .. Len(j.found) : stat[j.found[k]] = "live"
    /\ \A k \in 1 .. j.next - 1, x \in Folder :
         stat[x] = "live" /\ parent[x] = j.found[k] => x \in ToSet(j.found)
    /\ j.then = "target" => j.found[1] = j.it

\* A deletion has all that is live below its folder still before it.
Emptied(f) == stat[f] # "live" /\ \A i \in FilesIn(f) : stat[i] # "live"
Marking(l, j) == l \in {"mark", "files"} =>
    /\ Closed(ToSet(j.found))
    /\ \A i \in Item : stat[i] = "live" => parent[i] \in LiveFolders \cup ToSet(j.found)
    /\ \A k \in 1 .. j.next - 1 : Emptied(j.found[k])
    /\ l = "files" => stat[j.found[j.next]] # "live"

\* A move has a live target that does not lie below what is moved.
Moving(l, j) == l \in {"target", "place"} =>
    /\ stat[j.it] = "live"
    /\ j.it \in Folder /\ j.to # Root =>
         Aside(j.it, j.to) \/ (l = "place" /\ parent[j.it] = j.to)
    /\ l = "place" => j.to \in LiveFolders

Watch(l, j) == Walking(l, j) /\ Marking(l, j) /\ Moving(l, j)
WatchAt(p)  == Clear(p) => Watch(pc[p], job[p])

\* What is about to be destroyed is in the trash, and past what the sweep read.
Held(j) == IF "own" \in misread THEN j.day ELSE Effective(j.day)
Doomed(p, l, j) == l \in {"count", "remove"} =>
    stat[j.it] = "trash" /\ (p = Sweeper => Past(j.it, Held(j)))
DoomAt(p) == ~stale[p] => Doomed(p, pc[p], job[p])

Safe == /\ BornOK /\ TreeOK /\ LiveIsListed
        /\ \A p \in Proc : WatchAt(p)
        /\ \A p \in Actor : DoomAt(p)
IInv == TypeOK /\ Typed /\ Safe

LEMMA ListedWhenClear ==
    ASSUME IInv, NEW p \in Actor, Clear(p), ~HalfDone(p)
    PROVE  AllListed
  BY DEF IInv, Safe, LiveIsListed, Clear, AllListed

\* A step of p that reads: what the others rely on is still there.
LEMMA ReadKeeps ==
    ASSUME IInv, NEW p \in Actor, NEW l \in Label, NEW j \in Jobs, Read(p, l, j),
           UNCHANGED <<parent, stat, since, mine, today, loose>>, ~HalfDone(p),
           p \in Proc /\ Clear(p) /\ l # "idle" => Watch(l, j),
           ~stale[p] /\ l # "idle" => Doomed(p, l, j),
           UNCHANGED misread \/ (p = Sweeper /\ l \in {"idle", "rows"})
    PROVE  Safe'
<1>1. /\ Tasks' /\ Others(p) /\ pc'[p] = l /\ job'[p] = (IF l = "idle" THEN NoJob ELSE j)
      /\ \A q \in Actor \ {p} : stale'[q] = stale[q]
      /\ l # "idle" => stale'[p] = stale[p]
      /\ raced' = raced /\ loose' = loose
  BY Types, ReadIs DEF IInv
<1>2. BornOK' /\ TreeOK'
  BY <1>1 DEF IInv, Safe, BornOK, TreeOK, Excused, NoCycle
<1> Proc \subseteq Actor
  BY DEF Actor
<1>3. \A q \in Proc : HalfDone(q) => HalfDone(q)'
  BY <1>1 DEF HalfDone, Others
<1>4. LiveIsListed'
  BY <1>1, <1>3 DEF IInv, Safe, LiveIsListed, Excused, LiveFolders
<1>5. ASSUME NEW m, NEW k PROVE Watch(m, k) => Watch(m, k)'
  BY DEF Watch, Walking, Marking, Moving, Closed, Aside, Emptied, FilesIn, LiveFolders
<1>6. ASSUME NEW q \in Proc PROVE WatchAt(q)'
  <2>1. Clear(q)' /\ (q = p => l # "idle") => Clear(q)
    BY <1>1, <1>3 DEF Clear, Excused
  <2>2. CASE q # p
    <3>1. pc'[q] = pc[q] /\ job'[q] = job[q] /\ WatchAt(q)
      BY <1>1, <2>2 DEF Others, IInv, Safe
    <3>2. CASE ~Clear(q)'
      BY <3>2 DEF WatchAt
    <3>3. CASE Clear(q)'
      <4>1. Watch(pc[q], job[q])
        BY <2>1, <2>2, <3>1, <3>3 DEF WatchAt
      <4> DEFINE m == pc[q]  k == job[q]
      <4>2. Watch(m, k)
        BY <4>1
      <4>3. Walking(m, k) /\ Marking(m, k) /\ Moving(m, k) /\ m = pc'[q] /\ k = job'[q]
        BY <3>1, <4>2 DEF Watch
      <4> HIDE DEF m, k
      <4> QED BY <3>1, <4>3 DEF WatchAt, Watch, Walking, Marking, Moving, Closed, Aside, Emptied, FilesIn, LiveFolders
    <3> QED BY <3>2, <3>3
  <2>3. CASE q = p
    <3>1. CASE l = "idle"
      BY <1>1, <2>3, <3>1 DEF WatchAt, Watch, Walking, Marking, Moving
    <3>2. CASE l # "idle"
      <4>1. pc'[q] = l /\ job'[q] = j /\ (Clear(q)' => Watch(l, j)')
        BY <1>1, <1>5, <2>1, <2>3, <3>2
      <4> QED BY <4>1 DEF WatchAt, Watch, Walking, Marking, Moving, Closed, Aside, Emptied, FilesIn, LiveFolders
    <3> QED BY <3>1, <3>2
  <2> QED BY <2>2, <2>3
<1>7. ASSUME NEW q \in Actor PROVE DoomAt(q)'
  <2>1. CASE q # p
    <3>1. DoomAt(q) /\ pc'[q] = pc[q] /\ job'[q] = job[q] /\ stale'[q] = stale[q]
      BY <1>1, <2>1 DEF IInv, Safe, Others
    <3>2. q = Sweeper => UNCHANGED misread
      BY <2>1
    <3> QED BY <3>1, <3>2 DEF DoomAt, Doomed, Held, Past, Effective
  <2>2. CASE q = p /\ l \in {"idle", "rows"}
    BY <1>1, <2>2 DEF DoomAt, Doomed
  <2>3. CASE q = p /\ l \notin {"idle", "rows"}
    BY <1>1, <2>3 DEF DoomAt, Doomed, Held, Past, Effective
  <2> QED BY <2>1, <2>2, <2>3
<1> QED BY <1>2, <1>4, <1>6, <1>7 DEF Safe

\* A step of p that writes: the others, unless idle, are stale from now on.
Alarms(p) ==
    /\ Others(p)
    /\ \A q \in Actor \ {p} : stale'[q] \/ pc'[q] = "idle"
    /\ stale'[p] => stale[p]
    /\ (raced => raced') /\ (stale[p] => raced') /\ (loose => loose')
    /\ (\E q \in Proc \ {p} : HalfDone(q)) => raced'

LEMMA WriterIsClear ==
    ASSUME NEW p \in Actor, Alarms(p), ~Excused'
    PROVE  Clear(p)
  BY DEF Alarms, Excused, Clear

LEMMA WriterKeeps ==
    ASSUME IInv, NEW p \in Actor, Alarms(p), BornOK', TreeOK', LiveIsListed',
           p \in Proc => WatchAt(p)', DoomAt(p)'
    PROVE  Safe'
<1> Proc \subseteq Actor
  BY DEF Actor
<1>1. ASSUME NEW q \in Proc \ {p} PROVE WatchAt(q)'
  BY DEF WatchAt, Watch, Walking, Marking, Moving, Clear, Alarms
<1>2. ASSUME NEW q \in Actor \ {p} PROVE DoomAt(q)'
  BY DEF DoomAt, Doomed, Alarms
<1> QED BY <1>1, <1>2 DEF Safe

\* A folder older than its content is on no cycle.
LEMMA SafeStart ==
    ASSUME Init
    PROVE  IInv
<1>1. TypeOK /\ Typed
  BY TypedStart
<1>2. NoCycle(parent)
  <2> SUFFICES ASSUME NEW S \in SUBSET Folder, S # {} PROVE \E x \in S : parent[x] \notin S
    BY DEF NoCycle
  <2>1. S \in SUBSET Nat /\ Folder \subseteq Item
    BY Ids DEF Item
  <2>2. Min(S) \in S /\ \A y \in S : Min(S) =< y
    BY <2>1, MinIn
  <2>3. parent[Min(S)] < Min(S) /\ Min(S) \in Nat /\ parent[Min(S)] \in Folder \cup {Root}
    BY <1>1, <2>1, <2>2, Types DEF Init
  <2>4. parent[Min(S)] \in Nat
    BY <2>3, Ids DEF Item, Root
  <2> QED BY <2>2, <2>3, <2>4
<1>3. \A i \in Item : parent[i] = Root \/ (parent[i] \in Folder /\ stat[parent[i]] = "live")
  <2>1. PICK nd \in 0 .. NFolders, nf \in 0 .. NFiles :
           LET born == 1 .. nd \cup NFolders + 1 .. NFolders + nf
           IN  /\ stat = [i \in Item |-> IF i \in born THEN "live" ELSE "unborn"]
               /\ parent \in [Item -> 0 .. nd]
    BY DEF Init
  <2> SUFFICES ASSUME NEW i \in Item, parent[i] # Root PROVE parent[i] \in Folder /\ stat[parent[i]] = "live"
    OBVIOUS
  <2>2. parent[i] \in 1 .. nd /\ 1 .. nd \subseteq Folder
    BY <2>1, FolderTreeAssumption DEF Root, Folder
  <2> QED BY <2>1, <2>2 DEF Item
<1>4. BornOK /\ LiveIsListed
  BY <1>3 DEF BornOK, LiveIsListed, LiveFolders
<1>5. \A p \in Actor : pc[p] = "idle"
  BY DEF Init
<1>6. \A p \in Proc : WatchAt(p)
  BY <1>5 DEF Actor, WatchAt, Watch, Walking, Marking, Moving
<1>7. \A p \in Actor : DoomAt(p)
  BY <1>5 DEF DoomAt, Doomed
<1> QED BY <1>1, <1>2, <1>4, <1>6, <1>7 DEF IInv, Safe, TreeOK

\* A request that begins.
LEMMA BeginSafe ==
    ASSUME IInv, NEW p \in Proc, NEW l \in Label, NEW j \in Jobs, Begin(p, l, j),
           Clear(p) => Watch(l, j), Doomed(p, l, j)
    PROVE  Safe'
<1>1. p \in Actor /\ ~HalfDone(p) /\ Read(p, l, j)
      /\ UNCHANGED <<parent, stat, since, mine, today, loose, misread>>
  BY DEF Actor, Begin, HalfDone, treeVars, policyVars, sweepVars
<1> QED BY <1>1, ReadKeeps

LEMMA BeginsSafe ==
    ASSUME IInv, NEW p \in Proc,
           \/ \E to \in Folder \cup {Root} :
                \/ BeginCreate(p, to)
                \/ \E f \in Folder : BeginMove(p, f, to)
                \/ \E i \in Item : (i \in File /\ BeginMoveFile(p, i, to)) \/ (to = parent[i] /\ BeginRename(p, i))
           \/ \E f \in Folder : BeginDelete(p, f)
           \/ \E i \in Item : BeginDrop(p, i) \/ BeginRestore(p, i) \/ BeginPurge(p, i)
    PROVE  Safe'
<1> p # Sweeper /\ p \in Actor /\ Item = Folder \cup File /\ today \in Nat
  BY FolderTreeAssumption, Types DEF Item, Actor, IInv
<1> USE NoJobIn
<1>1. ASSUME NEW to \in Folder \cup {Root}, BeginCreate(p, to) PROVE Safe'
  <2> DEFINE j == [NoJob EXCEPT !.to = to]
  <2>1. j \in Jobs
    BY DEF Jobs
  <2>2. Watch("insert", j) /\ Doomed(p, "insert", j)
    BY DEF Watch, Walking, Marking, Moving, Doomed
  <2> QED BY <1>1, <2>1, <2>2, BeginSafe DEF BeginCreate, Label
<1>2. ASSUME NEW to \in Folder \cup {Root}, NEW f \in Folder, BeginMove(p, f, to) PROVE Safe'
  <2> DEFINE l == IF to = Root THEN "place" ELSE "collect"
             seq == IF to = Root THEN <<>> ELSE <<f>>
             j == [NoJob EXCEPT !.it = f, !.to = to, !.then = "target", !.found = seq]
  <2>1. seq \in Seq(Item) /\ (to # Root => Len(seq) = 1 /\ seq[1] = f)
    <3>1. f \in Item /\ <<f>> \in Seq(Item) /\ <<>> \in Seq(Item) /\ Len(<<f>>) = 1 /\ <<f>>[1] = f
      OBVIOUS
    <3> QED BY <3>1
  <2>2. j \in Jobs /\ j.it = f /\ j.to = to /\ j.found = seq /\ j.next = 1
    <3> HIDE DEF seq
    <3> QED BY <2>1 DEF Jobs
  <2>3. stat[f] = "live" /\ Begin(p, l, j)
    BY <1>2 DEF BeginMove
  <2> HIDE DEF j, seq
  <2>4. CASE to = Root
    <3>1. Watch(l, j) /\ Doomed(p, l, j)
      BY <2>2, <2>3, <2>4 DEF Watch, Walking, Marking, Moving, Doomed, LiveFolders
    <3> QED BY <2>2, <2>3, <3>1, BeginSafe DEF Label
  <2>5. CASE to # Root
    <3>1. Walking(l, j)
      BY <2>1, <2>2, <2>3 DEF Walking
    <3>2. Watch(l, j) /\ Doomed(p, l, j)
      BY <2>5, <3>1 DEF Watch, Marking, Moving, Doomed
    <3> QED BY <2>2, <2>3, <3>2, BeginSafe DEF Label
  <2> QED BY <2>4, <2>5
<1>3. ASSUME NEW to \in Folder \cup {Root}, NEW i \in File, BeginMoveFile(p, i, to) PROVE Safe'
  <2> DEFINE l == IF to = Root THEN "place" ELSE "target"
             j == [NoJob EXCEPT !.it = i, !.to = to]
  <2>1. j \in Jobs /\ j.it = i /\ j.to = to
    BY DEF Jobs
  <2>2. stat[i] = "live" /\ i \notin Folder /\ Begin(p, l, j)
    BY <1>3, Ids DEF BeginMoveFile
  <2> HIDE DEF j
  <2>3. Watch(l, j) /\ Doomed(p, l, j)
    BY <2>1, <2>2 DEF Watch, Walking, Marking, Moving, Doomed, LiveFolders
  <2> QED BY <2>1, <2>2, <2>3, BeginSafe DEF Label
<1>4. ASSUME NEW i \in Item, BeginRename(p, i) PROVE Safe'
  <2> DEFINE j == [NoJob EXCEPT !.it = i, !.to = parent[i]]
  <2>1. j \in Jobs /\ j.it = i /\ j.to = parent[i]
    BY Types DEF Jobs, IInv
  <2>2. stat[i] = "live" /\ Begin(p, "place", j) /\ ~HalfDone(p)
    BY <1>4 DEF BeginRename, Begin, HalfDone
  <2>3. Clear(p) => parent[i] \in LiveFolders
    BY <2>2, ListedWhenClear DEF AllListed
  <2> HIDE DEF j
  <2>4. (Clear(p) => Watch("place", j)) /\ Doomed(p, "place", j)
    BY <2>1, <2>2, <2>3 DEF Watch, Walking, Marking, Moving, Doomed
  <2> QED BY <2>1, <2>2, <2>4, BeginSafe DEF Label
<1>5. ASSUME NEW f \in Folder, BeginDelete(p, f) PROVE Safe'
  <2> DEFINE seq == <<f>>
             j == [NoJob EXCEPT !.found = seq, !.day = today, !.then = "mark"]
  <2>1. seq \in Seq(Item) /\ Len(seq) = 1 /\ seq[1] = f
    OBVIOUS
  <2>2. j \in Jobs /\ j.found = seq /\ j.next = 1 /\ j.then = "mark"
    <3> HIDE DEF seq
    <3> QED BY <2>1 DEF Jobs
  <2>3. stat[f] = "live" /\ Begin(p, "collect", j)
    BY <1>5 DEF BeginDelete
  <2> HIDE DEF j, seq
  <2>4. Walking("collect", j)
    <3>1. ASSUME NEW k \in 1 .. Len(j.found) PROVE stat[j.found[k]] = "live"
      <4>1. Len(j.found) = 1 /\ j.found[1] = f
        BY <2>1, <2>2
      <4>2. k = 1
        BY <4>1
      <4> QED BY <2>3, <4>1, <4>2
    <3>2. 1 .. j.next - 1 = {} /\ j.then # "target"
      BY <2>2
    <3> QED BY <3>1, <3>2 DEF Walking
  <2>5. Watch("collect", j) /\ Doomed(p, "collect", j)
    BY <2>4 DEF Watch, Marking, Moving, Doomed
  <2> QED BY <2>2, <2>3, <2>5, BeginSafe DEF Label
<1>6. ASSUME NEW i \in Item, BeginDrop(p, i) PROVE Safe'
  <2> DEFINE j == [NoJob EXCEPT !.it = i, !.day = today]
  <2>1. j \in Jobs
    BY DEF Jobs
  <2>2. Watch("drop", j) /\ Doomed(p, "drop", j)
    BY DEF Watch, Walking, Marking, Moving, Doomed
  <2> QED BY <1>6, <2>1, <2>2, BeginSafe DEF BeginDrop, Label
<1>7. ASSUME NEW i \in Item, BeginRestore(p, i) \/ BeginPurge(p, i) PROVE Safe'
  <2> DEFINE j == [NoJob EXCEPT !.it = i]
  <2>1. j \in Jobs /\ j.it = i
    BY DEF Jobs
  <2>2. stat[i] = "trash" /\ \E l \in {"restore", "count", "remove"} : Begin(p, l, j)
    BY <1>7 DEF BeginRestore, BeginPurge
  <2> HIDE DEF j
  <2>3. \A l \in {"restore", "count", "remove"} : Watch(l, j) /\ Doomed(p, l, j)
    BY <2>1, <2>2 DEF Watch, Walking, Marking, Moving, Doomed
  <2> QED BY <2>1, <2>2, <2>3, BeginSafe DEF Label
<1> QED BY <1>1, <1>2, <1>3, <1>4, <1>5, <1>6, <1>7

\* The walk, one SELECT further.
LEMMA WalkGoesOn ==
    ASSUME IInv, NEW p \in Actor, pc[p] = "collect", Walking("collect", job[p])
    PROVE  LET j == job[p]  found == j.found \o Children(j) IN
           /\ \A k \in 1 .. Len(found) : stat[found[k]] = "live"
           /\ \A k \in 1 .. j.next, x \in Folder :
                stat[x] = "live" /\ parent[x] = found[k] => x \in ToSet(found)
           /\ found[1] = j.found[1] /\ Len(found) >= 1 /\ ToSet(found) \in SUBSET Folder
<1> DEFINE j == job[p]  found == j.found \o Children(j)
<1>1. /\ j.found \in Seq(Folder) /\ j.next \in 1 .. Len(j.found) /\ Children(j) \in Seq(Folder)
      /\ ToSet(Children(j)) = {x \in Folder : parent[x] = j.found[j.next] /\ stat[x] = "live"}
      /\ found \in Seq(Folder) /\ Len(found) >= Len(j.found)
      /\ ToSet(found) = ToSet(j.found) \cup ToSet(Children(j))
  BY WalkIs DEF IInv
<1>2. /\ \A k \in 1 .. Len(j.found) : stat[j.found[k]] = "live"
      /\ \A k \in 1 .. j.next - 1, x \in Folder :
           stat[x] = "live" /\ parent[x] = j.found[k] => x \in ToSet(j.found)
  BY DEF Walking
<1>3. Len(j.found) \in Nat /\ Len(found) \in Nat /\ \A k \in 1 .. Len(j.found) : found[k] = j.found[k]
  <2> HIDE DEF j
  <2> QED BY <1>1
<1> HIDE DEF j, found
<1>4. \A k \in 1 .. Len(found) : found[k] \in ToSet(found)
  BY <1>1 DEF ToSet
<1>5. \A x \in ToSet(j.found) : stat[x] = "live"
  <2> SUFFICES ASSUME NEW k \in DOMAIN j.found PROVE stat[j.found[k]] = "live"
    BY DEF ToSet
  <2>1. k \in 1 .. Len(j.found)
    BY <1>1
  <2> QED BY <1>2, <2>1
<1>6. ASSUME NEW k \in 1 .. Len(found) PROVE stat[found[k]] = "live"
  BY <1>1, <1>4, <1>5
<1>7. ASSUME NEW k \in 1 .. j.next, NEW x \in Folder, stat[x] = "live", parent[x] = found[k]
      PROVE  x \in ToSet(found)
  <2>1. found[k] = j.found[k]
    BY <1>1, <1>3
  <2>2. CASE k = j.next
    BY <1>1, <1>7, <2>1, <2>2
  <2>3. CASE k # j.next
    <3>1. k \in 1 .. j.next - 1
      BY <1>1, <2>3
    <3> QED BY <1>1, <1>2, <1>7, <2>1, <3>1
  <2> QED BY <2>2, <2>3
<1>8. found[1] = j.found[1] /\ Len(found) >= 1
  BY <1>1, <1>3
<1>9. ToSet(found) \in SUBSET Folder
  BY <1>1 DEF ToSet
<1> QED BY <1>6, <1>7, <1>8, <1>9 DEF found, j

LEMMA CollectSafe ==
    ASSUME IInv, NEW p \in Proc, Collect(p)
    PROVE  Safe'
<1> DEFINE j == job[p]
           found == j.found \o Children(j)
           long == Len(found) > MaxWalk
           ends == j.next = Len(found)
           l == IF long THEN "spins" ELSE IF ~ends THEN "collect" ELSE AfterWalk(j, found)
           seq == IF long THEN <<>> ELSE IF ends /\ j.then = "target" THEN <<>> ELSE found
           turn == IF ends \/ long THEN 1 ELSE j.next + 1
           k == [j EXCEPT !.found = seq, !.next = turn]
<1>1. pc[p] = "collect" /\ Read(p, l, k) /\ UNCHANGED <<treeVars, loose>> /\ Quiet /\ p \in Actor
  BY DEF Collect, Children, Actor
<1>2. /\ Fit(p, "collect", j) /\ j \in Jobs /\ j.next \in Nat
      /\ found \in Seq(Folder) /\ j.next \in 1 .. Len(found) /\ Len(found) \in Nat
  <2>1. Fit(p, "collect", j) /\ j \in Jobs
    BY <1>1, Types DEF Typed, TypedAt, Tasks, IInv
  <2>2. found \in Seq(Folder) /\ Len(found) >= Len(j.found) /\ j.next \in 1 .. Len(j.found) /\ j.found \in Seq(Folder)
    BY <1>1, WalkIs DEF IInv
  <2> HIDE DEF j, found
  <2>3. Len(found) \in Nat /\ Len(j.found) \in Nat
    BY <2>2
  <2> QED BY <2>1, <2>2, <2>3
<1>3. l \in Label /\ (l = "collect" => ~long /\ ~ends)
      /\ (l = "mark" => ~long /\ ends /\ j.then = "mark") /\ l \in {"spins", "collect", "mark", "target", "idle"}
      /\ (l = "target" => j.then = "target" /\ ~long /\ ends /\ j.to \notin ToSet(found))
  BY <1>2 DEF Fit, AfterWalk, Label
<1>4. seq \in Seq(Item) /\ turn \in Nat
  <2>1. <<>> \in Seq(Item) /\ (found \in Seq(Folder) => found \in Seq(Item))
    <3> HIDE DEF found
    <3> QED BY DEF Item
  <2> HIDE DEF found, j
  <2> QED BY <1>2, <2>1
<1>5. /\ k \in Jobs /\ k.then = j.then /\ k.it = j.it /\ k.to = j.to
      /\ (~long /\ ~ends => k.found = found /\ k.next = j.next + 1)
      /\ (~long /\ ends /\ j.then = "mark" => k.found = found /\ k.next = 1)
  <2>1. k \in Jobs /\ k.found = seq /\ k.next = turn /\ k.then = j.then /\ k.it = j.it /\ k.to = j.to
    <3> HIDE DEF seq, turn, j
    <3> QED BY <1>2, <1>4 DEF Jobs
  <2> HIDE DEF k, j, found
  <2> QED BY <2>1
<1>6. ASSUME Clear(p) PROVE Watch(l, k)
  <2>1. Walking("collect", j)
    BY <1>1, <1>6 DEF IInv, Safe, WatchAt, Watch
  <2>2. /\ \A n \in 1 .. Len(found) : stat[found[n]] = "live"
        /\ \A n \in 1 .. j.next, x \in Folder :
             stat[x] = "live" /\ parent[x] = found[n] => x \in ToSet(found)
        /\ found[1] = j.found[1] /\ Len(found) >= 1 /\ ToSet(found) \in SUBSET Folder
    BY <1>1, <2>1, WalkGoesOn
  <2>3. j.then = "target" => j.found[1] = j.it
    BY <2>1 DEF Walking
  <2>4. AllListed
    BY <1>1, <1>6, ListedWhenClear DEF HalfDone
  <2> HIDE DEF k, j, found, l
  <2>5. CASE l = "collect"
    <3>1. k.found = found /\ k.next - 1 = j.next
      BY <1>2, <1>3, <1>5, <2>5
    <3>2. Walking(l, k)
      BY <1>5, <2>2, <2>3, <2>5, <3>1 DEF Walking
    <3> QED BY <2>5, <3>2 DEF Watch, Marking, Moving
  <2>6. ends => Closed(ToSet(found))
    <3> SUFFICES ASSUME ends, NEW x \in Folder, stat[x] = "live", parent[x] \in ToSet(found)
                 PROVE  x \in ToSet(found)
      BY DEF Closed
    <3>1. PICK n \in 1 .. j.next : parent[x] = found[n]
      BY <1>2 DEF ToSet
    <3> QED BY <2>2, <3>1
  <2>7. CASE l = "mark"
    <3>1. k.found = found /\ k.next = 1
      BY <1>3, <1>5, <2>7
    <3>2. 1 .. k.next - 1 = {}
      BY <3>1
    <3>3. Marking(l, k)
      BY <1>3, <2>4, <2>6, <2>7, <3>1, <3>2 DEF Marking, AllListed
    <3> QED BY <2>7, <3>3 DEF Watch, Walking, Moving
  <2>8. CASE l = "target"
    <3>1. j.it = found[1] /\ found[1] \in ToSet(found)
      BY <1>2, <1>3, <2>2, <2>3, <2>8 DEF ToSet
    <3>2. stat[j.it] = "live"
      BY <1>2, <2>2, <3>1
    <3>3. Aside(j.it, j.to)
      BY <1>3, <2>2, <2>6, <2>8, <3>1 DEF Aside
    <3>4. Moving(l, k)
      BY <1>5, <2>8, <3>2, <3>3 DEF Moving
    <3> QED BY <2>8, <3>4 DEF Watch, Walking, Marking
  <2>9. CASE l \in {"spins", "idle"}
    BY <2>9 DEF Watch, Walking, Marking, Moving
  <2> QED BY <1>3, <2>5, <2>7, <2>8, <2>9
<1>7. Doomed(p, l, k)
  <2> HIDE DEF l, k
  <2> QED BY <1>3 DEF Doomed
<1> HIDE DEF k, l, found, j
<1>8. ~HalfDone(p) /\ UNCHANGED <<parent, stat, since, mine, today, loose, misread>>
  BY <1>1 DEF HalfDone, treeVars, Quiet, policyVars, sweepVars
<1> QED BY <1>1, <1>3, <1>5, <1>6, <1>7, <1>8, ReadKeeps

\* The other steps of a handler that only look.
LEMMA LookSafe ==
    ASSUME IInv, NEW p \in Actor, Target(p) \/ Count(p)
    PROVE  Safe'
<1>1. job[p] \in Jobs /\ ~HalfDone(p) /\ UNCHANGED <<parent, stat, since, mine, today, loose, misread>>
  BY Types DEF IInv, Tasks, Target, Count, HalfDone, treeVars, Quiet, policyVars, sweepVars
<1>2. CASE Target(p)
  <2>1. pc[p] = "target"
    BY <1>2 DEF Target
  <2>2. CASE stat[job[p].to] = "live"
    <3>1. Read(p, "place", job[p])
      BY <1>2, <2>2 DEF Target
    <3>2. job[p].to \in LiveFolders
      <4>1. job[p].to \in Folder
        BY <2>1 DEF IInv, Typed, TypedAt, Fit
      <4> QED BY <2>2, <4>1 DEF LiveFolders
    <3>3. p \in Proc /\ Clear(p) => Watch("place", job[p])
      BY <2>1, <3>2 DEF IInv, Safe, WatchAt, Watch, Walking, Marking, Moving
    <3> QED BY <1>1, <3>1, <3>3, ReadKeeps DEF Doomed, Label
  <2>3. CASE stat[job[p].to] # "live"
    <3>1. Read(p, "idle", job[p])
      BY <1>2, <2>3 DEF Target
    <3> QED BY <1>1, <3>1, ReadKeeps DEF Label
  <2> QED BY <2>2, <2>3
<1>3. CASE Count(p)
  <2>1. pc[p] = "count" /\ NextRow(p) \in {"rows", "idle"}
    BY <1>3 DEF Count, NextRow
  <2>2. PICK l \in {"remove", NextRow(p)} : Read(p, l, job[p])
    BY <1>3 DEF Count
  <2>3. ~stale[p] => Doomed(p, "count", job[p])
    BY <2>1 DEF IInv, Safe, DoomAt
  <2>4. (~stale[p] => Doomed(p, l, job[p])) /\ Watch(l, job[p]) /\ l \in Label
    BY <2>1, <2>2, <2>3 DEF Doomed, Watch, Walking, Marking, Moving, Label
  <2> QED BY <1>1, <2>2, <2>4, ReadKeeps
<1> QED BY <1>2, <1>3

LEMMA SweepSafe ==
    ASSUME IInv, SweepStart \/ SweepFiles \/ SweepEnd \/ SweepRow
    PROVE  Safe'
<1> DEFINE p == Sweeper  j == job[Sweeper]
<1>1. /\ p \in Actor /\ p \notin Proc /\ j \in Jobs /\ NoJob \in Jobs
      /\ {"idle", "rows", "count", "remove"} \subseteq Label
  BY Types, NoJobIn, FolderTreeAssumption DEF IInv, Tasks, Actor, Label
<1>2. UNCHANGED <<parent, stat, since, mine, today, loose>> /\ ~HalfDone(p)
  BY DEF SweepStart, SweepFiles, SweepEnd, SweepRow, treeVars, Quiet, Unheard, policyVars, HalfDone
<1>3. ASSUME NEW l \in {"idle", "rows"}, NEW k \in Jobs, Read(p, l, k) PROVE Safe'
  BY <1>1, <1>2, <1>3, ReadKeeps DEF Doomed
<1>4. CASE SweepStart
  <2>0. PICK lost \in BOOLEAN :
           Read(p, "rows", [NoJob EXCEPT !.day = IF lost THEN DefaultKeep ELSE GlobalDefault,
                                         !.found = Rows(Folder, "trash"), !.then = "files"])
    BY <1>4 DEF SweepStart
  <2> DEFINE rows == Rows(Folder, "trash")
             keep == IF lost THEN DefaultKeep ELSE GlobalDefault
             k == [NoJob EXCEPT !.day = keep, !.found = rows, !.then = "files"]
  <2>1. rows \in Seq(Item)
    <3>1. Folder \in SUBSET Item
      BY DEF Item
    <3> QED BY <3>1, RowsAre, SeqOfMore
  <2>2. k \in Jobs
    <3>1. keep \in Nat
      BY DefaultIsNat, FolderTreeAssumption DEF IInv
    <3> HIDE DEF rows, keep
    <3> QED BY <2>1, <3>1, NoJobIn DEF Jobs
  <2>3. Read(p, "rows", k)
    BY <2>0
  <2> HIDE DEF k
  <2> QED BY <1>3, <2>2, <2>3
<1>5. CASE SweepFiles
  <2> DEFINE rows == Rows(File, "trash")
             k == [j EXCEPT !.found = rows, !.next = 1, !.then = "idle"]
  <2>1. rows \in Seq(Item)
    <3>1. File \in SUBSET Item
      BY DEF Item
    <3> QED BY <3>1, RowsAre, SeqOfMore
  <2>2. k \in Jobs
    <3> HIDE DEF rows, j
    <3> QED BY <1>1, <2>1 DEF Jobs
  <2>3. Read(p, "rows", k)
    BY <1>5 DEF SweepFiles
  <2> HIDE DEF k
  <2> QED BY <1>3, <2>2, <2>3
<1>6. CASE SweepEnd
  BY <1>1, <1>3, <1>6 DEF SweepEnd
<1>7. CASE SweepRow
  <2>0. PICK lost \in BOOLEAN :
           /\ Unheard(lost, mine # Unset)
           /\ Step(p, IF ~Past(j.found[j.next], IF lost THEN j.day ELSE Effective(j.day)) THEN "rows"
                      ELSE IF j.found[j.next] \in Folder THEN "count" ELSE "remove",
                   [j EXCEPT !.it = j.found[j.next], !.next = @ + 1])
           /\ misread' = IF lost THEN misread \cup {"own"} ELSE misread \ {"own"}
    BY <1>7 DEF SweepRow
  <2> DEFINE i == j.found[j.next]
             k == [j EXCEPT !.it = i, !.next = @ + 1]
             l == IF ~Past(i, IF lost THEN j.day ELSE Effective(j.day)) THEN "rows"
                  ELSE IF i \in Folder THEN "count" ELSE "remove"
  <2>1. j.next \in Nat /\ j.next # 0 /\ j.next <= Len(j.found) /\ j.found \in Seq(Item)
    BY <1>1, <1>7 DEF SweepRow, IInv, Typed, TypedAt, Fit, Jobs
  <2>2. i \in Item
    <3> HIDE DEF j
    <3> QED BY <2>1
  <2>3. k \in Jobs /\ k.it = i /\ k.day = j.day
    <3> HIDE DEF j, i
    <3>1. i \in Item \cup {0} /\ j.next + 1 \in Nat
      BY <2>1, <2>2
    <3> QED BY <1>1, <3>1 DEF Jobs
  <2>4. l \in {"rows", "count", "remove"} /\ (l # "rows" => Past(i, IF lost THEN j.day ELSE Effective(j.day)))
    OBVIOUS
  <2>5. /\ pc' = [pc EXCEPT ![p] = l] /\ job' = [job EXCEPT ![p] = k]
        /\ stale' = [stale EXCEPT ![p] = FALSE] /\ raced' = raced /\ pc[p] = "rows"
    <3>1. Step(p, l, k) /\ l # "idle"
      BY <2>0, <2>4
    <3> QED BY <1>7, <3>1 DEF Step, SweepRow
  <2>6. l # "rows" => stat[i] = "trash"
                      /\ Past(i, IF "own" \in misread' THEN k.day ELSE Effective(k.day))
    <3>1. lost <=> "own" \in misread'
      BY <2>0
    <3> HIDE DEF j, k, l, i
    <3> QED BY <2>3, <2>4, <3>1 DEF Past
  <2> HIDE DEF k, l
  <2>7. /\ pc'[p] = l /\ job'[p] = k
        /\ \A q \in Actor \ {p} : pc'[q] = pc[q] /\ job'[q] = job[q] /\ stale'[q] = stale[q]
    BY <1>1, <2>5, Types DEF IInv, Tasks
  <2>8. \A q \in Proc : pc'[q] = pc[q] /\ job'[q] = job[q] /\ stale'[q] = stale[q]
    BY <1>1, <2>7 DEF Actor
  <2>9. BornOK' /\ TreeOK' /\ LiveIsListed'
    BY <1>2, <2>5, <2>8 DEF IInv, Safe, BornOK, TreeOK, Excused, NoCycle, LiveIsListed, LiveFolders, HalfDone
  <2>10. ASSUME NEW q \in Proc PROVE WatchAt(q)'
    <3>1. Clear(q)' => Clear(q)
      BY <1>2, <2>5, <2>8 DEF Clear, Excused, HalfDone
    <3> QED BY <1>2, <2>8, <3>1 DEF IInv, Safe, WatchAt, Watch, Walking, Marking, Moving, Closed, Aside,
                                    Emptied, FilesIn, LiveFolders
  <2>11. ASSUME NEW q \in Actor PROVE DoomAt(q)'
    <3>1. CASE q = p
      BY <1>2, <2>3, <2>4, <2>6, <2>7, <3>1 DEF DoomAt, Doomed, Held, Past, Effective
    <3>2. CASE q # p
      BY <1>2, <2>7, <3>2 DEF IInv, Safe, DoomAt, Doomed
    <3> QED BY <3>1, <3>2
  <2> QED BY <2>9, <2>10, <2>11 DEF Safe
<1> QED BY <1>4, <1>5, <1>6, <1>7

\* What is past its retention stays so as days go by.
LEMMA TickSafe ==
    ASSUME IInv, Tick
    PROVE  Safe'
<1>1. UNCHANGED <<parent, stat, since, mine, pc, job, stale, raced, loose, misread>> /\ today' = today + 1
  BY DEF Tick, treeVars, policyVars, sweepVars
<1>2. BornOK' /\ TreeOK' /\ LiveIsListed'
  BY <1>1 DEF IInv, Safe, BornOK, TreeOK, Excused, NoCycle, LiveIsListed, LiveFolders, HalfDone
<1>3. ASSUME NEW q \in Proc PROVE WatchAt(q)'
  <2>1. Clear(q)' => Clear(q)
    BY <1>1 DEF Clear, Excused, HalfDone
  <2> QED BY <1>1, <2>1 DEF IInv, Safe, WatchAt, Watch, Walking, Marking, Moving, Closed, Aside,
                            Emptied, FilesIn, LiveFolders
<1>4. ASSUME NEW q \in Actor PROVE DoomAt(q)'
  <2> DEFINE i == job[q].it  keep == Held(job[q])
  <2> SUFFICES ASSUME ~stale[q], pc[q] \in {"count", "remove"}
               PROVE  stat[i] = "trash" /\ (q = Sweeper => Past(i, keep)')
    BY <1>1 DEF DoomAt, Doomed
  <2>1. stat[i] = "trash" /\ (q = Sweeper => Past(i, keep))
    BY DEF IInv, Safe, DoomAt, Doomed
  <2>2. i \in Item /\ since[i] \in Nat /\ today \in Nat
    <3>1. i \in Item
      BY DEF IInv, Typed, TypedAt, Fit
    <3> QED BY <3>1, FolderTreeAssumption, Types DEF IInv
  <2>3. keep \in Nat /\ keep' = keep
    <3>1. job[q].day \in Nat /\ mine \in Keeps \cup {Unset}
      BY Types DEF IInv, Tasks, Jobs, TypeOK
    <3> QED BY <1>1, <3>1, FolderTreeAssumption DEF Held, Effective
  <2>4. i' = i
    BY <1>1
  <2> HIDE DEF i, keep
  <2> QED BY <1>1, <2>1, <2>2, <2>3, <2>4 DEF Past
<1> QED BY <1>2, <1>3, <1>4 DEF Safe

\* Handlers that stop: a deletion half-way leaves something loose.
LEMMA StopSafe ==
    ASSUME IInv, NEW P \in SUBSET Actor, Stop(P)
    PROVE  Safe'
<1>1. /\ UNCHANGED <<parent, stat, since, mine, today, raced, misread>> /\ (loose => loose')
      /\ ((\E p \in P : HalfDone(p)) => loose')
  BY DEF Stop, treeVars, policyVars, sweepVars
<1>2. ASSUME NEW q \in Actor
      PROVE  \/ q \in P /\ pc'[q] = "idle"
             \/ q \notin P /\ pc'[q] = pc[q] /\ job'[q] = job[q] /\ stale'[q] = stale[q]
  BY Types DEF Stop, IInv, Tasks
<1> Proc \subseteq Actor
  BY DEF Actor
<1>3. \A q \in Proc : ~Excused' /\ HalfDone(q) => HalfDone(q)'
  BY <1>1, <1>2 DEF Excused, HalfDone
<1>4. BornOK' /\ TreeOK' /\ LiveIsListed'
  <2>1. BornOK' /\ TreeOK'
    BY <1>1 DEF IInv, Safe, BornOK, TreeOK, Excused, NoCycle
  <2>2. Excused => Excused'
    BY <1>1 DEF Excused
  <2>3. LiveIsListed'
    BY <1>1, <1>3, <2>2 DEF IInv, Safe, LiveIsListed, LiveFolders
  <2> QED BY <2>1, <2>3
<1>5. ASSUME NEW q \in Proc PROVE WatchAt(q)'
  <2>1. CASE q \in P
    BY <1>2, <2>1 DEF WatchAt, Watch, Walking, Marking, Moving
  <2>2. CASE q \notin P
    <3>1. Clear(q)' => Clear(q)
      BY <1>1, <1>2, <1>3, <2>2 DEF Clear, Excused
    <3> QED BY <1>1, <1>2, <2>2, <3>1 DEF IInv, Safe, WatchAt, Watch, Walking, Marking, Moving, Closed, Aside,
                                        Emptied, FilesIn, LiveFolders
  <2> QED BY <2>1, <2>2
<1>6. ASSUME NEW q \in Actor PROVE DoomAt(q)'
  BY <1>1, <1>2 DEF IInv, Safe, DoomAt, Doomed, Held, Past, Effective
<1> QED BY <1>4, <1>5, <1>6 DEF Safe

LEMMA WroteAlarms ==
    ASSUME IInv, NEW p \in Actor, NEW l \in Label, NEW j \in Jobs, Wrote(p, l, j), loose => loose'
    PROVE  Alarms(p) /\ pc'[p] = l /\ job'[p] = (IF l = "idle" THEN NoJob ELSE j)
  BY Types, WroteIs DEF IInv, Alarms

\* The last write of a request, or of a row of the sweep.
LEMMA WroteLast ==
    ASSUME IInv, NEW p \in Actor, NEW l \in {"idle", "rows"}, NEW j \in Jobs, Wrote(p, l, j),
           loose => loose', BornOK', Clear(p) /\ ~loose' => NoCycle(parent)' /\ AllListed'
    PROVE  Safe'
<1>1. Alarms(p) /\ pc'[p] = l
  BY WroteAlarms DEF Label
<1>2. ~Excused' => NoCycle(parent)' /\ AllListed'
  BY <1>1, WriterIsClear DEF Excused
<1>3. TreeOK' /\ LiveIsListed'
  BY <1>2 DEF TreeOK, LiveIsListed, AllListed
<1>4. WatchAt(p)' /\ DoomAt(p)'
  BY <1>1 DEF WatchAt, Watch, Walking, Marking, Moving, DoomAt, Doomed
<1> QED BY <1>1, <1>3, <1>4, WriterKeeps

\* Before the write of an actor that is clear: the tree is a tree, and listed.
LEMMA ClearTree ==
    ASSUME IInv, NEW p \in Actor, Clear(p), ~HalfDone(p)
    PROVE  NoCycle(parent) /\ AllListed
  BY ListedWhenClear DEF IInv, Safe, TreeOK, Clear

LEMMA PutSafe ==
    ASSUME IInv, NEW p \in Proc, \E d \in Keeps : PutMine(p, d) \/ PutGlobal(p, d)
    PROVE  Safe'
<1>1. Wrote(p, "idle", NoJob) /\ UNCHANGED <<parent, stat, loose>> /\ p \in Actor /\ ~HalfDone(p)
  BY DEF PutMine, PutGlobal, treeVars, Actor, HalfDone
<1>2. BornOK'
  BY <1>1 DEF IInv, Safe, BornOK
<1>3. Clear(p) => NoCycle(parent)' /\ AllListed'
  BY <1>1, ClearTree DEF NoCycle, AllListed, LiveFolders
<1> QED BY <1>1, <1>2, <1>3, WroteLast, NoJobIn

\* A new row is nobody's parent yet.
LEMMA NewRowSafe ==
    ASSUME IInv, NEW p \in Proc, NEW S \in SUBSET Item, NEW to \in Folder \cup {Root}, NewRow(S, to),
           ~HalfDone(p), Wrote(p, "idle", NoJob)
    PROVE  Safe'
<1>1. PICK i \in Item : /\ stat[i] = "unborn"
                        /\ stat' = [stat EXCEPT ![i] = "live"] /\ parent' = [parent EXCEPT ![i] = to]
  BY RowAdded DEF IInv
<1>2. to \in KeptFolders /\ (loose => loose') /\ (to \notin LiveFolders => loose') /\ p \in Actor
  BY RowAdded DEF IInv, Actor
<1>3. /\ stat \in [Item -> {"unborn", "live", "trash", "gone"}] /\ parent \in [Item -> Folder \cup {Root}]
      /\ BornOK /\ Root \notin Item /\ Folder \subseteq Item
  BY Types, Ids DEF IInv, Safe, Item
<1>4. to # i /\ \A x \in Item : parent[x] # i
  BY <1>1, <1>2, <1>3 DEF BornOK, KeptFolders, Exists
<1>5. /\ stat'[i] = "live" /\ parent'[i] = to
      /\ \A x \in Item \ {i} : stat'[x] = stat[x] /\ parent'[x] = parent[x]
  BY <1>1, <1>3
<1>6. BornOK'
  <2> SUFFICES ASSUME NEW x \in Item, parent'[x] # Root PROVE stat'[parent'[x]] # "unborn"
    BY DEF BornOK
  <2>1. CASE x = i
    <3>1. to # Root /\ to \in Item /\ stat'[to] = stat[to]
      BY <1>3, <1>4, <1>5, <2>1
    <3> QED BY <1>2, <1>5, <2>1, <3>1 DEF KeptFolders, Exists
  <2>2. CASE x # i
    <3>1. parent'[x] = parent[x] /\ parent[x] \in Item /\ stat'[parent[x]] = stat[parent[x]]
      BY <1>3, <1>4, <1>5, <2>2
    <3> QED BY <1>3, <3>1 DEF BornOK
  <2> QED BY <2>1, <2>2
<1>7. ASSUME NoCycle(parent) PROVE NoCycle(parent)'
  <2> SUFFICES ASSUME NEW T \in SUBSET Folder, T # {} PROVE \E x \in T : parent'[x] \notin T
    BY DEF NoCycle
  <2>1. CASE T \ {i} = {}
    <3>1. T = {i}
      BY <2>1
    <3> QED BY <1>4, <1>5, <3>1
  <2>2. CASE T \ {i} # {}
    <3>1. PICK x \in T \ {i} : parent[x] \notin T \ {i}
      BY <1>7, <2>2 DEF NoCycle
    <3>2. parent'[x] = parent[x] /\ parent[x] # i
      BY <1>3, <1>4, <1>5
    <3> QED BY <3>1, <3>2
  <2> QED BY <2>1, <2>2
<1>8. ASSUME AllListed, ~loose' PROVE AllListed'
  <2>1. LiveFolders \subseteq LiveFolders'
    BY <1>3, <1>5 DEF LiveFolders
  <2> QED BY <1>2, <1>5, <1>8, <2>1 DEF AllListed
<1> QED BY <1>2, <1>6, <1>7, <1>8, ClearTree, WroteLast, NoJobIn

\* What trashing a set of rows does to each of them.
LEMMA TrashedIs ==
    ASSUME IInv, NEW S, NEW day, Trashed(S, day)
    PROVE  /\ parent' = parent
           /\ \A x \in Item : /\ stat'[x] = "live" <=> stat[x] = "live" /\ x \notin S
                              /\ stat'[x] = "unborn" <=> stat[x] = "unborn"
           /\ BornOK' /\ (NoCycle(parent) => NoCycle(parent)')
<1>1. /\ stat' = [i \in Item |-> IF i \in S /\ Exists(i) THEN "trash" ELSE stat[i]]
      /\ parent' = parent /\ parent \in [Item -> Folder \cup {Root}] /\ Folder \subseteq Item
  BY Types DEF Trashed, IInv, Item
<1>2. \A x \in Item : /\ stat'[x] = "live" <=> stat[x] = "live" /\ x \notin S
                      /\ stat'[x] = "unborn" <=> stat[x] = "unborn"
  BY <1>1 DEF Exists
<1>3. BornOK'
  BY <1>1, <1>2 DEF IInv, Safe, BornOK
<1> QED BY <1>1, <1>2, <1>3 DEF NoCycle

LEMMA DropSafe ==
    ASSUME IInv, NEW p \in Proc, Drop(p)
    PROVE  Safe'
<1> DEFINE i == job[p].it
<1>1. /\ Trashed({i}, job[p].day) /\ Wrote(p, "idle", NoJob) /\ ~HalfDone(p) /\ p \in Actor
      /\ (loose => loose') /\ (Exists(i) /\ Listing(i) # {} => loose')
  BY DEF Drop, HalfDone, Actor
<1>2. BornOK' /\ (NoCycle(parent) => NoCycle(parent)')
  BY <1>1, TrashedIs
<1>3. ASSUME AllListed, ~loose' PROVE AllListed'
  <2> SUFFICES ASSUME NEW x \in Item, stat'[x] = "live" PROVE parent'[x] \in LiveFolders'
    BY DEF AllListed
  <2>1. /\ stat[x] = "live" /\ parent'[x] = parent[x]
        /\ \A y \in Item : stat'[y] = "live" <=> stat[y] = "live" /\ y # i
    BY <1>1, TrashedIs
  <2>2. parent[x] \in LiveFolders
    BY <1>3, <2>1 DEF AllListed
  <2>3. parent[x] # Root => parent[x] # i
    BY <1>1, <1>3, <2>1, <2>2 DEF Listing, Exists, LiveFolders
  <2> QED BY <2>1, <2>2, <2>3 DEF LiveFolders, Item
<1> QED BY <1>1, <1>2, <1>3, ClearTree, WroteLast, NoJobIn

LEMMA RestoreSafe ==
    ASSUME IInv, NEW p \in Proc, Restore(p)
    PROVE  Safe'
<1> DEFINE i == job[p].it
<1>1. /\ stat' = [stat EXCEPT ![i] = IF Exists(i) THEN "live" ELSE @] /\ parent' = parent
      /\ Wrote(p, "idle", NoJob) /\ ~HalfDone(p) /\ p \in Actor
      /\ (loose => loose') /\ (parent[i] \notin LiveFolders => loose')
  BY DEF Restore, HalfDone, Actor
<1>2. stat \in [Item -> {"unborn", "live", "trash", "gone"}] /\ parent \in [Item -> Folder \cup {Root}] /\ Folder \subseteq Item
  BY Types DEF IInv, Item
<1>3. \A x \in Item : /\ stat'[x] = stat[x] \/ (x = i /\ stat'[x] = "live")
                      /\ stat'[x] = "unborn" <=> stat[x] = "unborn"
                      /\ stat[x] = "live" => stat'[x] = "live"
  BY <1>1, <1>2 DEF Exists
<1>4. BornOK' /\ (NoCycle(parent) => NoCycle(parent)')
  BY <1>1, <1>2, <1>3 DEF IInv, Safe, BornOK, NoCycle
<1>5. ASSUME AllListed, ~loose' PROVE AllListed'
  <2>1. LiveFolders \subseteq LiveFolders'
    BY <1>2, <1>3 DEF LiveFolders
  <2> QED BY <1>1, <1>3, <1>5, <2>1 DEF AllListed
<1> QED BY <1>1, <1>4, <1>5, ClearTree, WroteLast, NoJobIn

\* A move under a folder that is not below the one that moves closes no cycle.
LEMMA MovedAside ==
    ASSUME IInv, NEW i \in Folder, NEW to \in Folder, Aside(i, to), stat[to] = "live",
           NoCycle(parent), AllListed, parent' = [parent EXCEPT ![i] = to]
    PROVE  NoCycle(parent)'
<1> SUFFICES ASSUME NEW T \in SUBSET Folder, T # {}, \A x \in T : parent'[x] \in T
             PROVE  FALSE
  BY DEF NoCycle
<1>1. PICK D \in SUBSET Folder : i \in D /\ to \notin D /\ Closed(D)
  BY DEF Aside
<1>2. /\ parent'[i] = to /\ \A x \in Folder \ {i} : parent'[x] = parent[x]
      /\ Folder \subseteq Item /\ Root \notin Folder
  BY Types, Ids DEF IInv, Item
<1>3. CASE i \notin T
  BY <1>2, <1>3 DEF NoCycle
<1>4. CASE i \in T
  <2> DEFINE L == {x \in T : stat[x] = "live" /\ x \notin D}
  <2>1. to \in L
    BY <1>1, <1>2, <1>4
  <2>2. PICK x \in L : parent[x] \notin L
    <3>1. L \in SUBSET Folder /\ L # {}
      BY <2>1
    <3> HIDE DEF L
    <3> QED BY <3>1 DEF NoCycle
  <2>3. parent[x] \in T /\ x \in Folder
    BY <1>1, <1>2
  <2>4. stat[parent[x]] = "live"
    BY <1>2, <2>3 DEF AllListed, LiveFolders
  <2>5. parent[x] \in D
    BY <2>2, <2>3, <2>4
  <2>6. x \in D
    BY <1>1, <2>3, <2>5 DEF Closed
  <2> QED BY <2>6
<1> QED BY <1>3, <1>4

LEMMA PlaceSafe ==
    ASSUME IInv, NEW p \in Proc, Place(p)
    PROVE  Safe'
<1> DEFINE i == job[p].it  to == job[p].to
<1>1. /\ pc[p] = "place" /\ ~HalfDone(p) /\ p \in Actor
      /\ UNCHANGED <<stat, since, mine, today, loose, misread>>
  BY DEF Place, HalfDone, Actor, Quiet, policyVars, sweepVars
<1>2. i \in Item /\ to \in Folder \cup {Root}
  BY <1>1, Types DEF IInv, Typed, TypedAt, Fit, Tasks, Jobs
<1>3. CASE Exists(i) /\ to \in KeptFolders
  <2>1. parent' = [parent EXCEPT ![i] = to] /\ Wrote(p, "idle", NoJob)
    BY <1>3 DEF Place
  <2> HIDE DEF i, to
  <2>2. /\ parent'[i] = to /\ \A x \in Item \ {i} : parent'[x] = parent[x]
        /\ Folder \subseteq Item /\ Root \notin Item
    BY <1>2, <2>1, Types, Ids DEF IInv, Item
  <2>3. BornOK'
    <3> SUFFICES ASSUME NEW x \in Item, parent'[x] # Root PROVE stat[parent'[x]] # "unborn"
      BY <1>1 DEF BornOK
    <3> QED BY <1>3, <2>2 DEF IInv, Safe, BornOK, KeptFolders, Exists
  <2>4. ASSUME Clear(p) PROVE NoCycle(parent)' /\ AllListed'
    <3>1. NoCycle(parent) /\ AllListed
      BY <1>1, <2>4, ClearTree
    <3>2. /\ i \in Folder /\ to # Root => Aside(i, to) \/ parent[i] = to
          /\ to \in LiveFolders
      BY <1>1, <2>4 DEF IInv, Safe, WatchAt, Watch, Moving, i, to
    <3>3. AllListed'
      BY <1>1, <2>2, <3>1, <3>2 DEF AllListed, LiveFolders
    <3>4. CASE i \notin Folder
      BY <2>2, <3>1, <3>3, <3>4 DEF NoCycle
    <3>5. CASE to = Root
      <4> SUFFICES ASSUME NEW T \in SUBSET Folder, T # {} PROVE \E x \in T : parent'[x] \notin T
        BY <3>3 DEF NoCycle
      <4>1. CASE i \in T
        BY <2>2, <3>5, <4>1
      <4>2. CASE i \notin T
        BY <2>2, <3>1, <4>2 DEF NoCycle
      <4> QED BY <4>1, <4>2
    <3>6. CASE parent[i] = to
      BY <2>2, <3>1, <3>3, <3>6 DEF NoCycle
    <3>7. CASE i \in Folder /\ to # Root /\ Aside(i, to)
      <4>1. to \in Folder /\ stat[to] = "live"
        BY <1>2, <3>2, <3>7 DEF LiveFolders
      <4> QED BY <2>1, <3>1, <3>3, <3>7, <4>1, MovedAside
    <3> QED BY <3>2, <3>4, <3>5, <3>6, <3>7
  <2> QED BY <1>1, <2>1, <2>3, <2>4, WroteLast, NoJobIn
<1>4. CASE ~(Exists(i) /\ to \in KeptFolders)
  <2>1. Read(p, "idle", NoJob) /\ UNCHANGED parent
    BY <1>4 DEF Place
  <2> QED BY <1>1, <2>1, ReadKeeps, NoJobIn DEF Label
<1> QED BY <1>3, <1>4

LEMMA DeleteRowSafe ==
    ASSUME IInv, NEW p \in Actor, DeleteRow(p)
    PROVE  Safe'
<1> DEFINE i == job[p].it
<1>1. /\ pc[p] = "remove" /\ ~HalfDone(p) /\ job[p] \in Jobs /\ i \in Item
      /\ UNCHANGED <<parent, mine, today, loose, misread>>
      /\ NextRow(p) \in {"idle", "rows"}
  BY Types DEF DeleteRow, HalfDone, Quiet, policyVars, sweepVars, IInv, Typed, TypedAt, Fit, Tasks, NextRow
<1>2. ASSUME UNCHANGED <<stat, since>>, NEW l \in {"idle", "rows"}, Read(p, l, job[p])
      PROVE  Safe'
  <2>1. Watch(l, job[p]) /\ Doomed(p, l, job[p]) /\ l \in Label
    BY DEF Watch, Walking, Marking, Moving, Doomed, Label
  <2> QED BY <1>1, <1>2, <2>1, ReadKeeps
<1>3. CASE Below(i) # {}
  <2>1. UNCHANGED <<stat, since>> /\ Read(p, "idle", NoJob)
    BY <1>3 DEF DeleteRow
  <2> QED BY <1>1, <2>1, ReadKeeps, NoJobIn DEF Label
<1>4. CASE Below(i) = {} /\ ~Exists(i)
  BY <1>1, <1>2, <1>4 DEF DeleteRow
<1>5. CASE Below(i) = {} /\ Exists(i)
  <2>1. stat' = [stat EXCEPT ![i] = "gone"] /\ Wrote(p, NextRow(p), job[p])
    BY <1>5 DEF DeleteRow
  <2> HIDE DEF i
  <2>2. stat'[i] = "gone" /\ \A x \in Item \ {i} : stat'[x] = stat[x]
    BY <1>1, <2>1, Types DEF IInv
  <2>3. BornOK'
    BY <1>1, <2>1, <2>2, Types DEF IInv, Safe, BornOK, Item
  <2>4. ASSUME NoCycle(parent), AllListed PROVE NoCycle(parent)' /\ AllListed'
    <3>1. NoCycle(parent)'
      BY <1>1, <2>4 DEF NoCycle
    <3>2. ASSUME NEW x \in Item, stat'[x] = "live" PROVE parent'[x] \in LiveFolders'
      <4>1. stat[x] = "live" /\ parent'[x] = parent[x] /\ parent[x] \in LiveFolders
        BY <1>1, <2>2, <2>4, <3>2 DEF AllListed
      <4>2. parent[x] # i
        BY <1>5, <4>1 DEF Below, Exists
      <4> QED BY <2>2, <4>1, <4>2 DEF LiveFolders, Item
    <3> QED BY <3>1, <3>2 DEF AllListed
  <2> QED BY <1>1, <2>1, <2>3, <2>4, ClearTree, WroteLast
<1> QED BY <1>3, <1>4, <1>5

LEMMA MarkSafe ==
    ASSUME IInv, NEW p \in Proc, Mark(p)
    PROVE  Safe'
<1> DEFINE j == job[p]  f == j.found[j.next]
<1>1. /\ pc[p] = "mark" /\ Trashed({f}, j.day) /\ Wrote(p, "files", j) /\ UNCHANGED loose
      /\ p \in Actor /\ j \in Jobs
  BY Types DEF Mark, Actor, IInv, Tasks
<1>2. j.found \in Seq(Folder) /\ j.next \in 1 .. Len(j.found)
  BY <1>1 DEF IInv, Typed, TypedAt, Fit
<1>3. f \in Folder /\ f \in ToSet(j.found) /\ Folder \subseteq Item
  <2> HIDE DEF j
  <2> QED BY <1>2 DEF ToSet, Item
<1>4. /\ parent' = parent
      /\ \A x \in Item : stat'[x] = "live" <=> stat[x] = "live" /\ x # f
      /\ BornOK' /\ (NoCycle(parent) => NoCycle(parent)')
  BY <1>1, TrashedIs
<1>5. Alarms(p) /\ pc'[p] = "files" /\ job'[p] = j
  BY <1>1, WroteAlarms DEF Label
<1>6. TreeOK'
  <2>1. Excused => Excused'
    BY <1>5 DEF Alarms, Excused
  <2> QED BY <1>4, <2>1 DEF IInv, Safe, TreeOK
<1>7. LiveIsListed'
  BY <1>5 DEF LiveIsListed, HalfDone
<1>8. ASSUME Clear(p)' PROVE Marking("files", j)'
  <2>1. Clear(p)
    <3>1. ~Excused'
      BY <1>8 DEF Clear
    <3> QED BY <1>1, <1>5, <3>1, WriterIsClear
  <2>2. Marking("mark", j)
    BY <1>1, <2>1 DEF IInv, Safe, WatchAt, Watch
  <2>3. /\ Closed(ToSet(j.found))
        /\ \A i \in Item : stat[i] = "live" => parent[i] \in LiveFolders \cup ToSet(j.found)
        /\ \A k \in 1 .. j.next - 1 : Emptied(j.found[k])
    BY <2>2 DEF Marking
  <2>4. j' = j
    BY <1>5
  <2> HIDE DEF j, f
  <2>5. Closed(ToSet(j.found))'
    BY <1>3, <1>4, <2>3, <2>4 DEF Closed
  <2>6. \A i \in Item : stat'[i] = "live" => parent'[i] \in LiveFolders' \cup ToSet(j.found)
    BY <1>3, <1>4, <2>3 DEF LiveFolders
  <2>7. \A k \in 1 .. j.next - 1 : Emptied(j.found[k])'
    <3> SUFFICES ASSUME NEW k \in 1 .. j.next - 1 PROVE Emptied(j.found[k])'
      OBVIOUS
    <3>1. j.found[k] \in Item /\ Emptied(j.found[k])
      <4>1. k \in 1 .. Len(j.found)
        BY <1>2
      <4> QED BY <1>2, <1>3, <2>3, <4>1
    <3> QED BY <1>4, <2>4, <3>1 DEF Emptied, FilesIn, Item
  <2>8. stat'[j.found[j.next]] # "live"
    BY <1>3, <1>4 DEF f
  <2> QED BY <2>4, <2>5, <2>6, <2>7, <2>8 DEF Marking
<1>9. WatchAt(p)' /\ DoomAt(p)'
  <2>1. j' = j
    BY <1>5
  <2> QED BY <1>5, <1>8, <2>1 DEF WatchAt, Watch, Walking, Moving, Marking, DoomAt, Doomed
<1> QED BY <1>1, <1>4, <1>5, <1>6, <1>7, <1>9, WriterKeeps

\* The files of one folder go, and with the last folder the deletion is over.
LEMMA MarkFilesSafe ==
    ASSUME IInv, NEW p \in Proc, NEW j \in Jobs, j = job[p], MarkFiles(p)
    PROVE  Safe'
<1> DEFINE f == j.found[j.next]
           last == j.next = Len(j.found)
           k == [j EXCEPT !.next = @ + 1]
<1>1. /\ pc[p] = "files" /\ Trashed(FilesIn(f), j.day) /\ UNCHANGED loose /\ p \in Actor
      /\ (last => Wrote(p, "idle", NoJob)) /\ (~last => Wrote(p, "mark", k))
  BY DEF MarkFiles, Actor
<1>2. j.found \in Seq(Folder) /\ j.next \in 1 .. Len(j.found)
  BY <1>1 DEF IInv, Typed, TypedAt, Fit
<1>3. k \in Jobs /\ k.found = j.found /\ k.next = j.next + 1
  BY DEF Jobs
<1>4. /\ Folder \subseteq Item /\ Root \notin Item /\ Item = Folder \cup File
      /\ \A x \in Item : x \in FilesIn(f) <=> x \notin Folder /\ parent[x] = f
  BY Ids DEF FilesIn, Item
<1> HIDE DEF f, k
<1>5. /\ parent' = parent
      /\ \A x \in Item : stat'[x] = "live" <=> stat[x] = "live" /\ ~(x \notin Folder /\ parent[x] = f)
      /\ BornOK' /\ (NoCycle(parent) => NoCycle(parent)')
  BY <1>1, <1>4, TrashedIs
<1>6. Alarms(p) /\ pc'[p] = (IF last THEN "idle" ELSE "mark") /\ (~last => job'[p] = k)
  BY <1>1, <1>3, WroteAlarms, NoJobIn DEF Label
<1>7. LiveFolders' = LiveFolders
  BY <1>4, <1>5 DEF LiveFolders
<1>8. TreeOK'
  <2>1. Excused => Excused'
    BY <1>6 DEF Alarms, Excused
  <2> QED BY <1>5, <2>1 DEF IInv, Safe, TreeOK
<1>9. ASSUME Clear(p)
      PROVE  /\ Closed(ToSet(j.found))
             /\ \A i \in Item : stat[i] = "live" => parent[i] \in LiveFolders \cup ToSet(j.found)
             /\ \A n \in 1 .. j.next - 1 : Emptied(j.found[n])
             /\ stat[f] # "live"
  BY <1>1, <1>9 DEF IInv, Safe, WatchAt, Watch, Marking, f
<1>10. ASSUME NEW n \in 1 .. j.next, Clear(p) PROVE Emptied(j.found[n])'
  <2>1. j.found[n] \in Folder
    BY <1>2
  <2>2. stat[j.found[n]] # "live"
    <3>1. CASE n = j.next
      BY <1>9, <1>10, <3>1 DEF f
    <3>2. CASE n # j.next
      <4>1. n \in 1 .. j.next - 1
        BY <1>2, <3>2
      <4> QED BY <1>9, <1>10, <4>1 DEF Emptied
    <3> QED BY <3>1, <3>2
  <2>3. ASSUME NEW x \in File, parent[x] = j.found[n] PROVE stat'[x] # "live"
    <3>1. CASE n = j.next
      BY <1>4, <1>5, <2>3, <3>1, Ids DEF f
    <3>2. CASE n # j.next
      <4>1. n \in 1 .. j.next - 1
        BY <1>2, <3>2
      <4>2. stat[x] # "live"
        BY <1>9, <1>10, <2>3, <4>1 DEF Emptied, FilesIn
      <4> QED BY <1>4, <1>5, <4>2
    <3> QED BY <3>1, <3>2
  <2> QED BY <1>4, <1>5, <2>1, <2>2, <2>3 DEF Emptied, FilesIn
<1>11. CASE last
  <2>1. ASSUME ~Excused' PROVE AllListed'
    <3>1. Clear(p)
      BY <1>1, <1>6, <2>1, WriterIsClear
    <3> SUFFICES ASSUME NEW x \in Item, stat'[x] = "live" PROVE parent[x] \in LiveFolders
      BY <1>5, <1>7 DEF AllListed
    <3>2. stat[x] = "live"
      BY <1>5
    <3>3. ASSUME NEW y \in ToSet(j.found) PROVE Emptied(y)'
      <4>1. PICK n \in 1 .. Len(j.found) : y = j.found[n]
        BY <1>2 DEF ToSet
      <4> QED BY <1>10, <1>11, <3>1, <4>1
    <3>4. ASSUME parent[x] \in ToSet(j.found) PROVE FALSE
      <4>1. CASE x \in Folder
        <5>1. x \in ToSet(j.found)
          BY <1>9, <3>1, <3>2, <3>4, <4>1 DEF Closed
        <5> QED BY <3>3, <5>1 DEF Emptied
      <4>2. CASE x \notin Folder
        <5>1. x \in File /\ parent'[x] = parent[x]
          BY <1>4, <1>5, <4>2
        <5> QED BY <3>3, <3>4, <5>1 DEF Emptied, FilesIn
      <4> QED BY <4>1, <4>2
    <3> QED BY <1>9, <3>1, <3>2, <3>4
  <2>2. LiveIsListed'
    BY <2>1 DEF LiveIsListed, AllListed
  <2>3. WatchAt(p)' /\ DoomAt(p)'
    BY <1>6, <1>11 DEF WatchAt, Watch, Walking, Moving, Marking, DoomAt, Doomed
  <2> QED BY <1>1, <1>5, <1>6, <1>8, <2>2, <2>3, WriterKeeps
<1>12. CASE ~last
  <2>1. pc'[p] = "mark" /\ job'[p] = k
    BY <1>6, <1>12
  <2>2. LiveIsListed'
    BY <2>1 DEF LiveIsListed, HalfDone
  <2>3. ASSUME Clear(p)' PROVE Marking("mark", k)'
    <3>1. Clear(p)
      <4>1. ~Excused'
        BY <2>3 DEF Clear
      <4> QED BY <1>1, <1>6, <4>1, WriterIsClear
    <3>2. Closed(ToSet(j.found))'
      BY <1>4, <1>5, <1>9, <3>1 DEF Closed
    <3>3. \A i \in Item : stat'[i] = "live" => parent'[i] \in LiveFolders' \cup ToSet(j.found)
      BY <1>5, <1>7, <1>9, <3>1
    <3>4. \A n \in 1 .. j.next : Emptied(j.found[n])'
      BY <1>10, <3>1
    <3>5. k.next - 1 = j.next
      BY <1>2, <1>3
    <3> QED BY <1>3, <3>2, <3>3, <3>4, <3>5 DEF Marking
  <2>4. WatchAt(p)' /\ DoomAt(p)'
    BY <2>1, <2>3 DEF WatchAt, Watch, Walking, Moving, Marking, DoomAt, Doomed
  <2> QED BY <1>1, <1>5, <1>6, <1>8, <2>2, <2>4, WriterKeeps
<1> QED BY <1>11, <1>12

LEMMA AddSafe ==
    ASSUME IInv, NEW p \in Proc, Insert(p) \/ \E to \in Folder \cup {Root} : UploadInto(p, to)
    PROVE  Safe'
<1> p \in Actor /\ ~HalfDone(p) /\ Folder \in SUBSET Item /\ File \in SUBSET Item
  BY DEF Actor, Item, HalfDone, Insert, UploadInto
<1>1. CASE \E to \in Folder \cup {Root} : UploadInto(p, to)
  BY <1>1, NewRowSafe DEF UploadInto
<1>2. CASE Insert(p)
  <2>1. job[p].to \in Folder \cup {Root}
    BY Types DEF IInv, Tasks, Jobs
  <2>2. CASE Fits(Folder, job[p].to)
    BY <1>2, <2>1, <2>2, NewRowSafe DEF Insert
  <2>3. CASE ~Fits(Folder, job[p].to)
    <3>1. Read(p, "idle", NoJob) /\ UNCHANGED <<parent, stat, since, mine, today, loose, misread>>
      BY <1>2, <2>3 DEF Insert, treeVars, Quiet, policyVars, sweepVars
    <3> QED BY <3>1, ReadKeeps, NoJobIn DEF Label
  <2> QED BY <2>2, <2>3
<1> QED BY <1>1, <1>2

LEMMA SafeStep ==
    ASSUME IInv, [Next]_vars
    PROVE  IInv'
<1>1. TypeOK' /\ Typed'
  BY TypedStep DEF IInv
<1> SUFFICES Safe'
  BY <1>1 DEF IInv
<1> Proc \subseteq Actor /\ Sweeper \in Actor /\ File \subseteq Item /\ Folder \subseteq Item
  BY DEF Actor, Item
<1>2. ASSUME NEW p \in Proc, Rest(p) \/ GraphQl(p) PROVE Safe'
  BY <1>2, BeginsSafe, PutSafe, AddSafe
     DEF Rest, GraphQl, UpdateFolder, UpdateFile, DeleteFile, GqlCreateFolder, GqlDeleteFolder,
         GqlUpdateFolder, GqlDeleteFile, GqlUpdateFile, GqlTrash, GqlPolicy
<1>3. ASSUME NEW p \in Proc, Handler(p) PROVE Safe'
  <2>1. job[p] \in Jobs
    BY Types DEF IInv, Tasks
  <2>2. MarkFiles(p) => Safe'
    BY <2>1, MarkFilesSafe
  <2> QED BY <1>3, <2>2, CollectSafe, LookSafe, AddSafe, MarkSafe, DropSafe, PlaceSafe, RestoreSafe, DeleteRowSafe
          DEF Handler
<1>4. CASE Sweep
  BY <1>4, SweepSafe, LookSafe, DeleteRowSafe DEF Sweep
<1>5. CASE Crash \/ \E p \in Actor : Abort(p)
  <2>1. PICK P \in SUBSET Actor : Stop(P)
    BY <1>5 DEF Crash, Abort
  <2> QED BY <2>1, StopSafe
<1>6. CASE Tick
  BY <1>6, TickSafe
<1>7. CASE UNCHANGED vars
  <2>1. UNCHANGED <<parent, stat, since, mine, today, pc, job, stale, raced, loose, misread>>
    BY <1>7 DEF vars, treeVars, policyVars, sweepVars
  <2>2. BornOK' /\ TreeOK' /\ LiveIsListed'
    BY <2>1 DEF IInv, Safe, BornOK, TreeOK, Excused, NoCycle, LiveIsListed, LiveFolders, HalfDone
  <2>3. ASSUME NEW q \in Proc PROVE WatchAt(q)'
    BY <2>1 DEF IInv, Safe, WatchAt, Watch, Walking, Marking, Moving, Closed, Aside,
                Emptied, FilesIn, LiveFolders, Clear, Excused, HalfDone
  <2>4. ASSUME NEW q \in Actor PROVE DoomAt(q)'
    BY <2>1 DEF IInv, Safe, DoomAt, Doomed, Held, Past, Effective
  <2> QED BY <2>2, <2>3, <2>4 DEF Safe
<1> QED BY <1>2, <1>3, <1>4, <1>5, <1>6, <1>7 DEF Next

-----------------------------------------------------------------------------
(***************************************************************************)
(* What the sweep took for the default is what its SELECT answered.        *)
(***************************************************************************)
Known == pc[Sweeper] # "idle" => job[Sweeper].day = Default

LEMMA KnownStep ==
    ASSUME TypeOK, Typed, Known, [Next]_vars
    PROVE  Known'
<1> Tasks /\ Sweeper \in Actor /\ Sweeper \notin Proc /\ Proc \subseteq Actor /\ job[Sweeper] \in Jobs
  BY Types, FolderTreeAssumption DEF Actor, Tasks
<1>1. ASSUME UNCHANGED sweepVars, \/ pc'[Sweeper] = "idle"
                                  \/ /\ pc[Sweeper] # "idle" /\ job'[Sweeper].day = job[Sweeper].day
                                  \/ /\ pc'[Sweeper] = pc[Sweeper] /\ job'[Sweeper] = job[Sweeper]
      PROVE  Known'
  BY <1>1 DEF Known, Default, sweepVars
<1>2. ASSUME NEW p \in Proc, NEW l, NEW j, Step(p, l, j), UNCHANGED sweepVars PROVE Known'
  <2>1. pc'[Sweeper] = pc[Sweeper] /\ job'[Sweeper] = job[Sweeper]
    BY <1>2 DEF Step, Tasks
  <2> QED BY <1>1, <1>2, <2>1
<1>3. ASSUME NEW l, NEW j, Step(Sweeper, l, j), UNCHANGED sweepVars, pc[Sweeper] # "idle",
             l # "idle" => j.day = job[Sweeper].day
      PROVE  Known'
  <2>1. pc'[Sweeper] = l /\ (l # "idle" => job'[Sweeper] = j)
    BY <1>3 DEF Step, Tasks
  <2> QED BY <1>1, <1>3, <2>1
<1>4. ASSUME NEW p \in Proc, Rest(p) \/ GraphQl(p) PROVE Known'
  <2>1. ASSUME NEW l, NEW j, Begin(p, l, j) PROVE Known'
    BY <1>2, <2>1 DEF Begin, Read
  <2>2. ASSUME NEW to, UploadInto(p, to) PROVE Known'
    BY <1>2, <2>2 DEF UploadInto, Wrote
  <2>3. ASSUME NEW d, PutMine(p, d) \/ PutGlobal(p, d) PROVE Known'
    BY <1>2, <2>3 DEF PutMine, PutGlobal, Wrote
  <2>4. \/ \E l, j : Begin(p, l, j)
        \/ \E to : UploadInto(p, to)
        \/ \E d : PutMine(p, d) \/ PutGlobal(p, d)
    BY <1>4 DEF Rest, GraphQl, UpdateFolder, UpdateFile, DeleteFile, GqlCreateFolder, GqlDeleteFolder,
                GqlUpdateFolder, GqlDeleteFile, GqlUpdateFile, GqlTrash, GqlPolicy, BeginCreate, BeginMove,
                BeginMoveFile, BeginRename, BeginDelete, BeginDrop, BeginRestore, BeginPurge
  <2> QED BY <2>1, <2>2, <2>3, <2>4
<1>5. ASSUME NEW p \in Proc, Handler(p) PROVE Known'
  <2>1. UNCHANGED sweepVars
    BY <1>5 DEF Handler, Insert, Collect, Mark, MarkFiles, Drop, Target, Place, Restore, Count, DeleteRow, Quiet
  <2>2. \E l, j : Step(p, l, j)
    BY <1>5 DEF Handler, Insert, Collect, Mark, MarkFiles, Drop, Target, Place, Restore, Count, DeleteRow,
                Read, Wrote
  <2> QED BY <1>2, <2>1, <2>2
<1>6. CASE Count(Sweeper) \/ DeleteRow(Sweeper)
  <2>1. UNCHANGED sweepVars /\ pc[Sweeper] # "idle"
    BY <1>6 DEF Count, DeleteRow, Quiet
  <2>2. \/ \E l : Step(Sweeper, l, job[Sweeper])
        \/ Step(Sweeper, "idle", NoJob)
    BY <1>6 DEF Count, DeleteRow, Read, Wrote
  <2> QED BY <1>3, <2>1, <2>2
<1>7. CASE SweepFiles
  <2> DEFINE rows == Rows(File, "trash")
             k == [job[Sweeper] EXCEPT !.found = rows, !.next = 1, !.then = "idle"]
  <2>1. UNCHANGED sweepVars /\ pc[Sweeper] # "idle" /\ Step(Sweeper, "rows", k)
    BY <1>7 DEF SweepFiles, Read, Quiet
  <2>2. k.day = job[Sweeper].day
    <3> HIDE DEF rows
    <3> QED BY DEF Jobs
  <2> HIDE DEF k
  <2> QED BY <1>3, <2>1, <2>2
<1>8. CASE SweepEnd
  <2>1. UNCHANGED sweepVars /\ pc[Sweeper] # "idle" /\ Step(Sweeper, "idle", NoJob)
    BY <1>8 DEF SweepEnd, Read, Quiet
  <2> QED BY <1>3, <2>1
<1>9. CASE SweepStart
  <2>1. PICK lost \in BOOLEAN :
           /\ Read(Sweeper, "rows", [NoJob EXCEPT !.day = IF lost THEN DefaultKeep ELSE GlobalDefault,
                                                  !.found = Rows(Folder, "trash"), !.then = "files"])
           /\ misread' = IF lost THEN {"default"} ELSE {}
    BY <1>9 DEF SweepStart
  <2> DEFINE keep == IF lost THEN DefaultKeep ELSE GlobalDefault
             rows == Rows(Folder, "trash")
             k == [NoJob EXCEPT !.day = keep, !.found = rows, !.then = "files"]
  <2>2. k.day = keep
    <3> HIDE DEF rows, keep
    <3> QED BY NoJobIn DEF Jobs
  <2>3. job'[Sweeper] = k
    BY <2>1 DEF Read, Step, Tasks
  <2>4. Default' = keep
    BY <1>9, <2>1 DEF SweepStart, Default
  <2> HIDE DEF k, keep
  <2> QED BY <2>2, <2>3, <2>4 DEF Known
<1>10. CASE SweepRow
  <2> DEFINE i == job[Sweeper].found[job[Sweeper].next]
  <2>1. PICK l \in {"rows", "count", "remove"} :
           Step(Sweeper, l, [job[Sweeper] EXCEPT !.it = i, !.next = @ + 1])
    BY <1>10 DEF SweepRow
  <2> DEFINE k == [job[Sweeper] EXCEPT !.it = i, !.next = @ + 1]
  <2>2. k.day = job[Sweeper].day
    BY DEF Jobs
  <2>3. job'[Sweeper] = k /\ pc[Sweeper] # "idle"
    BY <1>10, <2>1 DEF Step, Tasks, SweepRow
  <2>4. Default' = Default
    BY <1>10 DEF SweepRow, Default
  <2> HIDE DEF k
  <2> QED BY <2>2, <2>3, <2>4 DEF Known
<1>11. CASE Crash \/ \E p \in Actor : Abort(p)
  <2>1. PICK P : Stop(P)
    BY <1>11 DEF Crash, Abort
  <2>2. \/ pc'[Sweeper] = "idle"
        \/ pc'[Sweeper] = pc[Sweeper] /\ job'[Sweeper] = job[Sweeper]
    BY <2>1 DEF Stop
  <2> QED BY <1>1, <2>1, <2>2 DEF Stop
<1>12. CASE Tick \/ UNCHANGED vars
  BY <1>1, <1>12 DEF Tick, vars
<1> QED BY <1>4, <1>5, <1>6, <1>7, <1>8, <1>9, <1>10, <1>11, <1>12 DEF Next, Sweep

-----------------------------------------------------------------------------
(***************************************************************************)
(* Where a walk up the tree ends.                                          *)
(***************************************************************************)
\* Induction, for a set: what is true of 0 and kept by every step is true of all.
LEMMA Induct ==
    ASSUME NEW S \in SUBSET Nat, 0 \in S, \A n \in S : n + 1 \in S
    PROVE  S = Nat
<1> SUFFICES ASSUME Nat \ S # {} PROVE FALSE
  OBVIOUS
<1> DEFINE m == Min(Nat \ S)
<1>1. m \in Nat \ S /\ \A y \in Nat \ S : m =< y
  BY MinIn
<1> HIDE DEF m
<1>2. m - 1 \in Nat
  BY <1>1
<1>3. m - 1 \in S
  BY <1>1, <1>2
<1> QED BY <1>1, <1>3

\* The steps that lead up from i, g saying what lies above each place.
Way(X, g, i, N) == \E u \in [0 .. N -> X] : \A n \in 0 .. N : u[n] = IF n = 0 THEN i ELSE g[u[n - 1]]
LEMMA WayExists ==
    ASSUME NEW X, NEW g \in [X -> X], NEW i \in X
    PROVE  \A N \in Nat : Way(X, g, i, N)
<1> DEFINE S == {N \in Nat : Way(X, g, i, N)}
<1>1. 0 \in S
  <2> DEFINE u == [n \in 0 .. 0 |-> i]
  <2>1. u \in [0 .. 0 -> X] /\ \A n \in 0 .. 0 : u[n] = IF n = 0 THEN i ELSE g[u[n - 1]]
    OBVIOUS
  <2> QED BY <2>1 DEF Way
<1>2. ASSUME NEW N \in S PROVE N + 1 \in S
  <2>1. PICK u \in [0 .. N -> X] : \A n \in 0 .. N : u[n] = IF n = 0 THEN i ELSE g[u[n - 1]]
    BY <1>2 DEF Way
  <2> DEFINE v == [n \in 0 .. N + 1 |-> IF n = N + 1 THEN g[u[N]] ELSE u[n]]
  <2>2. N \in Nat /\ v \in [0 .. N + 1 -> X]
    OBVIOUS
  <2>3. ASSUME NEW n \in 0 .. N + 1 PROVE v[n] = IF n = 0 THEN i ELSE g[v[n - 1]]
    <3>1. CASE n = N + 1
      <4>1. v[n] = g[u[N]] /\ v[n - 1] = u[N] /\ n # 0
        BY <2>2, <3>1
      <4> QED BY <4>1
    <3>2. CASE n # N + 1
      <4>1. n \in 0 .. N /\ v[n] = u[n] /\ (n # 0 => v[n - 1] = u[n - 1])
        BY <2>2, <3>2
      <4> HIDE DEF v
      <4> QED BY <2>1, <4>1
    <3> QED BY <3>1, <3>2
  <2> HIDE DEF v
  <2> QED BY <2>2, <2>3 DEF Way
<1>3. S = Nat
  BY <1>1, <1>2, Induct
<1> QED BY <1>3

\* No cycle: from every folder the way up ends at the root.
LEMMA NoCycleTop ==
    ASSUME NEW par \in [Item -> Folder \cup {Root}], NoCycle(par)
    PROVE  Top(par)
<1> SUFFICES ASSUME NEW i \in Folder
             PROVE  LET up[n \in 0 .. NFolders] ==
                          IF n = 0 THEN i
                          ELSE IF up[n - 1] = Root THEN Root ELSE par[up[n - 1]]
                    IN  up[NFolders] = Root
  BY DEF Top
<1> DEFINE up[n \in 0 .. NFolders] ==
             IF n = 0 THEN i ELSE IF up[n - 1] = Root THEN Root ELSE par[up[n - 1]]
           X == Folder \cup {Root}
           g == [x \in X |-> IF x = Root THEN Root ELSE par[x]]
<1>1. NFolders \in Nat /\ Folder \subseteq Item /\ Root \notin Folder /\ g \in [X -> X]
  BY FolderTreeAssumption, Ids DEF Item
<1>2. \E u \in [0 .. NFolders -> X] :
         u = [n \in 0 .. NFolders |-> IF n = 0 THEN i ELSE IF u[n - 1] = Root THEN Root ELSE par[u[n - 1]]]
  <2>1. PICK u \in [0 .. NFolders -> X] :
           \A n \in 0 .. NFolders : u[n] = IF n = 0 THEN i ELSE g[u[n - 1]]
    <3>1. i \in X
      OBVIOUS
    <3> HIDE DEF g, X
    <3>2. Way(X, g, i, NFolders)
      BY <1>1, <3>1, WayExists
    <3> QED BY <3>2 DEF Way
  <2>2. ASSUME NEW n \in 0 .. NFolders
        PROVE  u[n] = IF n = 0 THEN i ELSE IF u[n - 1] = Root THEN Root ELSE par[u[n - 1]]
    <3>1. n # 0 => u[n - 1] \in X
      BY <1>1
    <3> QED BY <2>1, <3>1
  <2> QED BY <2>2
<1>3. up = [n \in 0 .. NFolders |-> IF n = 0 THEN i ELSE IF up[n - 1] = Root THEN Root ELSE par[up[n - 1]]]
  BY <1>2
<1> HIDE DEF up
<1>4. /\ up[0] = i
      /\ \A n \in 1 .. NFolders : up[n] = IF up[n - 1] = Root THEN Root ELSE par[up[n - 1]]
  BY <1>1, <1>3
<1>5. \A n \in 0 .. NFolders : up[n] \in X
  <2> DEFINE S == {n \in Nat : n <= NFolders => up[n] \in X}
  <2>1. 0 \in S
    BY <1>4
  <2>2. ASSUME NEW n \in S PROVE n + 1 \in S
    <3> SUFFICES ASSUME n + 1 <= NFolders PROVE up[n + 1] \in X
      OBVIOUS
    <3>1. n + 1 \in 1 .. NFolders /\ up[n] \in X /\ (n + 1) - 1 = n
      BY <1>1
    <3> QED BY <1>1, <1>4, <3>1
  <2>3. S = Nat
    BY <2>1, <2>2, Induct
  <2> QED BY <1>1, <2>3
<1> SUFFICES ASSUME up[NFolders] # Root PROVE FALSE
  BY DEF up
<1>6. \A n \in 0 .. NFolders : up[n] \in Folder
  <2> DEFINE S == {m \in Nat : m <= NFolders => up[NFolders - m] # Root}
  <2>1. 0 \in S
    BY <1>1
  <2>2. ASSUME NEW m \in S PROVE m + 1 \in S
    <3> SUFFICES ASSUME m + 1 <= NFolders PROVE up[NFolders - (m + 1)] # Root
      OBVIOUS
    <3>1. NFolders - m \in 1 .. NFolders /\ (NFolders - m) - 1 = NFolders - (m + 1) /\ up[NFolders - m] # Root
      BY <1>1
    <3> QED BY <1>4, <3>1
  <2>3. S = Nat
    BY <2>1, <2>2, Induct
  <2>4. ASSUME NEW n \in 0 .. NFolders PROVE up[n] # Root
    <3>1. NFolders - n \in Nat /\ NFolders - (NFolders - n) = n /\ NFolders - n <= NFolders
      BY <1>1
    <3>2. NFolders - n \in S
      <4> HIDE DEF S
      <4> QED BY <2>3, <3>1
    <3> QED BY <3>1, <3>2
  <2> QED BY <1>5, <2>4
<1>7. PICK m \in 0 .. NFolders, n \in 0 .. NFolders : m < n /\ up[m] = up[n]
  <2> DEFINE f == [k \in 0 .. NFolders |-> up[k]]
  <2>1. f \in [0 .. NFolders -> Folder]
    BY <1>6
  <2>2. IsFiniteSet(0 .. NFolders) /\ Cardinality(0 .. NFolders) = NFolders + 1
    BY <1>1, FS_Interval
  <2>3. IsFiniteSet(Folder) /\ Cardinality(Folder) < Cardinality(0 .. NFolders)
    BY <1>1, <2>2, Ids
  <2>4. PICK x \in 0 .. NFolders, y \in 0 .. NFolders : x # y /\ f[x] = f[y]
    <3> HIDE DEF f
    <3> QED BY <2>1, <2>2, <2>3, FS_PigeonHole
  <2>5. up[x] = up[y] /\ (x < y \/ y < x)
    BY <1>1, <2>4
  <2> QED BY <2>5
<1> DEFINE C == {up[k] : k \in m .. n - 1}
<1>8. C \in SUBSET Folder /\ C # {}
  <2>1. \A k \in m .. n - 1 : k \in 0 .. NFolders
    BY <1>1
  <2>2. m \in m .. n - 1
    BY <1>7
  <2> QED BY <1>6, <2>1, <2>2
<1>9. ASSUME NEW x \in C PROVE par[x] \in C
  <2>1. PICK k \in m .. n - 1 : x = up[k]
    OBVIOUS
  <2>2. k + 1 \in 1 .. NFolders /\ (k + 1) - 1 = k /\ k \in 0 .. NFolders
    BY <1>1
  <2>3. par[x] = up[k + 1]
    BY <1>1, <1>4, <1>6, <2>1, <2>2
  <2>4. CASE k + 1 = n
    <3>1. m \in m .. n - 1
      BY <1>7
    <3> QED BY <1>7, <2>3, <2>4, <3>1
  <2>5. CASE k + 1 # n
    <3>1. k + 1 \in m .. n - 1
      BY <2>5
    <3> QED BY <2>3, <3>1
  <2> QED BY <2>4, <2>5
<1> QED BY <1>8, <1>9 DEF NoCycle

-----------------------------------------------------------------------------
(***************************************************************************)
(* The theorems.                                                           *)
(***************************************************************************)
\* The invariant holds from the start and is kept by every step.
LEMMA Invariant == Spec => []IInv
<1>1. Init => IInv
  BY SafeStart
<1>2. IInv /\ [Next]_vars => IInv'
  BY SafeStep
<1> QED BY <1>1, <1>2, PTL DEF Spec

\* What the sweep took for the default is known all along.
LEMMA KnownHolds == Spec => []Known
<1>1. Init => Known
  BY FolderTreeAssumption DEF Init, Known, Actor
<1>2. IInv /\ Known /\ [Next]_vars => Known'
  BY KnownStep DEF IInv
<1> QED BY <1>1, <1>2, Invariant, PTL DEF Spec

\* Every row and every handler's local has its type (folders.rs, trash.rs,
\* retention.rs), however many folders, files, handlers and requests there are.
THEOREM TypesHold == Spec => []TypeOK
<1>1. IInv => TypeOK
  BY DEF IInv
<1> QED BY <1>1, Invariant, PTL

\* No folder comes to lie below itself (folders.rs 386, graphql.rs 1473): the walk
\* that looks for the target has seen every live folder below the one that moves,
\* so that a cycle would have to pass through something that is not listed.
THEOREM FoldersStayATree == Spec => []AcyclicUnlessExcused
<1>1. IInv => AcyclicUnlessExcused
  BY Types, NoCycleTop DEF IInv, Safe, TreeOK, AcyclicUnlessExcused
<1> QED BY <1>1, Invariant, PTL

\* Once a deletion is over all that lay below the folder is in the trash with it
\* (folders.rs 296-330): what is live is listed in a live folder.
THEOREM LiveStaysListed == Spec => []LiveIsListed
<1>1. IInv => LiveIsListed
  BY DEF IInv, Safe
<1> QED BY <1>1, Invariant, PTL

\* Only what is in the trash, and for the sweep past its retention, is destroyed
\* (trash.rs 193-196, retention.rs 188-200), unless something was written between
\* the check and the DELETE.  The retention is the owner's, or the default of the
\* sweep's beginning; where the SELECT of one of them failed (retention.rs 69, 81),
\* what the code answers in its place.
THEOREM OnlyTrashIsDestroyed == Spec => DestroyedFromTrash
<1>1. ASSUME IInv, Known, [Next]_vars, NEW p \in Actor, NEW i \in Item, stat[i] # "gone", Destroys(p, i)
      PROVE  \/ stale[p]
             \/ stat[i] = "trash" /\ (p = Sweeper => Past(i, Kept))
  <2>1. \/ stale[p]
        \/ stat[i] = "trash" /\ (p = Sweeper => Past(i, Held(job[p])))
    BY <1>1 DEF Destroys, IInv, Safe, DoomAt, Doomed
  <2>2. p = Sweeper => Held(job[p]) = Kept
    BY <1>1 DEF Destroys, Known, Held, Kept
  <2> QED BY <2>1, <2>2
<1>2. IInv /\ Known /\ [Next]_vars =>
        [\A p \in Actor, i \in Item :
           stat[i] # "gone" /\ Destroys(p, i) =>
              \/ stale[p]
              \/ stat[i] = "trash" /\ (p = Sweeper => Past(i, Kept))]_vars
  BY <1>1
<1> QED BY <1>2, Invariant, KnownHolds, PTL DEF Spec, DestroyedFromTrash
=============================================================================
