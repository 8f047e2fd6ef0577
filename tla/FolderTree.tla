----------------------------- MODULE FolderTree -----------------------------
(***************************************************************************)
(* The tree of folders and files: creation, moves, renames, deletion with  *)
(* its cascade, the trash and the hourly retention sweep (folders.rs,      *)
(* trash.rs, retention.rs, and their GraphQL counterparts).                *)
(*                                                                         *)
(* One action is one statement of a handler, or a run of SELECTs that only *)
(* the last one's effect depends on.  Rows of both tables are numbered in  *)
(* the order of their ids: folders first, files after them.  What decides  *)
(* who may do it is left out (see Access), so is the name of an item: a    *)
(* name that is taken refuses a move, which is then not started.           *)
(***************************************************************************)
EXTENDS Integers, Sequences, SequencesExt, FiniteSetsExt

CONSTANTS
    NFolders, NFiles,
    Proc, Sweeper,   \* handlers, and the retention task of main.rs
    Keeps,           \* retention periods, in days, that may be set
    DefaultKeep,     \* DEFAULT_RETENTION_DAYS
    Unset,
    MaxOps,          \* bound on requests
    MaxDay,          \* bound on days
    MaxFaults        \* bound on handlers that stop half-way, and restarts

Root   == 0
Folder == 1 .. NFolders
File   == NFolders + 1 .. NFolders + NFiles
Item   == Folder \cup File
Actor  == Proc \cup {Sweeper}

ASSUME FolderTreeAssumption ==
    /\ NFolders \in Nat /\ NFiles \in Nat /\ Sweeper \notin Proc
    /\ DefaultKeep \in Nat /\ Keeps \subseteq Nat /\ Unset \notin Nat
    /\ MaxOps \in Nat /\ MaxDay \in Nat /\ MaxFaults \in Nat

VARIABLES
    parent, stat, since,   \* parent_id or folder_id; deleted_at: whether, and its day
    mine, global,          \* retention_policy: the owner's row, the rows of nobody
    today,
    pc, job,               \* per actor: its next step and its locals
    ops, faults,
    (***** history, never read by the code *****)
    stale,    \* actors that somebody has written behind since they looked
    raced,    \* such an actor has written, or one beside a half-done deletion
    loose,    \* something live was left under a trashed folder by one request
    asked,    \* the default retention there was when the sweep began
    misread   \* which retentions the sweep could not read: the "default", the "own"

treeVars   == <<parent, stat, since>>
policyVars == <<mine, global>>
bounds     == <<ops, faults>>
sweepVars  == <<asked, misread>>
vars == <<treeVars, policyVars, today, pc, job, bounds, stale, raced, loose, sweepVars>>

NoJob == [it |-> 0, to |-> 0, found |-> <<>>, next |-> 1, day |-> 0, then |-> "idle"]

\* A walk longer than this meets folders again: it stands for one that never ends.
MaxWalk == 2 * NFolders

TypeOK ==
    /\ parent \in [Item -> Folder \cup {Root}]
    /\ stat \in [Item -> {"unborn", "live", "trash", "gone"}]
    /\ since \in [Item -> 0 .. MaxDay]
    /\ mine \in Keeps \cup {Unset} /\ global \in Seq(Keeps)
    /\ today \in 0 .. MaxDay
    /\ pc \in [Actor -> {"idle", "insert", "collect", "mark", "files", "drop",
                         "target", "place", "restore", "count", "remove",
                         "rows", "spins"}]
    /\ job \in [Actor -> [it : Item \cup {0}, to : Folder \cup {Root},
                          found : Seq(Item), next : Nat, day : Nat,
                          then : {"idle", "mark", "target", "files"}]]
    /\ ops \in 0 .. MaxOps /\ faults \in 0 .. MaxFaults
    /\ stale \in [Actor -> BOOLEAN] /\ raced \in BOOLEAN /\ loose \in BOOLEAN
    /\ asked \in Nat /\ misread \subseteq {"default", "own"}

Exists(i) == stat[i] \in {"live", "trash"}
LiveFolders == {Root} \cup {f \in Folder : stat[f] = "live"}
KeptFolders == {Root} \cup {f \in Folder : Exists(f)}

\* The rows a SELECT returns come in the order of their ids.
Rows(S, s) ==
    LET T == {i \in S : stat[i] = s}
        Rank(i) == 1 + Cardinality({j \in T : j < i})
    IN  [k \in 1 .. Cardinality(T) |-> CHOOSE i \in T : Rank(i) = k]

\* fetch_contents: what the listing of a folder shows.
Listing(f) == {i \in Item : parent[i] = f /\ stat[i] = "live"}
\* What the foreign keys count.
Below(f) == {i \in Item : parent[i] = f /\ Exists(i)}

HalfDone(p) == pc[p] \in {"mark", "files"}   \* delete_folder, between its UPDATEs

\* The statements of an actor that reads, and of one that writes.
Step(p, l, j) ==
    /\ pc' = [pc EXCEPT ![p] = l]
    /\ job' = [job EXCEPT ![p] = IF l = "idle" THEN NoJob ELSE j]
Read(p, l, j) ==
    /\ Step(p, l, j)
    /\ stale' = [stale EXCEPT ![p] = @ /\ l # "idle"]
    /\ UNCHANGED raced
Wrote(p, l, j) ==
    /\ Step(p, l, j)
    /\ stale' = [q \in Actor |-> IF q = p THEN stale[q] /\ l # "idle"
                                          ELSE pc[q] # "idle"]
    /\ raced' = (raced \/ stale[p] \/ \E q \in Proc \ {p} : HalfDone(q))

\* A request comes in; l is the step that follows its first checks.
Begin(p, l, j) ==
    /\ pc[p] = "idle" /\ ops < MaxOps
    /\ ops' = ops + 1
    /\ Read(p, l, j)
    /\ UNCHANGED <<treeVars, policyVars, today, faults, loose, sweepVars>>

Quiet == UNCHANGED <<policyVars, today, bounds, sweepVars>>

\* Every folder lies below the root, however deep: there is no cycle.
Top(par) ==
    \A i \in Folder :
        LET up[n \in 0 .. NFolders] ==
                IF n = 0 THEN i
                ELSE IF up[n - 1] = Root THEN Root ELSE par[up[n - 1]]
        IN  up[NFolders] = Root

\* Any tree that creations alone can have built: a folder is older than its content.
Init ==
    /\ \E nd \in 0 .. NFolders, nf \in 0 .. NFiles :
         LET born == 1 .. nd \cup NFolders + 1 .. NFolders + nf
         IN  /\ stat = [i \in Item |-> IF i \in born THEN "live" ELSE "unborn"]
             /\ parent \in [Item -> 0 .. nd]
             /\ \A i \in Item \ born : parent[i] = Root
    /\ \A i \in Folder : parent[i] < i
    /\ since = [i \in Item |-> 0]
    /\ mine = Unset /\ global = <<>>
    /\ today = 0
    /\ pc = [p \in Actor |-> "idle"] /\ job = [p \in Actor |-> NoJob]
    /\ ops = 0 /\ faults = 0
    /\ stale = [p \in Actor |-> FALSE] /\ raced = FALSE /\ loose = FALSE
    /\ asked = DefaultKeep /\ misread = {}

-----------------------------------------------------------------------------
(***************************************************************************)
(* Creation.                                                               *)
(***************************************************************************)
\* create_folder: the parent is live.
BeginCreate(p, to) ==
    /\ to \in LiveFolders
    /\ Begin(p, "insert", [NoJob EXCEPT !.to = to])

\* The row of a new item; the foreign key wants its parent to be there.
Unborn(S)  == {i \in S : stat[i] = "unborn"}
Fits(S, to) == Unborn(S) # {} /\ to \in KeptFolders
NewRow(S, to) ==
    /\ Fits(S, to)
    /\ LET i == Min(Unborn(S))
       IN  /\ stat' = [stat EXCEPT ![i] = "live"]
           /\ parent' = [parent EXCEPT ![i] = to]
    /\ loose' = (loose \/ to \notin LiveFolders)
    /\ UNCHANGED since

\* create_folder: INSERT.
Insert(p) ==
    /\ pc[p] = "insert"
    /\ IF Fits(Folder, job[p].to)
       THEN NewRow(Folder, job[p].to) /\ Wrote(p, "idle", NoJob)
       ELSE UNCHANGED <<treeVars, loose>> /\ Read(p, "idle", NoJob)
    /\ Quiet

\* upload: the row of a new file.  Nobody looks at the folder but the foreign key.
UploadInto(p, to) ==
    /\ pc[p] = "idle" /\ ops < MaxOps
    /\ ops' = ops + 1
    /\ NewRow(File, to)
    /\ Wrote(p, "idle", NoJob)
    /\ UNCHANGED <<policyVars, today, faults, sweepVars>>

-----------------------------------------------------------------------------
(***************************************************************************)
(* Deletion.                                                               *)
(***************************************************************************)
\* Mutant: the stamp is a day ahead.
TrashedAhead(S, day) ==
    /\ stat'  = [i \in Item |-> IF i \in S /\ Exists(i) THEN "trash" ELSE stat[i]]
    /\ since' = [i \in Item |-> IF i \in S /\ Exists(i) THEN day + 1 ELSE since[i]]
    /\ UNCHANGED parent

\* UPDATE ... SET deleted_at: the stamp of a row already in the trash is renewed.
Trashed(S, day) ==
    /\ stat'  = [i \in Item |-> IF i \in S /\ Exists(i) THEN "trash" ELSE stat[i]]
    /\ since' = [i \in Item |-> IF i \in S /\ Exists(i) THEN day ELSE since[i]]
    /\ UNCHANGED parent

\* delete_folder: checks, then the walk.
BeginDelete(p, f) ==
    /\ stat[f] = "live"
    /\ Begin(p, "collect", [NoJob EXCEPT !.found = <<f>>, !.day = today, !.then = "mark"])

\* Mutant: the target is not looked for in the walk.
AfterWalkUnchecked(j, found) == j.then

\* What follows the walk: a move into what it found is refused.
AfterWalk(j, found) == IF j.then = "target" /\ j.to \in ToSet(found) THEN "idle" ELSE j.then

\* collect_with_descendants: one SELECT, the live children of one folder.
\* Nothing remembers the folders already met.
Collect(p) ==
    /\ pc[p] = "collect"
    /\ LET j     == job[p]
           found == j.found \o Rows(Listing(j.found[j.next]) \cap Folder, "live")
           ends  == j.next = Len(found)
       IN  Read(p, IF Len(found) > MaxWalk THEN "spins"
                   ELSE IF ~ends THEN "collect"
                   ELSE AfterWalk(j, found),
                [j EXCEPT !.found = IF Len(found) > MaxWalk THEN <<>>
                                    ELSE IF ends /\ j.then = "target" THEN <<>> ELSE found,
                          !.next = IF ends \/ Len(found) > MaxWalk THEN 1 ELSE @ + 1])
    /\ UNCHANGED <<treeVars, loose>> /\ Quiet

\* Mutant: the files stay.
NoFiles(f) == {}

FilesIn(f) == {i \in File : parent[i] = f}

\* delete_folder: UPDATE folders SET deleted_at, for one folder found.
Mark(p) ==
    /\ pc[p] = "mark"
    /\ Trashed({job[p].found[job[p].next]}, job[p].day)
    /\ Wrote(p, "files", job[p])
    /\ UNCHANGED loose /\ Quiet

\* delete_folder: UPDATE files SET deleted_at, for the files of that folder.
MarkFiles(p) ==
    /\ pc[p] = "files"
    /\ LET j == job[p]
       IN  /\ Trashed(FilesIn(j.found[j.next]), j.day)
           /\ IF j.next = Len(j.found) THEN Wrote(p, "idle", NoJob)
              ELSE Wrote(p, "mark", [j EXCEPT !.next = @ + 1])
    /\ UNCHANGED loose /\ Quiet

\* One row to trash, whatever it holds.
BeginDrop(p, i) ==
    /\ stat[i] = "live"
    /\ Begin(p, "drop", [NoJob EXCEPT !.it = i, !.day = today])

Drop(p) ==
    /\ pc[p] = "drop"
    /\ Trashed({job[p].it}, job[p].day)
    /\ loose' = (loose \/ (Exists(job[p].it) /\ Listing(job[p].it) # {}))
    /\ Wrote(p, "idle", NoJob)
    /\ Quiet

-----------------------------------------------------------------------------
(***************************************************************************)
(* Moves.                                                                  *)
(***************************************************************************)
\* update_folder with a parent_id, up to the walk that looks for the target.
BeginMove(p, f, to) ==
    /\ stat[f] = "live" /\ to # f
    /\ Begin(p, IF to = Root THEN "place" ELSE "collect",
             [NoJob EXCEPT !.it = f, !.to = to, !.then = "target",
                           !.found = IF to = Root THEN <<>> ELSE <<f>>])

\* update_file with a folder_id: no walk.
BeginMoveFile(p, i, to) ==
    /\ stat[i] = "live"
    /\ Begin(p, IF to = Root THEN "place" ELSE "target", [NoJob EXCEPT !.it = i, !.to = to])

\* update_folder, update_file with a name alone: the parent is read, to be written back.
BeginRename(p, i) ==
    /\ stat[i] = "live"
    /\ Begin(p, "place", [NoJob EXCEPT !.it = i, !.to = parent[i]])

\* update_folder, update_file: the target is live.
Target(p) ==
    /\ pc[p] = "target"
    /\ Read(p, IF stat[job[p].to] = "live" THEN "place" ELSE "idle", job[p])
    /\ UNCHANGED <<treeVars, loose>> /\ Quiet

\* UPDATE ... SET name, parent_id WHERE id, whatever became of the two rows.
Place(p) ==
    /\ pc[p] = "place"
    /\ LET j == job[p]
       IN  IF Exists(j.it) /\ j.to \in KeptFolders
           THEN parent' = [parent EXCEPT ![j.it] = j.to] /\ Wrote(p, "idle", NoJob)
           ELSE UNCHANGED parent /\ Read(p, "idle", NoJob)
    /\ UNCHANGED <<stat, since, loose>> /\ Quiet

-----------------------------------------------------------------------------
(***************************************************************************)
(* The trash.                                                              *)
(***************************************************************************)
\* Mutant: live rows are purged too.
BeginPurgeAny(p, i) ==
    /\ Exists(i)
    /\ Begin(p, IF i \in Folder THEN "count" ELSE "remove", [NoJob EXCEPT !.it = i])

\* restore, purge: check_owned_deleted.
BeginRestore(p, i) == stat[i] = "trash" /\ Begin(p, "restore", [NoJob EXCEPT !.it = i])
BeginPurge(p, i) ==
    /\ stat[i] = "trash"
    /\ Begin(p, IF i \in Folder THEN "count" ELSE "remove", [NoJob EXCEPT !.it = i])

\* restore: UPDATE SET deleted_at = NULL for one row, wherever it is.
Restore(p) ==
    /\ pc[p] = "restore"
    /\ LET i == job[p].it
       IN  /\ stat'  = [stat EXCEPT ![i] = IF Exists(i) THEN "live" ELSE @]
           /\ since' = [since EXCEPT ![i] = 0]
           /\ loose' = (loose \/ parent[i] \notin LiveFolders)
    /\ Wrote(p, "idle", NoJob)
    /\ UNCHANGED parent /\ Quiet

\* Mutant: a folder left alone ends the sweep.
NextRowNone(p) == "idle"

\* Where the next row of the sweep, or the end of a request, is.
NextRow(p) == IF p = Sweeper THEN "rows" ELSE "idle"

\* purge_resource: count_live_children; with some, the folder is left alone.
Count(p) ==
    /\ pc[p] = "count"
    /\ Read(p, IF Listing(job[p].it) = {} THEN "remove" ELSE NextRow(p), job[p])
    /\ UNCHANGED <<treeVars, loose>> /\ Quiet

\* purge_resource: DELETE.  A row of either table that names the folder, live or
\* not, makes the foreign key refuse it; the error ends the request or the sweep.
DeleteRow(p) ==
    /\ pc[p] = "remove"
    /\ LET i == job[p].it
       IN  IF Below(i) # {} THEN UNCHANGED <<stat, since>> /\ Read(p, "idle", NoJob)
           ELSE IF ~Exists(i) THEN UNCHANGED <<stat, since>> /\ Read(p, NextRow(p), job[p])
           ELSE /\ stat'  = [stat EXCEPT ![i] = "gone"]
                /\ since' = [since EXCEPT ![i] = 0]
                /\ Wrote(p, NextRow(p), job[p])
    /\ UNCHANGED <<parent, loose>> /\ Quiet

-----------------------------------------------------------------------------
(***************************************************************************)
(* Retention.                                                              *)
(***************************************************************************)
\* Of several rows of nobody, the first is found.
GlobalDefault == IF global = <<>> THEN DefaultKeep ELSE Head(global)
Effective(default) == IF mine = Unset THEN default ELSE mine

\* deleted_at holds a 'T' where datetime() has a space: on the day of the cutoff
\* itself it compares as later, whatever the time.
Past(i, keep) == stat[i] = "trash" /\ since[i] < today - keep

\* upsert_policy.  NULL conflicts with nothing, so the row of nobody is never
\* updated: another is inserted.
PutMine(p, d) ==
    /\ pc[p] = "idle" /\ ops < MaxOps /\ ops' = ops + 1
    /\ mine' = d
    /\ Wrote(p, "idle", NoJob)
    /\ UNCHANGED <<treeVars, global, today, faults, loose, sweepVars>>
PutGlobal(p, d) ==
    /\ pc[p] = "idle" /\ ops < MaxOps /\ ops' = ops + 1
    /\ global' = Append(global, d)
    /\ Wrote(p, "idle", NoJob)
    /\ UNCHANGED <<treeVars, mine, today, faults, loose, sweepVars>>

\* A SELECT of a policy may fail, and nobody hears of it: unwrap_or(None).  Where the
\* row is not there the answer is the same, and the failure is left out.
Unheard(lost, there) ==
    /\ lost => there /\ faults < MaxFaults
    /\ faults' = IF lost THEN faults + 1 ELSE faults
    /\ UNCHANGED <<policyVars, today, ops>>

\* purge_expired_trash: the default, and the trashed folders.  A failed SELECT of the
\* default is answered DEFAULT_RETENTION_DAYS.  A sweep of an empty trash is left out:
\* it does nothing.
SweepStart ==
    /\ pc[Sweeper] = "idle" /\ \E i \in Item : stat[i] = "trash"
    /\ \E lost \in BOOLEAN :
         /\ Unheard(lost, global # <<>>)
         /\ Read(Sweeper, "rows", [NoJob EXCEPT !.day = IF lost THEN DefaultKeep ELSE GlobalDefault,
                                                !.found = Rows(Folder, "trash"), !.then = "files"])
         /\ misread' = IF lost THEN {"default"} ELSE {}
    /\ asked' = GlobalDefault
    /\ UNCHANGED <<treeVars, loose>>

\* The folders are done: the trashed files.
SweepFiles ==
    /\ pc[Sweeper] = "rows" /\ job[Sweeper].next > Len(job[Sweeper].found)
    /\ job[Sweeper].then = "files"
    /\ Read(Sweeper, "rows", [job[Sweeper] EXCEPT !.found = Rows(File, "trash"), !.next = 1,
                                                  !.then = "idle"])
    /\ UNCHANGED <<treeVars, loose>> /\ Quiet

SweepEnd ==
    /\ pc[Sweeper] = "rows" /\ job[Sweeper].next > Len(job[Sweeper].found)
    /\ job[Sweeper].then = "idle"
    /\ Read(Sweeper, "idle", NoJob)
    /\ UNCHANGED <<treeVars, loose>> /\ Quiet

\* One row: is it past the retention of its owner?  A failed SELECT of that one is
\* answered with the default.
SweepRow ==
    /\ pc[Sweeper] = "rows" /\ job[Sweeper].next <= Len(job[Sweeper].found)
    /\ LET j == job[Sweeper]
           i == j.found[j.next]
       IN  \E lost \in BOOLEAN :
             /\ Unheard(lost, mine # Unset)
             /\ Step(Sweeper, IF ~Past(i, IF lost THEN j.day ELSE Effective(j.day)) THEN "rows"
                              ELSE IF i \in Folder THEN "count" ELSE "remove",
                     [j EXCEPT !.it = i, !.next = @ + 1])
             /\ misread' = IF lost THEN misread \cup {"own"} ELSE misread \ {"own"}
    /\ stale' = [stale EXCEPT ![Sweeper] = FALSE]
    /\ UNCHANGED <<treeVars, loose, raced, asked>>

-----------------------------------------------------------------------------
Tick ==
    /\ today < MaxDay /\ today' = today + 1
    /\ UNCHANGED <<treeVars, policyVars, pc, job, bounds, stale, raced, loose, sweepVars>>

\* A statement fails, or the client goes away: nothing is undone.
Stop(P) ==
    /\ faults < MaxFaults /\ faults' = faults + 1
    /\ pc' = [p \in Actor |-> IF p \in P THEN "idle" ELSE pc[p]]
    /\ job' = [p \in Actor |-> IF p \in P THEN NoJob ELSE job[p]]
    /\ stale' = [p \in Actor |-> p \notin P /\ stale[p]]
    /\ loose' = (loose \/ \E p \in P : HalfDone(p))
    /\ UNCHANGED <<treeVars, policyVars, today, ops, raced, sweepVars>>
Abort(p) == pc[p] \notin {"idle", "spins"} /\ Stop({p})
Crash    == (\E p \in Actor : pc[p] # "idle") /\ Stop(Actor)

\* The REST requests.
DeleteFile(p, i) == BeginDrop(p, i)
UpdateFolder(p, f, to) == BeginMove(p, f, to) \/ (to = parent[f] /\ BeginRename(p, f))
UpdateFile(p, i, to)   == BeginMoveFile(p, i, to) \/ (to = parent[i] /\ BeginRename(p, i))

\* Their GraphQL counterparts take the same steps, with a walk of their own in
\* update_folder.  Only delete_folder differs: it looks at no descendant.
GqlCreateFolder(p, to)    == BeginCreate(p, to)
GqlDeleteFolder(p, f)     == BeginDrop(p, f)
GqlUpdateFolder(p, f, to) == BeginMove(p, f, to) \/ (to = parent[f] /\ BeginRename(p, f))
GqlDeleteFile(p, i)       == BeginDrop(p, i)
GqlUpdateFile(p, i, to)   == BeginMoveFile(p, i, to) \/ (to = parent[i] /\ BeginRename(p, i))
GqlTrash(p, i)            == BeginRestore(p, i) \/ BeginPurge(p, i)
GqlPolicy(p, d)           == PutMine(p, d) \/ PutGlobal(p, d)

Rest(p) ==
    \/ \E to \in Folder \cup {Root} :
         \/ BeginCreate(p, to) \/ UploadInto(p, to)
         \/ \E f \in Folder : UpdateFolder(p, f, to)
         \/ \E i \in File : UpdateFile(p, i, to)
    \/ \E f \in Folder : BeginDelete(p, f)
    \/ \E i \in File : DeleteFile(p, i)
    \/ \E i \in Item : BeginRestore(p, i) \/ BeginPurge(p, i)
    \/ \E d \in Keeps : PutMine(p, d) \/ PutGlobal(p, d)

GraphQl(p) ==
    \/ \E to \in Folder \cup {Root} :
         \/ GqlCreateFolder(p, to)
         \/ \E f \in Folder : GqlUpdateFolder(p, f, to)
         \/ \E i \in File : GqlUpdateFile(p, i, to)
    \/ \E f \in Folder : GqlDeleteFolder(p, f)
    \/ \E i \in File : GqlDeleteFile(p, i)
    \/ \E i \in Item : GqlTrash(p, i)
    \/ \E d \in Keeps : GqlPolicy(p, d)

Handler(p) ==
    \/ Insert(p) \/ Collect(p) \/ Mark(p) \/ MarkFiles(p) \/ Drop(p)
    \/ Target(p) \/ Place(p) \/ Restore(p) \/ Count(p) \/ DeleteRow(p)

Sweep == SweepStart \/ SweepFiles \/ SweepEnd \/ SweepRow \/ Count(Sweeper) \/ DeleteRow(Sweeper)

Next ==
    \/ \E p \in Proc : Rest(p) \/ GraphQl(p) \/ Handler(p)
    \/ Sweep
    \/ \E p \in Actor : Abort(p)
    \/ Crash \/ Tick

\* The retention task wakes every hour, and goes on after an error; handlers may stop.
Spec == Init /\ [][Next]_vars /\ WF_vars(Sweep)

-----------------------------------------------------------------------------
(***************************************************************************)
(* Properties.                                                             *)
(***************************************************************************)
Excused == raced \/ loose

\* folders.rs 386, graphql.rs 1473: no folder comes to lie below itself, as long
\* as requests do not overlap and nothing live lies below a trashed folder: the
\* walk that looks for the target sees live folders only, and an overlapping
\* move is not seen at all.
AcyclicUnlessExcused == Excused \/ Top(parent)

\* folders.rs 296-330: once a deletion is over, what lay below the folder is in
\* the trash too: whatever is live is listed in a live folder, up to the root.
LiveIsListed ==
    \/ Excused \/ \E p \in Proc : HalfDone(p)
    \/ \A i \in Item : stat[i] = "live" => parent[i] \in LiveFolders

\* trash.rs 193-196, retention.rs 188-200: only what is in the trash, and for the
\* sweep past its retention, is destroyed: a restore that comes between the check
\* and the DELETE is the one exception.  The retention is the owner's, else the
\* default there was when the sweep began; the 30 days or the default stand in for
\* those two only where their SELECT failed.
Default == IF "default" \in misread THEN DefaultKeep ELSE asked
Kept    == IF "own" \in misread THEN Default ELSE Effective(Default)
Destroys(p, i) == pc[p] = "remove" /\ pc'[p] # pc[p] /\ job[p].it = i /\ stat'[i] = "gone"
DestroyedFromTrash ==
    [][\A p \in Actor, i \in Item :
         stat[i] # "gone" /\ Destroys(p, i) =>
            \/ stale[p]
            \/ stat[i] = "trash" /\ (p = Sweeper => Past(i, Kept))]_vars

\* retention.rs 166-208: what stays in the trash past its retention is purged, unless
\* it holds something live, or some folder in its way is refused by the foreign key
\* because of rows below it: that error ends every sweep at the same place.
Expired(i) == Past(i, Effective(GlobalDefault))
Refused(f) == Expired(f) /\ Listing(f) = {} /\ Below(f) # {}
EmptiesUnlessRefused ==
    \A i \in Item : Expired(i) ~> (~Expired(i) \/ Listing(i) # {} \/ \E f \in Folder : Refused(f))

-----------------------------------------------------------------------------
(***************************************************************************)
(* What the documentation says, without the exemptions above.              *)
(***************************************************************************)
\* folders.rs 382, "moving `id` under any of its own descendants would orphan the
\* tree": no move does.
Acyclic == Top(parent)

\* retention.rs 159, "past their owner's effective retention window": the sweep
\* destroys nothing else.
PurgedPastRetention ==
    [][\A i \in Item :
         stat[i] # "gone" /\ Destroys(Sweeper, i) =>
            stale[Sweeper] \/ Past(i, Effective(asked))]_vars
=============================================================================
