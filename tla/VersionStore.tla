---------------------------- MODULE VersionStore ----------------------------
(***************************************************************************)
(* File versions, the content-addressed chunks they share, and the         *)
(* reference counts that decide when a chunk may be deleted.               *)
(*                                                                         *)
(* The server (axum handlers over one SQLite database and one blob store)  *)
(* keeps no lock and opens no transaction: a handler is a sequence of      *)
(* awaited statements, each atomic, and handlers interleave between any    *)
(* two of them.  Here a handler is a request r with a program counter      *)
(* pc[r], one action per statement (or per group of statements of which    *)
(* only one touches shared state).  A handler may stop after any statement *)
(* (Abort): a failed statement returns 500, a client that disconnects has  *)
(* its future dropped.  Crash stops every handler and the sweep.           *)
(*                                                                         *)
(* Each request runs at most once, so that the version row it inserts can  *)
(* be named by the request: a version IS the request that wrote it, and    *)
(* its manifest, number and file are that request's.                       *)
(***************************************************************************)
EXTENDS Integers, Sequences, FiniteSets

CONSTANTS
    Hash,        \* BLAKE3 names of the chunks
    Content,     \* the manifests uploads may carry: sequences of hashes
    Name,        \* file names users pick (within one folder of one owner)
    CopyName,    \* any "<stem> (conflicted copy <time>)<ext>" name
    Req,         \* requests, each run at most once (bounds the workload)
    NoVersion,   \* current_version_id IS NULL
    MaxFiles,    \* bound on the file rows ever created
    MaxFaults    \* bound on interrupted handlers and process crashes together

ASSUME VersionStoreAssumption ==
    /\ Content \subseteq Seq(Hash)
    /\ CopyName \notin Name
    /\ NoVersion \notin Req
    /\ MaxFiles \in Nat
    /\ MaxFaults \in Nat

FileId == 1 .. MaxFiles
NoFile == 0
NoBase == -1     \* expected_base_version absent from the request

VARIABLES
    (***** the database and the blob store *****)
    rows,        \* hashes that have a row in table chunks
    refcount,    \* chunks.refcount (0 where there is no row)
    blobs,       \* hashes whose blob is in the store
    files,       \* table files: [status, name, cur] of each id
    stored,      \* table file_versions: the requests whose version is in it
    (***** the requests in flight *****)
    pc,          \* next statement of the handler
    arg,         \* what the request asks: [op, name, man, base]
    file,        \* the files row it works on
    num,         \* the version_no it computed
    idx,         \* position in its manifest
    todo,        \* purge: the references still to release
    drop,        \* purge: the hash it found at zero and is deleting
    (***** the periodic sweep of gc.rs *****)
    sweepTodo,   \* hashes its SELECT returned, not yet deleted
    sweepDrop,   \* the hash whose row it deleted and whose blob is next
    faults,
    (***** history, never read by the code *****)
    refs,        \* references taken and not released: <<request, position>>
    clash,       \* hashes used and deleted by two handlers at a time
    hollow,      \* hashes whose row outlived a DELETE that failed unseen,
                 \* and whose blob went, or is going, all the same
    raced        \* requests that shared their files row with another one

chunkVars == <<rows, refcount, blobs>>
sweepVars == <<sweepTodo, sweepDrop>>
purgeVars == <<todo, drop>>
history   == <<refs, clash, hollow, raced>>
vars == <<chunkVars, files, stored, pc, arg, file, num, idx, purgeVars,
          sweepVars, faults, history>>

-----------------------------------------------------------------------------
(***************************************************************************)
(* Vocabulary.                                                             *)
(***************************************************************************)
Op     == {"upload", "finalize", "chunk", "restore", "purge"}
Status == {"none", "live", "trashed", "purged"}
Label  == {"idle", "done", "check", "lookup", "create", "base", "fork",
           "write", "see", "bump", "insert", "number", "rebump", "version",
           "current", "chunkrow", "chunkblob", "chunkinsert",
           "select", "unversion", "unfile", "release", "unrow", "unblob"}

Active(r)  == pc[r] \notin {"idle", "done"}
Man(r)     == arg[r].man
Chunks(r)  == {Man(r)[i] : i \in 1 .. Len(Man(r))}
Here(r)    == Man(r)[idx[r]]                 \* the chunk the loop stands on

Exists(f)      == files[f].status \in {"live", "trashed"}   \* a row in files
Live(n)        == {f \in FileId : files[f].status = "live" /\ files[f].name = n}
VersionsOf(f)  == {v \in stored : file[v] = f}

\* SELECT MAX(version_no) ... , 0 when the file has no version.
LastNo(f) ==
    LET nos == {0} \cup {num[v] : v \in VersionsOf(f)}
    IN  CHOOSE n \in nos : \A m \in nos : m <= n

\* References: position i of request v's manifest.
Token          == Req \X Nat
ChunkAt(t)     == Man(t[1])[t[2]]
Held(h)        == {t \in refs : ChunkAt(t) = h}
RefsOf(V)      == UNION {{v} \X (1 .. Len(Man(v))) : v \in V}

\* What an unfinished deleter is about to delete or release.
Condemned(r)   == {ChunkAt(t) : t \in todo[r]} \cup drop[r]
Deleting       == sweepTodo \cup sweepDrop \cup UNION {Condemned(r) : r \in Req}
Using(h)       == {r \in Req : Active(r) /\ h \in Chunks(r)}

Goto(r, l) == pc' = [pc EXCEPT ![r] = l]

\* Mutant: the cursor of a loop is reset to zero.
NextChunkFromZero(r, loop, after) ==
    IF idx[r] < Len(Man(r))
    THEN Goto(r, loop)  /\ idx' = [idx EXCEPT ![r] = @ + 1]
    ELSE Goto(r, after) /\ idx' = [idx EXCEPT ![r] = 0]

\* One turn of a loop over the manifest ends: next position, or what follows.
NextChunk(r, loop, after) ==
    IF idx[r] < Len(Man(r))
    THEN Goto(r, loop)  /\ idx' = [idx EXCEPT ![r] = @ + 1]
    ELSE Goto(r, after) /\ idx' = [idx EXCEPT ![r] = 1]

\* The handler answers, or is dropped, in the middle: its locals are gone.
Stop(r) ==
    /\ Goto(r, "done")
    /\ idx'  = [idx EXCEPT ![r] = 1]
    /\ todo' = [todo EXCEPT ![r] = {}]
    /\ drop' = [drop EXCEPT ![r] = {}]

LoopOr(man, loop, after) == IF man = <<>> THEN after ELSE loop

\* A statement fails and the handler drops its error (let _, .ok()) and goes on.
Ignored == faults < MaxFaults /\ faults' = faults + 1

\* History: request r starts working on row f.
ShareFile(r, f) ==
    LET others == {q \in Req \ {r} : Active(q) /\ file[q] = f}
    IN  raced' = raced \cup others \cup (IF others = {} THEN {} ELSE {r})

\* History: request r starts using the chunks of man.
UseChunks(man) ==
    clash' = clash \cup {h \in Deleting : \E i \in 1 .. Len(man) : man[i] = h}

DatabaseTypeOK ==
    /\ rows \subseteq Hash /\ blobs \subseteq Hash
    /\ refcount \in [Hash -> Int]
    /\ files \in [FileId -> [status : Status, name : Name \cup {CopyName},
                             cur : Req \cup {NoVersion}]]
    /\ stored \subseteq Req
RequestTypeOK ==
    /\ pc \in [Req -> Label]
    /\ arg \in [Req -> [op : Op \cup {"none"}, name : Name \cup {CopyName},
                        man : Seq(Hash), base : Int]]
    /\ file \in [Req -> FileId \cup {NoFile}]
    /\ num \in [Req -> Nat] /\ idx \in [Req -> Nat \ {0}]
DeleterTypeOK ==
    /\ todo \in [Req -> SUBSET Token] /\ drop \in [Req -> SUBSET Hash]
    /\ sweepTodo \subseteq Hash /\ sweepDrop \subseteq Hash
HistoryTypeOK ==
    /\ faults \in 0 .. MaxFaults
    /\ refs \subseteq Token /\ raced \subseteq Req
    /\ clash \subseteq Hash /\ hollow \subseteq Hash
TypeOK == DatabaseTypeOK /\ RequestTypeOK /\ DeleterTypeOK /\ HistoryTypeOK

Init ==
    /\ rows = {} /\ blobs = {}
    /\ refcount = [h \in Hash |-> 0]
    /\ files = [f \in FileId |->
                  [status |-> "none", name |-> CopyName, cur |-> NoVersion]]
    /\ stored = {}
    /\ pc = [r \in Req |-> "idle"]
    /\ arg = [r \in Req |-> [op |-> "none", name |-> CopyName,
                             man |-> <<>>, base |-> NoBase]]
    /\ file = [r \in Req |-> NoFile]
    /\ num = [r \in Req |-> 0] /\ idx = [r \in Req |-> 1]
    /\ todo = [r \in Req |-> {}] /\ drop = [r \in Req |-> {}]
    /\ sweepTodo = {} /\ sweepDrop = {}
    /\ faults = 0
    /\ refs = {} /\ clash = {} /\ hollow = {} /\ raced = {}

-----------------------------------------------------------------------------
(***************************************************************************)
(* Writing a version: files.rs upload / upload_delta / tus finish (op      *)
(* "upload": the content is cut into chunks and written) and               *)
(* chunk_upload.rs finalize (op "finalize": the chunks were sent before).  *)
(* Multipart parsing, the quota snapshot and the full-text index do not    *)
(* touch this state.                                                       *)
(***************************************************************************)
\* Numbers a client may have seen for the file it names.
Bases(n) == {NoBase} \cup
    UNION {0 .. LastNo(f) : f \in {g \in FileId : Exists(g) /\ files[g].name = n}}

BeginWrite(r, op, n, man, base) ==
    /\ pc[r] = "idle"
    /\ arg' = [arg EXCEPT ![r] = [op |-> op, name |-> n, man |-> man, base |-> base]]
    /\ Goto(r, IF op = "finalize" THEN LoopOr(man, "check", "lookup") ELSE "lookup")
    /\ UseChunks(man)
    /\ UNCHANGED <<chunkVars, files, stored, file, num, idx, purgeVars,
                   sweepVars, faults, refs, hollow, raced>>

\* finalize: every hash of the manifest must have a row, else 400 (so does a
\* SELECT that fails: Abort).
Check(r) ==
    /\ pc[r] = "check"
    /\ IF Here(r) \in rows
       THEN NextChunk(r, "check", "lookup") /\ UNCHANGED purgeVars
       ELSE Stop(r)
    /\ UNCHANGED <<chunkVars, files, stored, arg, file, num, sweepVars,
                   faults, history>>

\* SELECT the live file of that name; nothing prevents two from having it.
\* finalize takes a SELECT that fails for a name that is free.
Lookup(r) ==
    /\ pc[r] = "lookup"
    /\ \/ /\ Live(arg[r].name) = {}
          /\ Goto(r, "create")
          /\ UNCHANGED <<file, faults, raced>>
       \/ /\ arg[r].op = "finalize" /\ Ignored
          /\ Goto(r, "create")
          /\ UNCHANGED <<file, raced>>
       \/ \E f \in Live(arg[r].name) :
            /\ file' = [file EXCEPT ![r] = f]
            /\ ShareFile(r, f)
            /\ Goto(r, "base")
            /\ UNCHANGED faults
    /\ UNCHANGED <<chunkVars, files, stored, arg, num, idx, purgeVars,
                   sweepVars, refs, clash, hollow>>

\* INSERT INTO files ... RETURNING id (AUTOINCREMENT: ids are never reused).
NewFile(r, n) ==
    \E f \in FileId :
        /\ files[f].status = "none"
        /\ \A g \in 1 .. f - 1 : files[g].status # "none"
        /\ files' = [files EXCEPT ![f] =
                       [status |-> "live", name |-> n, cur |-> NoVersion]]
        /\ file' = [file EXCEPT ![r] = f]

Create(r) ==
    /\ pc[r] = "create"
    /\ NewFile(r, arg[r].name)
    /\ Goto(r, "base")
    /\ UNCHANGED <<chunkVars, stored, arg, num, idx, purgeVars, sweepVars,
                   faults, history>>

\* Mutant: finalize forgets to take its references.
StoreWithoutBump(r) ==
    IF arg[r].op = "upload" THEN LoopOr(Man(r), "write", "number") ELSE "number"

\* Where a write goes once its files row is settled.
Store(r) ==
    IF arg[r].op = "upload" THEN LoopOr(Man(r), "write", "number")
                            ELSE LoopOr(Man(r), "see", "number")

\* Mutant: a base older than the newest version is accepted.
CheckBaseOlder(r) ==
    /\ pc[r] = "base"
    /\ IF arg[r].base <= LastNo(file[r])
       THEN Goto(r, Store(r))
       ELSE Goto(r, "fork")
    /\ UNCHANGED <<chunkVars, files, stored, arg, file, num, idx, purgeVars,
                   sweepVars, faults, history>>

\* expected_base_version against SELECT MAX(version_no).
CheckBase(r) ==
    /\ pc[r] = "base"
    /\ IF arg[r].base \in {NoBase, LastNo(file[r])}
       THEN Goto(r, Store(r))
       ELSE Goto(r, "fork")
    /\ UNCHANGED <<chunkVars, files, stored, arg, file, num, idx, purgeVars,
                   sweepVars, faults, history>>

\* Conflict: the content becomes version 1 of a new file, a conflicted copy.
Fork(r) ==
    /\ pc[r] = "fork"
    /\ IF Exists(file[r])
       THEN NewFile(r, CopyName) /\ Goto(r, Store(r))
       ELSE Goto(r, "done") /\ UNCHANGED <<files, file>>
    /\ UNCHANGED <<chunkVars, stored, arg, num, idx, purgeVars, sweepVars,
                   faults, history>>

\* ChunkStore::write: exists-check and write of one blob.  The check that
\* hits and the write that follows a miss are each the effect of this step.
PutBlob(h) == blobs' = blobs \cup {h} /\ hollow' = hollow \ {h}

WriteBlob(r) ==
    /\ pc[r] = "write"
    /\ PutBlob(Here(r))
    /\ NextChunk(r, "write", "see")
    /\ UNCHANGED <<rows, refcount, files, stored, arg, file, num, purgeVars,
                   sweepVars, faults, refs, clash, raced>>

\* bump_or_insert_chunk_refcount, first statement: is there a row?  A SELECT
\* that fails is taken for no.
SeeRow(r) ==
    /\ pc[r] = "see"
    /\ \/ Here(r) \in rows /\ Goto(r, "bump") /\ UNCHANGED faults
       \/ Here(r) \notin rows /\ Goto(r, "insert") /\ UNCHANGED faults
       \/ Ignored /\ Goto(r, "insert")
    /\ UNCHANGED <<chunkVars, files, stored, arg, file, num, idx, purgeVars,
                   sweepVars, history>>

TakeRef(r) == refs' = refs \cup {<<r, idx[r]>>}

\* UPDATE chunks SET refcount = refcount + 1 WHERE hash: no row, no effect.
AddRef(r) ==
    /\ refcount' = IF Here(r) \in rows
                   THEN [refcount EXCEPT ![Here(r)] = @ + 1]
                   ELSE refcount
    /\ TakeRef(r)
    /\ UNCHANGED <<rows, blobs, files, stored, arg, file, num, purgeVars,
                   sweepVars, faults, clash, hollow, raced>>

Bump(r) ==
    /\ pc[r] = "bump"
    /\ AddRef(r)
    /\ NextChunk(r, "see", "number")

\* INSERT with refcount 1: the primary key rejects a row added meanwhile (500).
InsertRow(r) ==
    /\ pc[r] = "insert"
    /\ IF Here(r) \in rows
       THEN Stop(r) /\ UNCHANGED <<rows, refcount, refs>>
       ELSE /\ rows' = rows \cup {Here(r)}
            /\ refcount' = [refcount EXCEPT ![Here(r)] = 1]
            /\ TakeRef(r)
            /\ NextChunk(r, "see", "number")
            /\ UNCHANGED purgeVars
    /\ UNCHANGED <<blobs, files, stored, arg, file, num, sweepVars, faults,
                   clash, hollow, raced>>

\* Mutant: the newest number is used again.
NumberAgain(r) ==
    /\ pc[r] = "number"
    /\ num' = [num EXCEPT ![r] = IF LastNo(file[r]) = 0 THEN 1 ELSE LastNo(file[r])]
    /\ Goto(r, IF arg[r].op = "restore" THEN LoopOr(Man(r), "rebump", "version")
                                        ELSE "version")
    /\ UNCHANGED <<chunkVars, files, stored, arg, file, idx, purgeVars,
                   sweepVars, faults, history>>

\* next_version_no.  An upload computes it after its references, a restore before.
Number(r) ==
    /\ pc[r] = "number"
    /\ num' = [num EXCEPT ![r] = LastNo(file[r]) + 1]
    /\ Goto(r, IF arg[r].op = "restore" THEN LoopOr(Man(r), "rebump", "version")
                                        ELSE "version")
    /\ UNCHANGED <<chunkVars, files, stored, arg, file, idx, purgeVars,
                   sweepVars, faults, history>>

\* INSERT INTO file_versions: the foreign key requires the files row.
InsertVersion(r) ==
    /\ pc[r] = "version"
    /\ IF Exists(file[r])
       THEN stored' = stored \cup {r} /\ Goto(r, "current")
       ELSE Goto(r, "done") /\ UNCHANGED stored
    /\ UNCHANGED <<chunkVars, files, arg, file, num, idx, purgeVars, sweepVars,
                   faults, history>>

\* UPDATE files SET current_version_id.
SetCurrent(r) ==
    /\ pc[r] = "current"
    /\ files' = IF Exists(file[r]) THEN [files EXCEPT ![file[r]].cur = r] ELSE files
    /\ Goto(r, "done")
    /\ UNCHANGED <<chunkVars, stored, arg, file, num, idx, purgeVars, sweepVars,
                   faults, history>>

-----------------------------------------------------------------------------
(***************************************************************************)
(* chunk_upload.rs upload_chunk: one chunk sent ahead of a finalize, its   *)
(* row inserted with refcount 0 unless there is one already.               *)
(***************************************************************************)
BeginChunk(r, h) ==
    /\ pc[r] = "idle"
    /\ arg' = [arg EXCEPT ![r] = [op |-> "chunk", name |-> CopyName,
                                  man |-> <<h>>, base |-> NoBase]]
    /\ Goto(r, "chunkrow")
    /\ UseChunks(<<h>>)
    /\ UNCHANGED <<chunkVars, files, stored, file, num, idx, purgeVars,
                   sweepVars, faults, refs, hollow, raced>>

\* chunk_row: a SELECT that fails is taken for no row.
ChunkRow(r) ==
    /\ pc[r] = "chunkrow"
    /\ \/ Here(r) \in rows /\ Goto(r, "done") /\ UNCHANGED faults
       \/ Here(r) \notin rows /\ Goto(r, "chunkblob") /\ UNCHANGED faults
       \/ Ignored /\ Goto(r, "chunkblob")
    /\ UNCHANGED <<chunkVars, files, stored, arg, file, num, idx, purgeVars,
                   sweepVars, history>>

ChunkBlob(r) ==
    /\ pc[r] = "chunkblob"
    /\ PutBlob(Here(r))
    /\ Goto(r, "chunkinsert")
    /\ UNCHANGED <<rows, refcount, files, stored, arg, file, num, idx,
                   purgeVars, sweepVars, faults, refs, clash, raced>>

\* Mutant: sending a chunk ahead counts as a reference.
ChunkInsertCounted(r) ==
    /\ pc[r] = "chunkinsert"
    /\ rows' = rows \cup {Here(r)}
    /\ refcount' = [refcount EXCEPT ![Here(r)] = @ + 1]
    /\ Goto(r, "done")
    /\ UNCHANGED <<blobs, files, stored, arg, file, num, idx, purgeVars,
                   sweepVars, faults, history>>

\* INSERT ... 0 ON CONFLICT(hash) DO NOTHING.
ChunkInsert(r) ==
    /\ pc[r] = "chunkinsert"
    /\ rows' = rows \cup {Here(r)}
    /\ Goto(r, "done")
    /\ UNCHANGED <<refcount, blobs, files, stored, arg, file, num, idx,
                   purgeVars, sweepVars, faults, history>>

-----------------------------------------------------------------------------
(***************************************************************************)
(* files.rs restore (and its GraphQL twin): an old version becomes the     *)
(* newest.  The file must be live and the version row present; the two     *)
(* SELECTs that establish it change nothing and are one step.              *)
(***************************************************************************)
BeginRestore(r, v) ==
    /\ pc[r] = "idle"
    /\ v \in stored
    /\ files[file[v]].status = "live"
    /\ arg' = [arg EXCEPT ![r] = [op |-> "restore", name |-> CopyName,
                                  man |-> Man(v), base |-> NoBase]]
    /\ file' = [file EXCEPT ![r] = file[v]]
    /\ ShareFile(r, file[v])
    /\ UseChunks(Man(v))
    /\ Goto(r, "number")
    /\ UNCHANGED <<chunkVars, files, stored, num, idx, purgeVars, sweepVars,
                   faults, refs, hollow>>

\* UPDATE ... + 1, with no check that there is a row.
Rebump(r) ==
    /\ pc[r] = "rebump"
    /\ AddRef(r)
    /\ NextChunk(r, "rebump", "version")

-----------------------------------------------------------------------------
(***************************************************************************)
(* The trash.  delete_file and trash restore each re-stamp one row they    *)
(* have just seen: one step, since a repeated stamp changes nothing here.  *)
(***************************************************************************)
DeleteFile(f) ==
    /\ files[f].status = "live"
    /\ files' = [files EXCEPT ![f].status = "trashed"]
    /\ UNCHANGED <<chunkVars, stored, pc, arg, file, num, idx, purgeVars,
                   sweepVars, faults, history>>

TrashRestore(f) ==
    /\ files[f].status = "trashed"
    /\ files' = [files EXCEPT ![f].status = "live"]
    /\ UNCHANGED <<chunkVars, stored, pc, arg, file, num, idx, purgeVars,
                   sweepVars, faults, history>>

\* trash.rs purge and the retention sweep: the file was seen in the trash.
BeginPurge(r, f) ==
    /\ pc[r] = "idle"
    /\ files[f].status = "trashed"
    /\ arg' = [arg EXCEPT ![r].op = "purge"]
    /\ file' = [file EXCEPT ![r] = f]
    /\ ShareFile(r, f)
    /\ Goto(r, "select")
    /\ UNCHANGED <<chunkVars, files, stored, num, idx, purgeVars, sweepVars,
                   faults, refs, clash, hollow>>

\* SELECT manifest FROM file_versions: the references this purge will release.
SelectManifests(r) ==
    LET owed  == RefsOf(VersionsOf(file[r]))
        twice == {t \in owed : \E q \in Req \ {r} : t \in todo[q]}
    IN  /\ pc[r] = "select"
        /\ todo' = [todo EXCEPT ![r] = owed]
        /\ clash' = clash \cup {ChunkAt(t) : t \in twice}
              \cup {h \in {ChunkAt(t) : t \in owed} : Using(h) # {}}
        /\ Goto(r, "unversion")
        /\ UNCHANGED <<chunkVars, files, stored, arg, file, num, idx, drop,
                       sweepVars, faults, refs, hollow, raced>>

\* DELETE FROM file_versions WHERE file_id.
DeleteVersions(r) ==
    /\ pc[r] = "unversion"
    /\ stored' = stored \ VersionsOf(file[r])
    /\ Goto(r, "unfile")
    /\ UNCHANGED <<chunkVars, files, arg, file, num, idx, purgeVars, sweepVars,
                   faults, history>>

\* DELETE FROM files: the foreign key refuses while a version remains (500).
DeleteFileRow(r) ==
    /\ pc[r] = "unfile"
    /\ IF VersionsOf(file[r]) # {}
       THEN Stop(r) /\ UNCHANGED files
       ELSE /\ files' = IF Exists(file[r])
                        THEN [files EXCEPT ![file[r]].status = "purged"]
                        ELSE files
            /\ Goto(r, "release")
            /\ UNCHANGED <<idx, purgeVars>>
    /\ UNCHANGED <<chunkVars, stored, arg, file, num, sweepVars, faults,
                   history>>

\* Mutant: the last two references are taken for the last one.
ReleaseEarly(r) ==
    /\ pc[r] = "release"
    /\ \E t \in todo[r] :
         LET h == ChunkAt(t)
         IN  /\ todo' = [todo EXCEPT ![r] = @ \ {t}]
             /\ refs' = refs \ {t}
             /\ refcount' = IF h \in rows THEN [refcount EXCEPT ![h] = @ - 1]
                                          ELSE refcount
             /\ IF h \in rows /\ refcount[h] <= 2
                THEN drop' = [drop EXCEPT ![r] = {h}] /\ Goto(r, "unrow")
                ELSE UNCHANGED <<pc, drop>>
    /\ UNCHANGED <<rows, blobs, files, stored, arg, file, num, idx, sweepVars,
                   faults, clash, hollow, raced>>

\* gc.rs release_manifest, one reference: UPDATE ... - 1 RETURNING refcount.
\* One that fails is skipped: the count keeps a reference nobody has any more.
Release(r) ==
    /\ pc[r] = "release"
    /\ \E t \in todo[r] :
         LET h == ChunkAt(t)
         IN  /\ todo' = [todo EXCEPT ![r] = @ \ {t}]
             /\ \/ /\ refs' = refs \ {t}
                   /\ refcount' = IF h \in rows
                                  THEN [refcount EXCEPT ![h] = @ - 1]
                                  ELSE refcount
                   /\ IF h \in rows /\ refcount[h] <= 1
                      THEN drop' = [drop EXCEPT ![r] = {h}] /\ Goto(r, "unrow")
                      ELSE UNCHANGED <<pc, drop>>
                   /\ UNCHANGED faults
                \/ Ignored /\ UNCHANGED <<refs, refcount, pc, drop>>
    /\ UNCHANGED <<rows, blobs, files, stored, arg, file, num, idx, sweepVars,
                   clash, hollow, raced>>

\* DELETE FROM chunks WHERE hash: the count is not looked at again.  Its error
\* is dropped, and the blob is deleted whether or not the row is gone.
RemoveRow(hs) ==
    \/ /\ rows' = rows \ hs
       /\ refcount' = [h \in Hash |-> IF h \in hs THEN 0 ELSE refcount[h]]
       /\ hollow' = hollow \ hs
       /\ UNCHANGED faults
    \/ /\ Ignored
       /\ hollow' = hollow \cup (hs \cap rows)
       /\ UNCHANGED <<rows, refcount>>

\* storage.delete_chunk, its error dropped: the blob is gone, or left behind.
RemoveBlob(hs) ==
    \/ blobs' = blobs \ hs /\ UNCHANGED faults
    \/ Ignored /\ UNCHANGED blobs

DropRow(r) ==
    /\ pc[r] = "unrow"
    /\ RemoveRow(drop[r])
    /\ Goto(r, "unblob")
    /\ UNCHANGED <<blobs, files, stored, arg, file, num, idx, purgeVars,
                   sweepVars, refs, clash, raced>>

DropBlob(r) ==
    /\ pc[r] = "unblob"
    /\ RemoveBlob(drop[r])
    /\ drop' = [drop EXCEPT ![r] = {}]
    /\ Goto(r, "release")
    /\ UNCHANGED <<rows, refcount, files, stored, arg, file, num, idx, todo,
                   sweepVars, history>>

EndPurge(r) ==
    /\ pc[r] = "release"
    /\ todo[r] = {}
    /\ Goto(r, "done")
    /\ UNCHANGED <<chunkVars, files, stored, arg, file, num, idx, purgeVars,
                   sweepVars, faults, history>>

-----------------------------------------------------------------------------
(***************************************************************************)
(* gc.rs sweep_orphaned_chunks, every six hours: a snapshot of the rows at *)
(* zero, then for each of them the row and the blob, unconditionally.      *)
(***************************************************************************)
\* Mutant: only counts below zero are swept.
SweepNegative ==
    LET idle == {h \in rows : refcount[h] < 0}
    IN  /\ sweepTodo = {} /\ sweepDrop = {}
        /\ idle # {}
        /\ sweepTodo' = idle
        /\ clash' = clash \cup {h \in idle : Using(h) # {}}
        /\ UNCHANGED <<chunkVars, files, stored, pc, arg, file, num, idx,
                       purgeVars, sweepDrop, faults, refs, hollow, raced>>

SweepSelect ==
    LET idle == {h \in rows : refcount[h] <= 0}
    IN  /\ sweepTodo = {} /\ sweepDrop = {}
        /\ idle # {}
        /\ sweepTodo' = idle
        /\ clash' = clash \cup {h \in idle : Using(h) # {}}
        /\ UNCHANGED <<chunkVars, files, stored, pc, arg, file, num, idx,
                       purgeVars, sweepDrop, faults, refs, hollow, raced>>

SweepRow ==
    /\ sweepDrop = {}
    /\ \E h \in sweepTodo :
         /\ RemoveRow({h})
         /\ sweepTodo' = sweepTodo \ {h}
         /\ sweepDrop' = {h}
    /\ UNCHANGED <<blobs, files, stored, pc, arg, file, num, idx, purgeVars,
                   refs, clash, raced>>

SweepBlob ==
    /\ sweepDrop # {}
    /\ RemoveBlob(sweepDrop)
    /\ sweepDrop' = {}
    /\ UNCHANGED <<rows, refcount, files, stored, pc, arg, file, num, idx,
                   purgeVars, sweepTodo, history>>

-----------------------------------------------------------------------------
\* A statement fails, or the client goes away: the handler stops where it is.
Abort(r) ==
    /\ Active(r)
    /\ faults < MaxFaults
    /\ faults' = faults + 1
    /\ Stop(r)
    /\ UNCHANGED <<chunkVars, files, stored, arg, file, num, sweepVars, history>>

\* The process stops and restarts; only the database and the blobs survive.
Crash ==
    /\ faults < MaxFaults
    /\ faults' = faults + 1
    /\ pc' = [r \in Req |-> IF Active(r) THEN "done" ELSE pc[r]]
    /\ idx' = [r \in Req |-> 1]
    /\ todo' = [r \in Req |-> {}] /\ drop' = [r \in Req |-> {}]
    /\ sweepTodo' = {} /\ sweepDrop' = {}
    /\ UNCHANGED <<chunkVars, files, stored, arg, file, num, history>>

Begin(r) ==
    \/ \E op \in {"upload", "finalize"}, n \in Name, man \in Content :
         \E base \in Bases(n) : BeginWrite(r, op, n, man, base)
    \/ \E h \in Hash : BeginChunk(r, h)
    \/ \E v \in stored : BeginRestore(r, v)
    \/ \E f \in FileId : BeginPurge(r, f)

Handler(r) ==
    \/ Check(r) \/ Lookup(r) \/ Create(r) \/ CheckBase(r) \/ Fork(r)
    \/ WriteBlob(r) \/ SeeRow(r) \/ Bump(r) \/ InsertRow(r) \/ Number(r)
    \/ Rebump(r) \/ InsertVersion(r) \/ SetCurrent(r)
    \/ ChunkRow(r) \/ ChunkBlob(r) \/ ChunkInsert(r)
    \/ SelectManifests(r) \/ DeleteVersions(r) \/ DeleteFileRow(r)
    \/ Release(r) \/ DropRow(r) \/ DropBlob(r) \/ EndPurge(r)

Sweep == SweepSelect \/ SweepRow \/ SweepBlob

Next ==
    \/ \E r \in Req : Begin(r) \/ Handler(r) \/ Abort(r)
    \/ \E f \in FileId : DeleteFile(f) \/ TrashRestore(f)
    \/ Sweep
    \/ Crash

\* A handler that nobody interrupts runs on, and the sweep task keeps waking.
Fairness == WF_vars(Sweep) /\ \A r \in Req : WF_vars(Handler(r))

Spec == Init /\ [][Next]_vars /\ Fairness

-----------------------------------------------------------------------------
(***************************************************************************)
(* Properties.                                                             *)
(***************************************************************************)
\* A chunk that a stored version lists has its row and its blob, unless a
\* handler that uses it ran at the same time as one that deletes it (or two
\* purges released the same reference), or the DELETE of its row once failed
\* unseen and its blob has not been written since: conflicts, restores,
\* deduplication, soft deletes, every other failure, aborted handlers and
\* crashes never lose one (files.rs 150-174, 953-1023, trash.rs 202-245, gc.rs
\* 19-72).
IntactUnlessExcused ==
    \A v \in stored : \A h \in Chunks(v) \ (clash \cup hollow) :
        h \in rows /\ h \in blobs

\* A count never exceeds the references taken and not released, so a chunk
\* nobody refers to is at zero and the sweep finds it, whatever overlapped.
NeverOverCounted ==
    \A h \in rows : refcount[h] <= Cardinality(Held(h))

\* A stored version holds every reference of its manifest: each was taken
\* before the row was inserted and none is released before the row is gone,
\* even when purges of one file overlap or fail half-way (files.rs 226-289,
\* trash.rs 213-241: the order of the statements).
StoredVersionsHoldTheirReferences ==
    RefsOf(stored) \subseteq refs

\* Whatever overlaps, crashes or fails, a row that no reference holds is
\* eventually deleted or referenced again (gc.rs 46-50: the backstop).
UnheldRowsAreSwept ==
    \A h \in Hash : (h \in rows /\ Held(h) = {}) ~> (h \notin rows \/ Held(h) # {})

\* An edit stored on the file it names follows the very version it was based
\* on (files.rs 176-180), unless another request worked on the file meanwhile.
EditFollowsBaseUnlessRaced ==
    \A v \in stored :
        v \notin raced /\ arg[v].base # NoBase /\ files[file[v]].name # CopyName
            => num[v] = arg[v].base + 1

\* Two versions of a file bear the same number only if one of them was written
\* while another request worked on that file (files.rs 346-357).
NumbersDistinctUnlessRaced ==
    \A v, w \in stored :
        v # w /\ file[v] = file[w] /\ num[v] = num[w] => v \in raced \/ w \in raced

-----------------------------------------------------------------------------
(***************************************************************************)
(* What the documentation says, without the exemptions above.              *)
(***************************************************************************)
\* README.md:19, "concurrent edits become a conflicted copy, nothing is
\* silently overwritten": of two edits based on the same version of a file,
\* at most one is stored as a version of that file.
NothingSilentlyOverwritten ==
    \A v, w \in stored :
        /\ v # w /\ file[v] = file[w]
        /\ arg[v].base = arg[w].base /\ arg[v].base > 0
        => files[file[v]].name = CopyName

\* gc.rs:16-18 and the test shared_chunk_survives_until_last_reference_released.
SharedChunkSurvives ==
    \A v \in stored : Chunks(v) \subseteq rows /\ Chunks(v) \subseteq blobs

\* The same, and gc.rs:46-50, which names a crash between the UPDATE and the
\* delete as what the sweep repairs: short of a clash, a failure loses nothing.
IntactUnlessClash ==
    \A v \in stored : \A h \in Chunks(v) \ clash : h \in rows /\ h \in blobs
=============================================================================
