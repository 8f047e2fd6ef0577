# Plaste, verified

TLA+ models of the Plaste server (a self-hosted drive: Rust, axum, hiqlite over
SQLite, opendal), TLC runs that check them on small instances, and TLAPS proofs
that hold for every instance of the constants.

## How the server behaves, for a modeller

Every handler and every background task is an `async fn` over one SQLite
database and one blob store. **There are no transactions and no locks**: each
`await`ed statement is atomic, and between any two statements of one handler any
statement of another may run. A handler can also stop between two statements:
a statement that fails returns 500 and undoes nothing, a client that goes away
drops the handler's future, and the process can crash. And where the code drops
the error of a statement (`let _`, `unwrap_or`, `.ok()`), the handler goes on as if
it had done what it did not, or had read nothing. Only the database, the
blob store and a few files survive a restart. Four tasks run beside the handlers:
tus resumption (at start, then every 10 minutes), the retention purge (hourly),
the tiering sweep (hourly) and the chunk sweep (every 6 hours).

So most of what is hard here is *check-then-act across an await*: the code
SELECTs, decides, and acts on what it saw.

## How to read the properties

Most properties make exceptions, and each exception has a name: a history variable
that says when the code is known to go wrong. A property with an exception answers
*what else could break this*: nothing. That the exception is no formality is shown
where a comment, the README or a test of the repository says the same without it:
each such sentence is a property too, in the last section of its module, that TLC finds
violated by what the code does. `store_shared` is a run of the project; the other
configurations are kept beside the runs and checked by hand
(`tlc -config StoreHollow.cfg MCVersionStore`), for the sake of their traces:

| Configuration | Module | Property | What is said | Violated by |
|---|---|---|---|---|
| `StoreShared.cfg` | `MCVersionStore` | `SharedChunkSurvives` | a chunk goes with its last reference (`gc.rs` 16-18 and its test) | a reference taken between the UPDATE and the deletes |
| `StoreHollow.cfg` | `MCVersionStore` | `IntactUnlessClash` | the same, and that the sweep repairs what slipped through (`gc.rs` 46-50) | one DELETE that fails unseen |
| `StoreRaced.cfg` | `MCVersionStore` | `NothingSilentlyOverwritten` | "concurrent edits become a conflicted copy" (`README.md` 19) | two edits of one base |
| `TierCut.cfg` | `MCTiering` | `WorstCaseIsADuplicate` | the worst case of an interrupted demotion is a duplicate (`storage.rs` 631-633) | a stop between the delete and the UPDATE |
| `TierStale.cfg` | `MCTiering` | `EveryReadRefreshes` | `last_accessed` is refreshed at every read (`tiering.rs` 14-15) | a read that a recorded location answers |
| `TusTwice.cfg` | `MCTusUpload` | `StoredOnce` | the resumption is idempotent (`tus.rs` 424-426) | the resumer beside the assembly under way |
| `TreeCycle.cfg` | `MCFolderTree` | `Acyclic` | no folder is moved below itself (`folders.rs` 382 and its test) | a folder that comes below after the walk |
| `TreeMisread.cfg` | `MCFolderTree` | `PurgedPastRetention` | only what is past its owner's retention is purged (`retention.rs` 159) | one SELECT of a policy that fails unheard |
| `LoginCrossed.cfg` | `MCCredentials` | `OneSessionPerLogin` | a state serves once (`konnect.rs` 195-196) | two callbacks with one state |
| `AccessBlind.cfg` | `MCAccess` | `OwnerAlwaysWins` | "owner-or-admin always wins" (`acl.rs` 1) | one SELECT of the owner that fails unheard |
| `BackendsMisread.cfg` | `MCBackends` | `ActiveIsTheSourceOfTruth` | the active row is the source of truth (`main.rs` 54-56) | one SELECT at the start that fails unheard |
| `BackendsTwo.cfg` | `MCBackends` | `OneActivePrimary` | one primary is active (`storage_backends.rs` 243) | two activations at a time |

Seven of them need no failure (`MaxFaults = 0`): the first, `StoreRaced`, `TierStale`, `TusTwice`,
`TreeCycle`, `LoginCrossed` and `BackendsTwo`. The second callback of `LoginCrossed` also needs the
identity provider to exchange one code twice, which is outside this code.

## Inventory

| Component | Source | State | Operations | What makes it correct | Hard behaviour |
|---|---|---|---|---|---|
| File versions, uploads | `files.rs`, `chunk_upload.rs`, `graphql.rs` | `files`, `file_versions`, `chunks` | upload, delta upload, chunk upload + finalize, restore a version, soft delete | a version's chunks exist; counts match references; a stale edit becomes a conflicted copy; numbers are distinct | interleaving, a handler stopping half-way |
| Chunk gc | `gc.rs` | `chunks.refcount`, blobs | release one manifest, periodic sweep | a chunk goes when, and only when, nothing refers to it | decrement, delete row, delete blob are three steps; the sweep works from a snapshot |
| Trash, retention | `trash.rs`, `retention.rs` | `deleted_at`, `retention_policy` | restore, purge, hourly purge | a purge releases exactly what the versions held; only what is in the trash, and past its retention, is destroyed | two purges of one file; a restore during a purge; one refused row ends the sweep |
| Chunk store, tiering | `storage.rs`, `tiering.rs` | hot and cold blobs, `chunk_access`, `chunk_locations` | write, read (promotes), delete, sweep (demotes) | a chunk always has a copy where a read looks | demotion against promotion, crash between copy and delete |
| Storage backends | `storage_backends.rs`, `main.rs`, `storage.rs` | `storage_backends`, `chunk_locations`, the live operator | create, activate, deactivate, delete, choice at start; shard, replica and primary routing | what a write records is where it wrote; the start finds it again | activation is two statements and a switch; a write looks for the primary after it wrote |
| Resumable uploads | `tus.rs`, client `transfer.rs` | `tus_uploads`, partial files | create, patch, finish, delete, resume | every byte once and in order; finished once | retry against a late append, crash, resumption against finish |
| Key ring | `crypto.rs`, `keymgmt.rs` | key file, keys in memory | load, first key, rotate | an id names one key for ever; a chunk's key is known to the next start | memory changes before disk; the write of the file may tear it |
| Folder tree | `folders.rs`, `files.rs`, `graphql.rs` | `folders`, `files.folder_id` | create, move, rename, delete with descendants | acyclic; nothing live under a deleted folder | concurrent moves; a cascade of separate UPDATEs |
| Tokens, sessions, login | `auth.rs`, `admin.rs`, `konnect.rs` | `tokens`, `sessions`, `oauth_states` | create, renew, rotate, delete, log in and out | a session opens the account of who logged in; a login serves once | rows read one statement before they are named |
| Share links | `sharing.rs`, `share_page.rs` | `shares`, tickets, attempt budget | create, revoke, resolve, page, content | no content after expiry or revocation, or without the password | tickets and keys that outlive each other |
| Permissions, groups | `acl.rs`, `groups.rs`, `sharing.rs` | `permissions`, `groups`, `group_members` | grant, revoke, delete a group, decide | a decision agrees with the rows; a revocation ends access | a decision is three SELECTs, a deletion two DELETEs |
| Tags, comments, favorites | `tags.rs`, `comments.rs` | rows of their own | attach, detach, delete | a label can be seen and removed | attach against the deletion of the tag |
| Downloads, ranges | `files.rs`, `storage.rs` | lengths remembered | `parse_range`, the body stream | the bytes asked for, no others, as long as announced | boundaries, chunks that vanish during the body |
| Desktop client | `client/src-tauri` | local disk, `redirected_folders.json`, transfers | upload, download, redirect a known folder, revert | resumes where the server is; loses no document; a redirection can be undone | retries; moves that stop half-way, beside downloads and their owner |
| Rate limits, search, audit, MCP, WebDAV | | rows of their own | CRUD, adapters | | not modelled, see below |

They meet in few places: every writer of versions goes through
`store_new_version` and the chunk store's `write`; every permanent deletion goes
through `purge_resource` and `release_manifest`; the chunk store alone knows
backends, tiers and keys.

## Plan

| | Module | Content | State |
|---|---|---|---|
| 1 | `VersionStore` | versions, references, conflicts, trash, purge, gc, one process with crashes | done, checked, its safety proved |
| 2 | `ChunkStore`, `Tiering` | hot and cold copies, demotion, promotion, delete, crash; implements the set of blobs that `VersionStore` takes it for | done, checked, its safety and the refinement proved |
| 3 | `UploadPromise`, `TusUpload` | client, server, resumption task, crash; implements an append-only upload that is stored | done, checked, its safety proved |
| 4 | `FolderTree` | create, move, rename, cascading delete, trash, purge, retention | done, checked, its safety proved |
| 5 | `Credentials` | tokens, sessions, the login, links, passwords, tickets | done, checked, its safety proved |
| 6 | `Access` | permissions, groups, the decision, tags, favorites, comments | done, checked, its safety proved |
| 7 | `Download` | ranges, headers, the body chunk by chunk | done, checked, its safety proved |
| 8 | `Backends` | activation, choice at start, routing of writes and reads, key ring and key file | done, checked, its safety proved |
| 9 | `Desktop` | the client's downloads, known folders and the record of where they were | done, checked, its safety proved |
| 10 | `Quota` | sizes of chunks, `used_bytes`, the checks against them | not modelled |

Each component gets `MC<Module>` with its instances and `<Module>Proofs` where
there is something to prove; `ClientProofs` has the proofs of `Desktop` and of `Download`. `VersionStore` takes the chunk store for a set of blobs,
whose inside is `Tiering` (tiers of one backend) and `Backends` (several backends, no
tiers); `TusUpload` takes a version for a content; `Credentials` and `Access` take the
resource for a row with a state, whose life is in `FolderTree`; `Download` takes the
version for a manifest that `VersionStore` gives it, and `Desktop` the body of a download for
chunks that come or an error, which is what `Download` sends.

Every safety property that a run checks, invariant or action property, is a theorem, and so are
the two refinements (`ChunkStore` and, its safety part, `UploadPromise`). The liveness
properties stay with TLC.

## VersionStore

### What it models

`VersionStore.tla` has the tables `files` (status, name, current version),
`file_versions` (the set `stored`) and `chunks` (`rows` and `refcount`), the set
of `blobs`, and the handlers in flight. A request `r` has a program counter
`pc[r]`, the locals its handler keeps across awaits (`arg`, `file`, `num`,
`idx`, and for a purge `todo` and `drop`), and runs at most once, which lets a
version row be named by the request that inserted it. The sweep of `gc.rs` has
its own locals (`sweepTodo`, `sweepDrop`).

| Actions | Code |
|---|---|
| `BeginWrite`, `Check`, `Lookup`, `Create` | `upload`, `upload_delta`, `finalize`: the request, the check that each hash has a row (finalize), find-or-create of the file |
| `CheckBase`, `Fork` | `store_new_version_impl`: the base against `MAX(version_no)`, the conflicted copy |
| `WriteBlob`, `PutBlob` | `ChunkStore::write`: the blob, unless it is there |
| `SeeRow`, `Bump`, `InsertRow` | `bump_or_insert_chunk_refcount` |
| `Number`, `InsertVersion`, `SetCurrent` | `next_version_no` and the two statements after it |
| `BeginChunk`, `ChunkRow`, `ChunkBlob`, `ChunkInsert` | `upload_chunk` |
| `BeginRestore`, `Rebump` | `restore` (files), which numbers first and bumps without looking |
| `DeleteFile`, `TrashRestore` | soft delete and its undoing |
| `BeginPurge`, `SelectManifests`, `DeleteVersions`, `DeleteFileRow`, `Release`, `DropRow`, `DropBlob`, `EndPurge` | `purge_resource` and `release_manifest` |
| `SweepSelect`, `SweepRow`, `SweepBlob` | `sweep_orphaned_chunks` |
| `RemoveRow`, `RemoveBlob` | what both do to row and blob, or do not |
| `Abort`, `Crash` | a handler that stops where it is; a restart |

One action is one statement, except where a statement only reads and the next
acts on the same row with an effect that the pause cannot change (a soft delete
re-stamps a row; a blob written twice is the same blob). The audit log, the
full-text index and the quota counters are left out: nothing here reads them.
A purge releases its references in any order, where the code goes through the
manifests in order: a superset of the code's behaviours. A restarted process
gets no new requests beyond the unused ones of `Req`.

Where the code drops the error of a statement the action has a branch in which the
statement did nothing (`Ignored`, counted in `MaxFaults`) and the handler goes on: the
UPDATE of a release is skipped and its reference forgotten; the DELETE of a row fails
and the blob is deleted all the same; the blob stays; a SELECT of `finalize`,
`bump_or_insert_chunk_refcount` or `upload_chunk` is taken for no row.

Foreign keys are assumed enforced (the default of the SQLite that hiqlite
bundles): inserting a version needs its files row and deleting a files row needs
its versions gone. This is the one assumption about code outside the repository.
An edit names its file by name; uploading again onto a conflicted copy is not
modelled (it behaves as any file does), nor are renames and moves.

Four variables are history, read by properties alone: `refs`, the references
taken and not yet released, as pairs of a request and a position of its manifest;
`clash`, the hashes for which a handler that uses them and a deleter that
condemns them were under way together, or that two purges released twice;
`hollow`, the hashes whose row outlived a DELETE that failed unseen, until the blob is
written again or the row goes;
`raced`, the requests that worked on a file while another did.

### Runs

| Run | Instance | Shows |
|---|---|---|
| `store_safety` | 3 requests, 1 chunk, 2 files, 1 fault; about 1,027,000 states | the six invariants below |
| `store_liveness` | 2 requests, contents `<<a>>` and `<<a, b>>`, 1 fault; about 71,000 states | `UnheldRowsAreSwept` |
| `store_shared` | 3 requests, no fault | *violated*: a stored version loses its chunk |

* `IntactUnlessExcused`: a chunk of a stored version has its row and its blob,
  unless a use and a deletion of it overlapped, or the DELETE of its row failed unseen.
  So conflicts, restores, deduplication, aborts, crashes and every other failure
  never lose data: `clash` and `hollow` are the only ways.
* `NeverOverCounted`: a count never exceeds the references that exist, so no
  chunk is kept by a count that stands for nothing.
* `StoredVersionsHoldTheirReferences`: the order of the statements works, even
  when purges overlap or fail half-way.
* `EditFollowsBaseUnlessRaced`, `NumbersDistinctUnlessRaced`: conflict detection
  and numbering are right when no two requests work on one file at a time.
* `UnheldRowsAreSwept`: whatever happened, a row that nothing refers to is
  deleted or referenced again.
* `TypeOK`.

`store_shared` (`SharedChunkSurvives`) drops both exemptions and needs only an overlap.
`StoreHollow.cfg` (`IntactUnlessClash`) drops `hollow` alone: a purge sets a count to zero, its
DELETE of the row fails and nobody hears of it, the blob is deleted; the next `upload_chunk` finds
the row and skips its write, `finalize` finds it too, and a version is stored that cannot be read.
`StoreRaced.cfg` (`NothingSilentlyOverwritten`) is the overlap that `EditFollowsBaseUnlessRaced`
exempts: two edits of one base, both past the check before either is stored.

**Bounds.** `Req` bounds the workload, `MaxFiles` the rows of `files`,
`MaxFaults` the aborts and crashes together. Three requests are enough for
each pattern the statements allow: two writers and a purge, two purges of one
version, a chunk upload with a finalize and the sweep. One chunk is shared by
everything, which is where deduplication and deletion meet; the liveness run has
two, so that a handler can stop between the chunks of a manifest. Two files are
the original and its conflicted copy, or two files of one name. Deadlock is not
checked: when every request has run, the system rests.

**Fairness.** `WF_vars(Handler(r))`: a handler that nobody interrupts is polled to
its end. `WF_vars(Sweep)`: the gc task loops forever (`main.rs` 159-168) and goes on
after an error. No fairness for requests, aborts or crashes.

### Proofs

`VersionStoreProofs.tla` proves, for every `Hash`, `Content`, `Name`, `Req`,
`MaxFiles` and `MaxFaults` that satisfy `VersionStoreAssumption` (contents are
sequences of hashes; the copy's name is not one users pick; `NoVersion` is not a
request; the bounds are natural numbers):

* `TypesAreKept`: `Spec => []TypeOK`;
* `CountsNeverExceedReferences`: `Spec => []NeverOverCounted`;
* `StoredVersionsKeepTheirReferences`: `Spec => []StoredVersionsHoldTheirReferences`;
* `StoredVersionsAreIntact`: `Spec => []IntactUnlessExcused`;
* `NumbersAreDistinct`: `Spec => []NumbersDistinctUnlessRaced`;
* `EditsFollowTheirBase`: `Spec => []EditFollowsBaseUnlessRaced`.

None of the invariants is inductive alone. `IInv` adds:

* `NumsBounded`: numbers are natural and versions have positive ones, so that the
  maximum taken by `LastNo` exists;
* `PlaceOK`: the cursor `idx[r]` stands inside the manifest in every loop, at 1
  outside, and the labels fit the operation;
* `RefsOK`: a writer holds the references for the positions behind its cursor, all of
  them once it is numbered (restores: once past the loop), and a stored version all of
  its own;
* `TodoOK`: what a purge still has to release belongs to requests whose versions are
  not stored any more once the purge is past its DELETE, so that releasing never takes
  a reference from a stored version;
* `CountsOK`: where there is a row the count is at most the number of references held,
  which needs them finite. A release that fails forgets a reference and leaves the count: what
  is held is still counted (`SkipKeeps`).

`Preserved` (`IInv /\ [Next]_vars => IInv'`) goes conjunct by conjunct and, in
each, action by action; `HeldGrows` and `HeldShrinks` say how the set of references
of a chunk changes when one is taken or released, and how its cardinality does.

`StoredVersionsAreIntact` needs a second invariant, `SoundOK`, about each hash outside
`clash` and, where it speaks of the blob, outside `hollow`:

* `ApartAt`: nobody deletes it while a request that has it in its manifest is under way;
* `OwedAt`: what a purge has to release is still held, and owed by no other purge, so no
  reference is released twice;
* `CountedAt`: hence the count is *exactly* the number of references, a chunk that is held has
  its row and is not about to be deleted, and a row has its blob. (`CountsOK` has
  only `<=`; a count that is too low lets a chunk go too early.);
* `SeenAt`: what a request has looked at or written so far (`Rowed`, `Blobbed`, and the positions
  behind its cursor) is still there, so that the row it inserts finds a blob.

`BlankOK` says which manifests are empty. The lemmas take actions by what they do to a chunk:
`MoveKeeps` for those that only go on, `TakesRef`, `ReleaseKeeps`, `RemoveKeeps`, `StopKeeps`,
`BeginKeeps`, and the two of the sweep.

The other two rest on `AloneOK`, of requests outside `raced`: `FiledAt` (a request works on a row
that was created, and rows keep their names), `UnsharedAt` (nobody else works on its file),
`NumberAt` (its number is above all stored ones of the file) and `BaseAt` (the last number is
still the base it checked). `NumbersDistinctUnlessRaced` is part of it, for the deletion of one
file's versions must not be of another's.

Only `UnheldRowsAreSwept`, which is liveness, is model-checked only.

## Tiering

### What it models

`Tiering.tla` is the inside of the chunk store: the blobs of the hot and of the
cold backend (`hot`, `cold`), the rows of `chunk_locations` (`located`) and of
`chunk_access` (`tier`, and `fresh` for a `last_accessed` within
`cold_after_days`). A handler `p` works on one chunk `on[p]` and stops at every
await (`pc[p]`); the sweep is one more process (`phase`, `todo`, `chaud`,
`progress`) that demotes one chunk at a time (`move`, `down`).

| Actions | Code |
|---|---|
| `BeginWrite`, `WriteExists`, `WritePut`, `WriteLocate`, `WriteAccount` | `write_chunk_bytes` with `write_encrypted`: the test for the blob, the blob, the location row, the access row |
| `BeginRead`, `ReadDirect`, `ReadTier`, `ReadHot`, `ReadCold` | `read_chunk_encrypted`: recorded location first, then `read_legacy`, which asks for the tier |
| `PromoteWrite`, `PromoteDelete`, `PromoteStamp` | the end of `read_legacy` for a cold chunk |
| `Answer` | the error reaches the client |
| `BeginDelete`, `Wipe`, `Unlocate` | `delete_chunk` |
| `SweepByAge`, `EndByAge`, `TotalHot`, `SelectLot`, `EndLot` | `run_tiering_sweep`: the age pass, the sum, the lots of the size pass |
| `DemoteRead`, `DemoteWrite`, `DemoteDelete`, `DemoteMark` | `demote_to_cold` |
| `Ages` | the clock passes `cold_after_days` for a chunk |
| `Abort`, `SweepFails`, `Crash` | a handler, the sweep or the program stops where it is |

What is abstracted. The only write location is the hot operator (the default: one
primary backend and no shard or replica), so a location row points there. Every
chunk has size one, so `Ceiling` counts chunks; the back-fill of the `bytes` column
is not modelled. The size pass takes the least recently accessed chunks; the model
takes any `Lot` of them, a superset. Calls whose error the code drops may do nothing, and
their handler goes on: the statements on `chunk_locations` and `chunk_access` of a write, a
read, a promotion and a deletion, the deletion of a copy in a promotion or a
deletion; a SELECT of the locations that fails finds none, one of the tier is answered
'hot', and a demotion takes a failed read of the hot copy for a blob that is gone. Every other
failing call ends its handler or the sweep, as the `?` operators do. A write and a deletion of the same chunk at a time are left out here,
since `VersionStore` is about exactly that.

History variables, which no action's guard reads: `kept`, the chunks written and not
deleted since; `raced`, those promoted and demoted at a time; `mixed`, those that
any two moves worked on at a time; `cut`, those whose row was not told of their last move
or write, because that stopped before its `UPDATE` or the `UPDATE` failed; `crossed`, the
handlers whose chunk was moved by somebody else meanwhile; `misled`, the readers of a cold chunk
whose SELECT of its tier failed. A completed write that nothing crossed takes its chunk
out of `raced` and `mixed`, and out of `cut` if its row does not go on saying cold
where there is no cold copy (`Settle`): it is whole again.

### Runs

| Run | Instance | Shows |
|---|---|---|
| `tier_safety` | 1 chunk, 2 handlers, the sweep, 1 fault; about 839,000 states | the types, `KeptHasACopy`, `KeptIsReadable`, `IsAStore` |
| `tier_live` | 1 chunk, 1 handler, the sweep, 1 fault; about 36,000 states | `DuplicatesAreCorrected`, `CeilingIsReached` |

* `KeptHasACopy`: copying before deleting is right, wherever anybody stops. The one
  way to lose a chunk is a promotion and a demotion of it that overlap.
* `KeptIsReadable`: at rest, a read looks where the blob is, unless moves of the chunk
  overlapped or its row missed the last `UPDATE`.
* `IsAStore`: `Tiering` implements `ChunkStore`, a set of blobs with requests on it. The blobs
  are `hot \cup cold`; a request is `write`, `read`, `got` (a read that has its bytes and is
  promoting the chunk) or `delete`, whatever await its handler is at; `misplaced` is
  `mixed \cup cut`, `doubtful` is `raced`, and the store's `crossed` has the misled readers too. So the moves of the sweep are invisible, and the
  store says when a request may go wrong: a write that nothing crossed leaves its chunk, a served
  read found it, a read of a kept chunk misses only if it was crossed (the chunk moved between its
  questions, or one of them failed unheard) or the chunk is misplaced (the step `Miss`, and `ReadsFailOnlyWhenCrossed`), a chunk
  disappears only by a deletion or in doubt. Doubt begins only while a read is promoting
  the chunk: a store that is only written loses nothing, however often it is swept.
* `DuplicatesAreCorrected`: an old chunk that an interrupted demotion left in both
  tiers does not stay so.
* `CeilingIsReached`: the size pass keeps bringing the hot tier under its ceiling,
  unless a hot blob has no row that says so, or a row that says hot has no blob (the
  pass counts such rows and gives up on them, see the hazards).

Two things a reader of the comments would not expect have configurations of their own. `TierCut.cfg`: a
demotion cut after its delete and before its `UPDATE` leaves no duplicate but a row that
says hot for a blob that is cold, so the chunk is not found (`storage.rs` 635), and no later pass
corrects it, for a demotion returns when there is no hot blob. `TierStale.cfg`: a read that a
recorded location answers refreshes no `last_accessed` (`storage.rs` 561), so the age pass
demotes chunks that are read every day.

**Bounds.** `Proc` bounds the calls under way, `MaxFaults` the interruptions; calls
repeat without bound. Two handlers and the sweep are every pair and triple of moves
on one chunk; chunks meet only in the size pass, through `chaud`. With `Ceiling = 0`
and `Lot = 1` one chunk makes that pass run, recount and end.
Handlers are symmetric in `tier_safety`; the liveness run uses no symmetry.

**Fairness.** `WF_vars(Sweep)`: the tiering task of `main.rs` (133-145) loops for ever and
only logs an error. `WF_vars(Handler(p))`: a call that nobody interrupts ends. None for
the start of calls, `Ages`, or faults.

### Proofs

`TieringProofs.tla` proves, for every `Hash` (finite), `Proc`, `Ceiling`, `Lot` and
`MaxFaults` that satisfy `TieringAssumption`:

* `TierTypesAreKept`: `Spec => []TypeOK`;
* `KeptChunksHaveACopy`: `Spec => []KeptHasACopy`;
* `KeptChunksAreReadable`: `Spec => []KeptIsReadable`;
* `ReadsFailOnlyIfCrossed`: `Spec => ReadsFailOnlyWhenCrossed`, an action property;
* `TieringIsAStore`: `Spec => IsAStore`, the refinement of `ChunkStore`.

`KeptHasACopy` is not inductive: the two steps that delete a copy must find the other
one, and nothing in it says they do. `IInv` adds `Copied` (a demotion that is about to
delete the hot blob has its cold copy) and `Lifted` (the converse for a promotion);
both hold because of `Apart` (a chunk being promoted is not being demoted, or it
raced). A write that finishes takes its chunk out of `raced`, so `Uncrossed` says that a
write nothing crossed is alone and its blob is hot; `Alone` keeps deletions away from
writes; `Backed` is `KeptHasACopy` extended to chunks whose write is past its blob;
`Shape` ties the locals of the sweep together. TLC checked `IInv` before it was
proved.

`KeptIsReadable` speaks of rest, and of chunks that are not `mixed`; what leads there is
`Orderly`: `Marked` and `Sole`, that one move at a time works on such a chunk and that a write
which was not crossed is the only one; `Queue`, that what the sweep has selected has a row that
says hot; and `Whole`, that such a chunk is in the tier its row names, unless a move of it
stands between its last storage call and its `UPDATE`. A write that ends clears `mixed` and
`cut`, so `Whole` has to say what it found: that its chunk is hot and nobody moves it.
For `ReadsFailOnlyWhenCrossed`, `Still` says that nobody moves the chunk of a read that
nothing has crossed, and `Told` that such a read, once it was told a tier and not misled, is on
its way to a blob that is there.

`TieringIsAStore` uses these invariants and adds none. Every step is matched with a step of the
store or with none of it: the lookups of a handler change no request (`RequestsMove`), its
storage calls are `Put`, `Get`, `Remove` or a `Revive`, its end is `Written`, `Serve`, `Miss` or
`Deleted`, and the sweep's are `Move`, `Lose`, `MoveFails` or a stutter. Three facts need the
invariants: a write that returns finds its blob (`Uncrossed` if nothing crossed it, `Backed`
otherwise, with `raced` as the doubt; its row may have missed it, so that `Written` may leave the
chunk misplaced), what the sweep deletes has its copy (`Copied`, so that
`hot \cup cold` does not change), and a read that misses was crossed or misled (`Told`, `Whole`).
`MovesUnsettle` says once, for all steps that select a chunk to move, that `raced` grows only
with a promotion of it under way. The liveness properties are model-checked only.

## TusUpload

### What it models

`UploadPromise.tla` is what a resumable upload promises: an offset that only grows,
contents that are what was sent, bytes that are not thrown away before they are
stored, and a version in the end for whatever was received in full and not withdrawn, if the
place it is for goes on existing (`housed`).
`TusUpload.tla` is one upload as the code does it: the row of `tus_uploads`
(`registered`, `uploaded`, `completed`), the partial file (`part`, `there`), the
versions it was made into (`versions`) and what was charged for them (`charged`); the folder and
the token that its files row will name (`home`: not there yet, there, gone for good); the
PATCH handlers (`pc`, `req`), the assembly that each may spawn and the resumer's
(`step`, `data`), and the client (`cpc`, `coff`, `peer`).

| Actions | Code |
|---|---|
| `CreateFile`, `CreateRow` | `create_upload`: the partial file, then the row |
| `Send`, `Disconnect`, `Accept`, `Conflict`, `Refuse` | a turn of `patch_loop`: the PATCH, an answer that never comes, 204, 409, the rest |
| `Resume`, `HeadOffset` | `head_offset` and `head_upload` |
| `Cancel`, `DeleteFile`, `DeleteRow` | the end of `upload_stream` and `delete_upload` |
| `Check`, `OpenPart`, `WriteBlock`, `Record` | `patch_upload`: the offset against the row, the append, the UPDATE, the task it spawns with the last byte |
| `PatchFails`, `Drop` | an error of a call, the future that axum drops when the client is gone |
| `ReadPart`, `InsertVersion`, `Account`, `Complete`, `Remove`, `FinishFails` | `finish_upload` |
| `SelectPending`, `CheckPart` | `reprendre_envois_inacheves` |
| `Admit`, `Evict` | a folder of that number is made; it is purged, or the token is deleted, which the foreign keys forbid while the files row of an assembly stands |
| `Crash` | a restart |

The client is both the desktop client, which withdraws the upload when a PATCH fails,
and any other tus client, which asks for the offset and goes on; it sends the right
bytes and never more than it announced, so the 400 of `patch_upload` does not arise.
A byte stands for a block that one `write(2)` appends, so a PATCH can stop after
some of its bytes. An assembly reads the partial file at once: nothing appends to it
meanwhile unless PATCHes overlapped, and all properties of contents make an exception of
that. Which file the version belongs to and what its chunks are is the subject of
`VersionStore`. The error of both `remove_file` calls is ignored, as in the code:
the file may stay. Nobody looks at the folder an upload names before its last byte has come
(`tus.rs` 181): `ReadPart`, which stands for the lookup of the file, the INSERT of its row and the
reading of the bytes, succeeds only while the folder is there, for the foreign key refuses the
row otherwise, at every attempt. The quota test of `create_upload` is not modelled.

History, never read by a guard: `withdrawn` (DELETE was here), `mangled` (a PATCH
passed the check while another was appending, or one stopped after it appended and
before it recorded), `again` (two assemblies overlapped, or one stopped between
its version and `completed = 1`).

### Runs

| Run | Instance | Shows |
|---|---|---|
| `tus_upload` | lengths 0, 1, 3; 2 handlers, the resumer, 1 fault; about 982,000 states | the five invariants and `KeepsPromise` |

* `ReportedIsOnDisk`: appending before recording is the right order: what HEAD reports
  can be resumed from, wherever a handler stops.
* `DoneIsReceived`: the client never believes it is done too early.
* `StoredOnceUnlessAgain`, `ChargedIsStored`: one version, and the quota is charged for
  stored bytes only; the ways out are those that `again` and `mangled` name.
* `KeepsPromise`: `TusUpload` implements `UploadPromise`. The offset is `uploaded`,
  the bytes are lost when the partial file is gone, and the promise ends (`spoilt`)
  once `mangled`. Its liveness says that an upload received in full is stored, crash or
  no crash, without the client: the purpose of the resumer. It does not promise that for an
  upload whose folder was never there or was purged: that one is received in full, never stored,
  and tried again every ten minutes. Empty uploads are the other
  exception `UploadPromise` makes: the desktop client sends no PATCH for them, so nothing
  ever stores them.

What is excused happens. `again` needs no fault: the resumer's SELECT cannot see that an
assembly is under way, and one upload becomes two versions (`TusTwice.cfg`). `mangled` needs one lost
answer: the offset check of the retry and the append of the handler that is still running
are two awaits apart, and the version is not what was sent.

**Bounds.** `MaxFaults` bounds disconnections, errors and crashes together (a dropped
handler costs nothing more than the disconnection before it). Two handlers are a PATCH
and its retry; length 3 allows a PATCH of several blocks followed by another; 0 is the
boundary. Two faults were tried with length 2 and showed nothing new. Deadlock is not
checked: an upload comes to rest.

**Fairness.** `WF_vars(Resumption)`: the resumption task of `main.rs` (103-121) comes
round every ten minutes and goes on after an error. `WF_vars(Handler(p))`,
`WF_vars(Assembly(p))`: a handler that nobody drops and a detached task run to their end.
None for the client or for faults, which are bounded.

### Proofs

`TusUploadProofs.tla` proves, for every `Proc`, `Sizes` and `MaxFaults` that satisfy
`TusAssumption`:

* `UploadTypesAreKept`: `Spec => []TypeOK`;
* `ReportedBytesAreOnDisk`: `Spec => []ReportedIsOnDisk`;
* `DoneMeansReceived`: `Spec => []DoneIsReceived`;
* `UploadImplementsPromise`: `Spec => Promise!Init /\ [][Promise!Next]_(Promise!vars)`,
  the safety part of `KeepsPromise`;
* `OneVersionAnUpload`: `Spec => []StoredOnceUnlessAgain`;
* `NothingUnstoredIsCharged`: `Spec => []ChargedIsStored`.

The argument of the refinement is that, unless `mangled`, one PATCH appends at a time
and from where the row says (`OneWriter`), so the partial file is the beginning of
the upload and no longer than the row and that PATCH account for (`Prefix`), so an
assembly that begins reads all of it and no PATCH can pass the check any more
(`Assembled`). `ReqOK` keeps a PATCH inside the length announced, `OnDisk` is
`ReportedIsOnDisk` with the blocks of PATCHes under way, `Left` says that a version
precedes the removal of its bytes and that the folder stands until it is stored, `Heard` that the client hears after the row, and
`Fresh`, `Gone` and `Waits` tie the client's state to the server's. TLC checked each part before
it was proved. The lemmas `CheckEffect` to `AssemblyIsSteady` say what a step does to the
PATCH it belongs to and that it leaves the others alone; every part of the invariant
then goes action by action.

`OneVersionAnUpload` adds `OnceInv`: unless `again` or `mangled`, assemblies run one at a time
(`Single`); once one has begun no PATCH appends any more and the row says that all is received
(`Late`); one that has still to store finds nothing stored (`Unsaved`), because what is stored
is marked `completed` or about to be (`Marked`). `Rested` and `Barren` keep a handler that has
assembled nothing, and an upload that does not exist, out of it.

`NothingUnstoredIsCharged` holds without exception, so its invariant may not use any of that.
`Ledger` gives every charge a version of its own: there are amounts, one for each version and
none above its length, whose running sum is what was charged, and an assembly between its INSERT
and its UPDATE has a version of the length it will charge whose amount is still 0. That makes
each step a change of one amount. `ChargedIsStored` itself sums with a recursive function over
the versions. That the sum exists and is at least the amounts is two inductions over a position,
which `Induct` (a set with 0 that has the successor of each of its members) makes for sets instead of formulas.

The liveness of `KeepsPromise` is model-checked only.

## FolderTree

### What it models

`FolderTree.tla` is the tree: for every folder and file its parent, whether it is live, in
the trash or gone (`stat`), and the day of its deletion (`since`); the retention policies
(`mine`, `global`); requests and the retention sweep, each with a program counter and the
locals its handler keeps (`job`). Folders and files are numbered in the order of their ids.

| Actions | Code |
|---|---|
| `BeginCreate`, `Insert`, `UploadInto` | `create_folder`; the files row of an upload, whose folder nobody but the foreign key looks at |
| `BeginDelete`, `Collect`, `Mark`, `MarkFiles` | `delete_folder`: the walk of `collect_with_descendants`, one SELECT a step, then two UPDATEs for each folder found |
| `BeginDrop`, `Drop` | `delete_file`; the GraphQL `delete_folder`, which looks at no descendant |
| `BeginMove`, `Collect`, `Target`, `Place` | `update_folder`: the walk that looks for the target, the target, the UPDATE |
| `BeginMoveFile`, `BeginRename` | `update_file`, and both with a name alone |
| `BeginRestore`, `Restore`, `BeginPurge`, `Count`, `DeleteRow` | `trash.rs`: the check, then the UPDATE, or the count of live children and the DELETE |
| `PutMine`, `PutGlobal` | `upsert_policy`; NULL conflicts with nothing, so the global policy is inserted again and the first one stays in force |
| `SweepStart`, `SweepFiles`, `SweepRow`, `SweepEnd` | `purge_expired_trash`, folders first; a SELECT of a policy that fails is taken for no policy (`Unheard`) |
| `Tick`, `Abort`, `Crash` | a day passes; a handler, or all of them, stop between two statements |

A name that is taken refuses a move, which is then not started; who may do what is in
`Access`; a sweep of an empty trash is left out. A walk longer than `MaxWalk` meets folders
again and stands for one that does not end. The releases of a purged file are in
`VersionStore`. History: `stale` (somebody wrote since the actor looked), `raced` (such an
actor wrote, or one beside a half-done deletion), `loose` (one request left something live
under a trashed folder), `asked` (the default there was when the sweep began), `misread` (which of
the two policies that the sweep goes by could not be read).

### Runs

| Run | Instance | Shows |
|---|---|---|
| `tree` | 2 folders, 1 file, 2 requests at a time, 2 in all, the sweep, 1 fault, 1 day; about 569,000 states | the types and the four properties below |

* `AcyclicUnlessExcused`: a move never closes a cycle by itself. Two at a time may, or one
  beside whose walk something comes below (`TreeCycle.cfg`); so may one, below a trashed folder, because the walk follows live folders only. On a cycle a walk, which
  has no memory of the folders it met, does not end.
* `LiveIsListed`: after a deletion whatever is live is in a live folder, up to the root.
* `DestroyedFromTrash`: only what is in the trash is destroyed, by the sweep only past its
  retention (`deleted_at` is compared as text: on the day of the cutoff it is later); a
  restore between the check and the DELETE is the exception. The retention is the owner's, else
  the global one; where the SELECT of one of them failed it is what the code takes in its place,
  the default or 30 days, and nowhere else. `TreeMisread.cfg` is the property without that
  allowance: one failed SELECT and the sweep destroys what its owner wanted kept.
* `EmptiesUnlessRefused`: the sweep purges what is expired, unless a foreign key refuses a
  row on its way. That is no rare case: without the exemption TLC shows at once that a folder
  deleted with one file in it is refused for ever, because folders come before files, and ends
  every sweep.

**Bounds.** Two folders and a file are the least tree with a cycle, a subtree and a file to
strand; two requests are every pair of handlers. The instance with three folders passed as well
(1.9 million states). `MaxDay = 1` with a default of 0 days puts a row on the day of its cutoff and
past it; a policy of 1 day keeps it longer than the default would. Deadlock is not checked: bounded requests end.

**Fairness.** `WF_vars(Sweep)`: the hourly task of `main.rs` goes on after an error. None for
requests, which may stop anywhere.

### Proofs

`FolderTreeProofs.tla` proves, for any number of folders, files, handlers, requests, days and
faults, any retention and any bound of the walk that satisfy `FolderTreeAssumption`:

* `TypesHold`: `Spec => []TypeOK`;
* `FoldersStayATree`: `Spec => []AcyclicUnlessExcused`;
* `LiveStaysListed`: `Spec => []LiveIsListed`;
* `OnlyTrashIsDestroyed`: `Spec => DestroyedFromTrash`, an action property.

A cycle is shown absent without paths: `NoCycle`, every set of folders that is not empty has
one whose parent is outside it. `NoCycleTop` shows that this gives the formula of the run. A
move of `i` below `to` keeps it if some set of folders has `i`, not `to`, and all that is live
below its members (`Aside`): that is what the walk of `collect_with_descendants` has found when
it ends (`Walking`: everything found was live, and what lies below the part it looked into is
found too).

The rest of `IInv` is what an actor may rely on between two statements. `WatchAt(p)` holds as
long as nobody has written behind `p` and no deletion is half-way (`Clear`): `Walking`, `Moving`
(the target is live, and aside), and for a deletion `Marking`: what it found is closed, all that is
live elsewhere is listed, and the folders it has been through are empty. When it ends, all that
is live is listed again, which makes `LiveIsListed` inductive. `DoomAt` is the same for
a purge: what was in the trash when it looked still is, and past what the sweep read (`Known`: what
it took for the default is the same all along). `Fit` types the locals at each
step, and `Ranks` and `RowsAre` say that a SELECT returns the rows that fit, each once.

`EmptiesUnlessRefused`, which is liveness, is model-checked only.

## Credentials

### What it models

`Credentials.tla` has the rows of `tokens`, `sessions`, `oauth_states` and `shares`, one
shared file, the number of the key that signs tickets, the budget cells of
`PASSWORD_ATTEMPTS`, and the tickets minted. A secret is the row it leads to and the number
of its rotations, so what an old secret opens is in the model; time is a number of moments, a
day is `DayLen` of them.

| Actions | Code |
|---|---|
| `Bearer`, `Cookie`, `GqlBearer` | `from_request_parts`, `graphql_handler`: what was read is what the request goes by, however long it takes |
| `CreateToken`, `RenewToken`, `RotateToken`, `DeleteToken`, `Logout` | `admin.rs`, `auth.rs`; the foreign keys refuse the deletion of a token that is named |
| `StartLogin`, `TakeState`, `DropState`, `DropStateFails`, `FindToken`, `Refused`, `InsertSession` | the KonnectID login: the state row, its SELECT and its DELETE (whose error is ignored), the answer of the provider, the oldest token of the person, the session |
| `CreateShare`, `GqlCreateShare`, `InsertShare`, `AskRevoke`, `Revoke` | links |
| `WithPassword`, `WithTicket`, `ShowPage`, `ServeFile`, `ResolveShare`, `Count` | `load_valid_share`, the page, the content, the counter |
| `FileGoes`, `RotateKey`, `Restart`, `Tick` | the file is trashed, restored or purged; the key changes; everything in memory is lost and `bootstrap_admin` runs; time passes |

What the code does and one might not expect is in the model: a session lasts until the day
it expires on is over (`expires_at` has a `T` where `datetime()` has a space); sessions are
never deleted but by logout, so a token that logged in cannot be deleted before; an expiry
that does not parse never comes for a token and has passed for a link, and GraphQL accepts
such a one; the password of a link made by GraphQL is a bare digest, which no password
matches; GraphQL does not look at the expiry of a token. History: `crossed`, `who`, `from`,
`tried`.

### Runs

| Run | Instance | Shows |
|---|---|---|
| `credentials` | 3 tokens, 2 sessions, 2 logins, 2 links, 2 requests at a time, 3 in all, 2 keys, 1 fault; about 439,000 states | the types and the four properties below |

* `SessionIsOfPerson`: a session opens the account of who logged in, although the token is
  looked up one statement before it is named: ids are never given twice and a live session
  keeps its token from deletion.
* `OneSessionPerLoginUnlessCrossed`: a state serves once, unless two callbacks came with it at a
  time (`LoginCrossed.cfg`) or its DELETE failed unseen.
* `BudgetHolds`: over any stretch of time, since the last start, a link's password is not tried
  more than `Burst` times and once per `Period`, by all routes together.
* `ServedIsDue`: whoever gets to the content asked while the link was in force and gave its
  password, then or for a ticket.

**Bounds.** Two tokens exist and one can be made, which a deletion and a creation around a
lookup need; two callbacks with one state or two states; `Burst = Period = 1` is the
tightest budget; times 0 and 1 with a day of two moments end a lifetime and not the day.
`Focus` allows a third request only while the clock, the key and the faults stand where they
began and no link is touched. Deadlock is not checked: bounded requests and times end.

### Proofs

`CredentialsProofs.tla` proves all five (`SessionsOfPersons`, `StatesServeOnce`, `BudgetsHold`,
`ServedAreDue`, and `CredentialTypesAreKept` for `TypeOK`) for any tokens, persons, logins, links, lifetimes, burst, period and requests,
under `CredentialsAssumption`. `Types`, which is `TypeOK` without its bounds, is shown once; each
property has an invariant of its own over it, and a `Keeps...` formula that says which steps
leave it alone:

* `Persons` adds `Found`: a token that a callback has looked up is, or was, of that person, and
  never becomes anybody else's, because ids are not given twice; the foreign key of `sessions`
  keeps it while a session names it;
* `Logins` adds `Alone`: once a callback is past a state the state is gone, at most one callback
  goes on with it, and none if a session came of it. It fails exactly for what is in `crossed`;
* `Budgets` ties the cell to the attempts: it is at least a period per attempt after any of them,
  so one more at a time that the cell allows leaves the budget standing (`Periods` is the
  division that it comes down to);
* `Dues` adds that a ticket was made for somebody who gave the password, or for a link that has
  none: a visitor of an open link gets a ticket for any password, which is sound only because a
  link never changes its lock and its id is never given again.

The bounds of `TypeOK` come last, in `Bounded`: `Carried`, what the locals of a request are at
each step that reads them (the foreign keys of the INSERTs rest on it); `Ranged`, the columns; and
`Rotations`: a token has no more secrets than requests have ended, because a rotation ends one.

## Access

### What it models

`Access.tla` has one resource and the rows about it: groups and members, permissions, tags and
labels, favorites, comments. The initial state has one of each, which stands for an earlier
request of each kind.

| Actions | Code |
|---|---|
| `CreateGroup`, `DeleteGroup`, `DropGroup`, `AddMember`, `RemoveMember` | `groups.rs`: the deletion is the DELETE of the members, then of the group; its permissions stay; `add_member` checks nothing |
| `AskGrant`, `FindGrantee`, `InsertGrant` | `create_permission`: the owner, the group of that name, the upsert (every group counts as grantee 0 in the unique index, so of two groups the second is refused) |
| `AskRevoke`, `DropGrant` | `revoke_permission`: by the id that was read |
| `CheckAccess`, `CheckDirect`, `CheckGroup`, `Answered` | `check_access`, one SELECT a step; one that fails finds nothing, and the check goes on (`Blind`) |
| `CreateTag`, `DeleteTag`, `DropLabels`, `DropTag`, `AttachTag`, `ResourceExists`, `InsertLabel`, `DetachTag`, `DropLabel` | `tags.rs` |
| `AddFavorite` to `DropComment` | `tags.rs`, `comments.rs`; no permission is asked for |
| `ResourceGoes`, `Stop` | the resource is trashed, restored or purged; a request stops where it is |

The deletion of a token is left out: foreign keys refuse it for whoever owns or granted
something. History: `late` (groups somebody was put in during or after their deletion), `ended`
(grantees whose revocation is done), `raced` (labels put on after those of their tag were
removed), and two marks in each check: that what it reads has changed, and that one of its SELECTs
failed.

### Runs

| Run | Instance | Shows |
|---|---|---|
| `access` | 3 tokens, 2 groups, 3 permissions, 2 requests at a time, 2 in all, 1 fault; about 260,000 states | the types and the four properties below |

* `DeadGroupGrantsNothingUnlessAdded`: the permissions a deleted group leaves behind are of use
  to nobody but who is put in it during the deletion or later. (They do go on taking the one
  place a group's grant has on the resource.)
* `RevokedIsEnded`: a finished revocation ends its grantee's access, unless it was given again
  between the SELECT and the DELETE or later.
* `CheckHoldsUnlessMoved`: the three SELECTs answer as one look would have, unless something
  they read changed meanwhile. When one of them fails unheard the check still allows no more than
  some grant that is there; but it may deny, the owner too (`AccessBlind.cfg`), and it may let a
  group's write go before the person's own read.
* `LabelsAreListedUnlessRaced`: a label can be seen and taken off, unless it was put on while its
  tag was being deleted.

**Bounds.** Two requests at a time are every pair of handlers, and the initial rows are what
they can meet. `Focus` lets requests about labels and requests about grants, which share
nothing but the resource, run one after the other, and fixes who tagged first. Deadlock is not
checked: bounded requests end.

### Proofs

`AccessProofs.tla` proves all five (`TypesHold`, `DeadGroups`, `Revoked`, `Checked`,
`LabelsListed`) for every set of tokens, administrators, names, levels and requests, and any
number of rows, under `AccessAssumption`. `IInv` adds to the types, part by part:

* `LabelInv`: a tag that is gone has no live label but raced ones, and the request that deletes
  it has removed them once it is past its first DELETE;
* `GrantInv`: no two live permissions have the same person, or two groups, as grantee; a
  revocation under way that was not disturbed is about a row that still has the grantee it read;
  hence no other row is left when that one goes;
* `GroupInv`: a group that is gone, or about to go, has no members but where it is `late`;
* `Checking`: a check past its first statements that is not marked found what is still there, so
  that its last answer agrees with the definition `Holds`; one that failed has at most found a
  grant that is there (`Might`).

Each part has its own step lemma; actions that do not touch what a part reads fall under a lemma
that says so once (`Keeps...`). That ids are taken in their order needs the least element of a
set of naturals to exist, which is proved from the well-foundedness of the naturals.

## Download

### What it models

`Download.tla` is the answer to one request after another for the bytes of a version: the range
(`ParseRange`), the headers (`Respond`), and the body, chunk by chunk (`SkipChunk`, `Send`,
`Cut`, `EndBody`), with the lengths that `chunk_plain_len` remembers across requests (`known`), and the
stream of `serve_public_file`, which sends whole chunks (`ServePublic`, `SendWhole`). `Lose`
takes a chunk away between two reads, as a purge does. A byte is its chunk and its place there,
so that order and repetition show.

### Runs

| Run | Instance | Shows |
|---|---|---|
| `download` | every manifest of up to 3 chunks over 2 hashes, of 0 to 2 bytes, every range up to one past the end; about 355,000 states | `SentIsAsked` |

`SentIsAsked` compares with a definition that knows positions and not chunks: what was sent so
far begins the bytes asked for; a body that was not cut is all of them and as long as its
header said. A recorded size that is not the content's is excepted (an upload trusts the size a
client gives, `files.rs` 317), and in the model so that the exception is not empty. It is the only
property: types say nothing about a module without interleaving of writers. Empty chunks, empty
versions, a chunk twice in a manifest, suffix ranges longer than the version and ranges inside
one chunk all occur. An idle server always takes another request, so deadlock is checked.

### Proofs

`ClientProofs` proves `SentBytesAreAsked`, `DownloadSpec => []SentIsAsked`, for any chunks, any
lengths and bounds, any range. It assumes `DownloadAssumption` only.

`Content` is a `FlattenSeq`, a function that refers to itself. That there is such a function, for
any manifest, and that it is unique up to each piece, is proved by induction, as a set of naturals
that holds 0 and every successor (`Induct`); `Upto` then gives the bytes of the first chunks, one
chunk more at each step (`UptoStep`), a beginning of the content (`UptoBegins`). The inductive
invariant `DInv` says where the stream stands (`Placed`), that what was sent is the part in the
range of the chunks passed (`Body`), that the headers are those of the request (`Ranged`) and
where a body may end (`Ended`). A step of the stream is then a fact about slices: `SliceGrows`, the
slice of a sequence and one piece more is the old slice and the `Piece` that `corps_en_flux` cuts
out; `SliceSkips`, a chunk before the range adds nothing. `SentFollows` compares with the
definition by positions: `AskedIs`, the answered range is the interval from the first to the last
byte `parse_range` gives, the suffix ranges included, which count positions from the end
(`LastPositions`); `BytesIn`, the bytes at an interval are a slice; and `SliceBegins`, a slice of
a beginning begins the slice. `present` and `known` are in none of it: what was lost only cuts.

## Backends

### What it models

`Backends.tla` is one chunk on several backends: the rows of `storage_backends` and
`chunk_locations`, the copy at each place with the key it is under (`blob`), the key file
(`file`), and what the process has in memory: its operator (`hot`) and its key ring (`ring`).
Two backends may name one place. `byte` is the first byte of the chunk's hash, which picks its
shard.

| Actions | Code |
|---|---|
| `LoadKeys`, `OpenBackend` | the start: `load_or_init` (an absent file gives a first key, a torn one ends the process), then any active row becomes hot, or `bootstrap` is inserted (`BootFirst`), as it also is when the SELECT of the active row fails; an INSERT that fails or a place that cannot be opened ends the process |
| `Restart` | whatever supervises the server starts it again |
| `RotateKey` | `rotate` and `persist`: the new key is current, then the file is written, left as it was, or torn |
| `CreateBackend`, `AskDelete`, `DeleteBackend` | as in REST and GraphQL; the deletion looks at `active` one statement before |
| `AskActivate`, `Swap`, `Clear`, `Set` | `activate_backend`: the operator is swapped, every primary made inactive, one made active |
| `AskDeactivate`, `Deactivate`, `AdminFails` | deactivation; a statement that fails |
| `WriteChunk`, `WriteMain`, `RecordPrimary`, `WriteCopy`, `InsertLocation`, `Written`, `WriteFails` | `write_chunk_bytes`: shards and replicas, the shard or what is hot, the active primary that is *then* looked up as its location, the replicas, the locations; a SELECT of shards, replicas or primary that fails finds none (`Missed`) |
| `Readable` | `read_chunk_encrypted`, `read_chunk`: a recorded backend, or what is hot; the id in the blob names the key. A read whose SELECT of the locations succeeds: one whose SELECT fails goes to what is hot, and may miss |
| `Crash` | the process stops between any two statements |

Deletion of the chunk and tiers are in `VersionStore` and `Tiering`; master.key, from before
the key file, is a first key. History: `askew`, that what is hot need not be the active primary,
because the last change of the primary was cut, refused, undone or not alone, or a start that
could not read the active row made a second one; `misread`, that this start failed to read or
write a row or to open a place; `sound`, the
backends recorded by a write that no change of the primary crossed; marks in the jobs.

### Runs

| Run | Instance | Shows |
|---|---|---|
| `backends` | 2 places, 3 backends, 3 keys, 2 requests at a time, 4 in all, 2 faults; about 746,000 states | the types and the two properties below |

* `StoredIsReadableUnlessExcused`: a chunk stays readable through every change of backend,
  rotation and restart, if one of its locations was recorded by a write that no change of the
  primary crossed and still has a row, and no copy is under a key that never reached the file.
* `StartsUnlessExcused`: the program starts again, unless the key file is torn, the primary was
  left askew, or this very start could not read or write its rows or open its place.

The excuses are what the code exposes. `BackendsTwo.cfg`: two activations at a time leave two active
primaries. `BackendsMisread.cfg`: a start whose SELECT fails takes that for no active row, inserts
`bootstrap` beside the one there is and keeps the operator of the environment; a write is then
recorded on a backend it did not go to. And a start makes any active row hot, whatever its role; when
none is active and a backend is called `bootstrap`, it panics at every start; a write whose
primary is exchanged after it wrote is recorded where it is not; deleting a backend drops the
only location of its chunks; a rotation whose file is not written encrypts under a key the next
start does not have, and a chunk uploaded again is found there and taken for stored.

**Bounds.** Two places tell a right place from a wrong one. Three backends: two primaries
and a shard or replica. Three keys: one saved, one not, one after it. Four requests are two
activations and a write, or two writes and an activation, after a creation. Byte 0 and 1 pick
either of two shards. Three places and four backends with one fault passed as well , before the failures of single
SELECTs were in the model. Deadlock is not checked: requests and failures are bounded, and
a torn key file is torn at every start.

### Proofs

`BackendsProofs.tla` proves all three (`TypesHold`, `Stored`, `Starts`) for every set of places,
bytes and requests and all bounds, under `BackendsAssumption`. Neither property is inductive.
`IInv` adds:

* `Keyring`: whatever became of the file, unless it is torn it is a beginning of the ring; no
  key is in either twice; a copy names the place its key has. So a key that is in the file is
  where the copy says, in the ring of whichever process reads it;
* `OnePrimary`: a change of the primary that is alone ends on a live backend, has made it hot
  before it made it active, and leaves no other active;
* `Straight`: unless `askew`, and but for a change under way, exactly one primary is active and
  it is what is hot; so a start finds it;
* `Sees`: hence a write that nothing crossed and that went to what is hot will record a backend
  whose place has the copy, and `Writing`: every sound backend has one, and copies are not lost;
* `Shape`: requests are about backends that were made, and there is none while the server is
  down, and `StartsUnlessExcused` itself.

`OthersOn`, `TurnKept`, `TurnLeft`, `OthersSee` and `WritesKept` say once what a step of one request
leaves of the others; each part then goes action by action. That the shard is one of the active
ones (`NthIn`) is a counting argument: elements of a finite set of numbers have different numbers
of elements below them.

## Desktop

### What it models

`Desktop.tla` is what the client does to the disk of its machine: where the shell says each
known folder is (`pointer`), the file that records where it was (`config`), the documents at
each of three places (`files`), the command on folders under way with its locals, and the
downloads (`fetch`). A directory is the set of its leaves.

| Actions | Code |
|---|---|
| `Redirect`, `SaveRecord` | `redirect_known_folder`: `get`, `load`, `or_insert_with`, `save` |
| `Rename`, `BeginCopy`, `CopyLeaf`, `CopyFails`, `EndCopy`, `RemoveEntry`, `Skip`, `EndMove` | `migrate_contents`, entry by entry: rename, or copy and remove; what cannot be copied stays, with what was copied of it |
| `SetPointer`, `CommandFails` | the shell call, its failure, and that of `read_dir` |
| `Revert`, `PointBack`, `SaveForget` | `revert_known_folder`: no file moves back |
| `SaveFails` | `fs::write` fails before or after it has truncated the file; `Loaded` reads what does not parse as no record |
| `Begin`, `Receive`, `Interrupt`, `Finish`, `FinishFails` | `download_stream`: the `.part`, the chunks, cancellation and errors, `flush` and `rename` |
| `MovePart` | `migrate_contents` comes upon a `.part` |
| `Edit`, `Relocate` | a file is saved; a folder is put elsewhere in Explorer |
| `Quit` | the program exits where it is |

The client is one process (single-instance plugin), and Tauri runs commands that are not `async`
on the main thread, so two commands on folders never overlap; downloads run beside them. Windows
is assumed to rename over a file and not over a directory that has something in it, to refuse to
copy a file onto itself, and to let an open file be renamed or removed. tokio's `File` is assumed to report
the failure of a write at the next write or at `flush`, as it documents. Only files directly in a
known folder are downloaded to; leftovers of `.part` files are not followed. History: `mine`, the documents a person saved or was told were
downloaded, and did not replace; `excused`, `origin` and `forgotten` below.

### Runs

| Run | Instance | Shows |
|---|---|---|
| `desktop` | a folder with a file and a directory of two, an empty one, 2 documents, 2 downloads of 2 chunks, 1 fault; about 704,000 states | the two properties below |

* `NothingIsLostUnlessExcused`: a document that was saved, or whose download was reported done, is
  whole in one of the places. The exemptions are the ways to lose one: a move puts a file of the
  same name in its place, as any second redirection after a revert can; it is saved between the copy and the removal of its
  entry; its download shared a `.part` with another, or with one that was moved there; the write of
  its last chunk failed, which only `flush` reports, and that error is ignored. Half-done copies and
  removals, exits and repeated redirections alone lose nothing.
* `UndoableUnlessForgotten`: a folder that points under `~/Plaste` has a record of where it was
  before, whatever failed and in whatever order it was redirected and reverted. The exemptions:
  the one file of all records was cut short while any of them was saved, or the folder was
  put elsewhere by hand while it was recorded.

**Bounds.** Two documents are one and what replaces it, or two downloads to one place. With
`MaxFaults = 2` and `Pieces = 1` it passed as well (3.2 million states). Deadlock is not checked: the bounds on
documents and faults end everything but redirections.

### Proofs

`ClientProofs` proves `UndoableUnlessForgotten` (`Undoable`) and `NothingIsLostUnlessExcused`
(`NothingIsLost`) for any folders, documents, downloads, failures and exits. It assumes of the
constants only that `Absent` is no folder and no place, that `Torn` is no record, and that
neither is the number of a document. The invariant of the first, `IInv`, adds to the property what makes it
inductive: `Sound`, a record never names `~/Plaste`, and while the folder is not redirected it
names where the folder is (else a second redirection, which keeps the first record, would keep a
wrong one); `Saving` and `Saved`, what a redirection holds before its record is written, and that
the record is there from then until the pointer is set; `Undoing`, that a reversion forgets the
record of the folder it has pointed back. Downloads, documents and the copies touch none of
these, which `Moves` and `Stutters` say once for all of them.

`NothingIsLost` rests on `Documents`. `Copied` is what a move must not break: while an entry is
copied, and until it is removed, each of its leaves that has been copied holds at `~/Plaste` what
it holds at its old place, unless that document is excused; so a removal, even one that
stops half-way, takes only what is elsewhere. Whatever is saved there between the two is what
`excused` names. `Numbered` keeps documents apart: those on a disk were given a number already,
and the document of a download under way is on no disk, so that the end of a download brings
something new and overwrites only what somebody decided to replace. `Arrives`, `Puts` and
`Shuffled` are the three ways in which a disk changes.

## Not modelled

* **Rate limiting** is configuration of a library; the password budget of links, which is
  logic of this code, is in `Credentials`.
* **Search and full text**: index calls and LIKE queries; no other state depends on theirs.
* **Audit**: written and listed, read back by nothing.
* **MCP and WebDAV** adapt protocols to the same handlers; WebDAV's content goes through
  `servir_contenu`, which is in `Download`.
* **Sizes and quotas**: the quota is checked against `used_bytes` read when the request was
  authenticated, and a new chunk's row gets the size of the whole file; no module has sizes
  but `Download` and, as blocks, `TusUpload`.
* **`read_range`** of the chunk store is called by tests only.
* **The client's** watcher and virtual file systems are operating-system interfaces, its other
  commands single requests that keep no state; the web pages are rendering.
* **Dropped errors.** Where the code drops the error of a statement that changes state, or takes a
  failed SELECT for an answer it goes on with, the models have that branch: the statements of `gc.rs`,
  the lookups of `chunk_upload.rs` and `files.rs` (`VersionStore`), of `storage.rs`
  (`Tiering`, `Backends`), the policies of `retention.rs` (`FolderTree`), the three SELECTs of
  `acl.rs` (`Access`), the active row of `main.rs` (`Backends`), the DELETE of a login's state
  (`Credentials`), `remove_file` of partial files (`TusUpload`), `flush` (`Desktop`). They have it
  not where the failure only says no to whoever asked and leaves everything as it was: the lookups of
  the login (`konnect.rs` 207, 280, 344), of the page and the tickets of a link (`share_page.rs`
  233, `sharing.rs` 519), and the audit log.
  Nor does `Readable` of `Backends` have the read whose SELECT of the locations fails.
* **Blob writes are taken as atomic**: a blob is there whole or not at all. opendal's Fs is built
  without a directory for atomic writes (`storage.rs` 194-216), so a crash during a write may leave a
  truncated blob, which `exists` (`storage.rs` 268) takes for the whole one ever after. The key file
  (`Backends`) and the file of records (`Desktop`) are modelled with their torn writes.
* Where a SELECT that expects one row finds several (two active backends, two files of one
  name, two tokens of one person without an ORDER BY), the models take any of them.
* `VersionStore` has no renames or moves of files, `FolderTree` no names: a conflicted copy of a
  file that is moved at the time is in neither.
