------------------------------ MODULE Backends ------------------------------
(***************************************************************************)
(* Which backend a chunk is written to and found on, and under which key:  *)
(* the rows of storage_backends and chunk_locations, the operator and the  *)
(* key ring in memory, the key file, and the start that rebuilds the ones  *)
(* from the others (storage_backends.rs, graphql.rs, storage.rs,           *)
(* crypto.rs, keymgmt.rs, main.rs).                                        *)
(*                                                                         *)
(* There is one chunk, of which nothing is deleted or made cold: that is   *)
(* in VersionStore and Tiering.  A place is what a backend's config names. *)
(***************************************************************************)
EXTENDS Integers, FiniteSetsExt, SequencesExt

CONSTANTS
    Place, EnvPlace,    \* places; that of resolve_env_backend
    NBackends,          \* bound: rows of storage_backends ever made
    Byte,               \* what a hash may begin with
    MaxKeys,            \* bound: keys ever generated
    Proc,
    MaxOps, MaxFaults   \* bounds: requests; failures and crashes

Backend == 1 .. NBackends

ASSUME BackendsAssumption ==
    /\ EnvPlace \in Place /\ Byte \subseteq Nat
    /\ NBackends \in Nat \ {0} /\ {MaxKeys, MaxOps, MaxFaults} \subseteq Nat

VARIABLES
    row, loc,        \* storage_backends; chunk_locations of the chunk
    blob,            \* per place: the key its copy is encrypted with
    file,            \* master_keys.json: the keys in order, current last
    byte,            \* first byte of the chunk's hash, which picks its shard
    server, hot, ring, \* the process; its operator and its keys
    pc, job,         \* per request: its next statement and its locals
    made, ops, faults,
    (***** history, never read by the code *****)
    askew,    \* what is hot need not be the active primary
    misread,  \* this start could not read or write the rows, or open a place
    sound     \* backends recorded by a write that no activation crossed

disk   == <<row, loc, blob, file, byte>>
memory == <<server, hot, ring, made>>
tasks  == <<pc, job>>
limits == <<ops, faults>>
hist   == <<askew, misread, sound>>
vars   == <<disk, memory, tasks, limits, hist>>

Role    == {"primary", "replica", "shard"}
Key     == 1 .. MaxKeys
NoBlob  == [id |-> 0, key |-> 0]
Torn    == <<0>>   \* a key file that cannot be parsed
NoJob   == [on |-> 0, shard |-> 0, copies |-> {}, ids |-> {}, kept |-> {},
            crossed |-> FALSE, alone |-> FALSE]
NoRow   == [st |-> "unborn", boot |-> FALSE, role |-> "primary", place |-> EnvPlace, active |-> FALSE]

TypeOK ==
    /\ row \in [Backend -> [st : {"unborn", "live", "gone"}, boot : BOOLEAN, role : Role,
                            place : Place, active : BOOLEAN]]
    /\ loc \subseteq Backend
    /\ blob \in [Place -> [id : 0 .. MaxKeys, key : 0 .. MaxKeys]]
    /\ file \in Seq(0 .. MaxKeys) /\ ring \in Seq(Key) /\ byte \in Byte
    /\ server \in {"down", "keys", "up", "dead"} /\ hot \in Place
    /\ pc \in [Proc -> {"idle", "swap", "clear", "set", "unset", "delete",
                        "main", "primary", "copies"}]
    /\ job \in [Proc -> [on : 0 .. NBackends, shard : 0 .. NBackends, copies : SUBSET Backend,
                         ids : SUBSET Backend, kept : SUBSET Backend,
                         crossed : BOOLEAN, alone : BOOLEAN]]
    /\ made \in 0 .. MaxKeys /\ ops \in 0 .. MaxOps /\ faults \in 0 .. MaxFaults
    /\ {askew, misread} \subseteq BOOLEAN /\ sound \subseteq Backend
    \* One id per key, whatever was saved of them; a server that is up has a key.
    /\ Cardinality(ToSet(ring)) = Len(ring) /\ (server = "up" => ring # <<>>)

Live == {b \in Backend : row[b].st = "live"}

\* active_backends_by_role.
Active(role) == {b \in Live : row[b].active /\ row[b].role = role}

Init ==
    /\ row = [b \in Backend |-> NoRow] /\ loc = {}
    /\ blob = [p \in Place |-> NoBlob]
    /\ file = <<>> /\ byte \in Byte
    /\ server = "down" /\ hot = EnvPlace /\ ring = <<>>
    /\ pc = [p \in Proc |-> "idle"] /\ job = [p \in Proc |-> NoJob]
    /\ made = 0 /\ ops = 0 /\ faults = 0
    /\ askew = FALSE /\ misread = FALSE /\ sound = {}

Fault == faults < MaxFaults /\ faults' = faults + 1 /\ UNCHANGED ops
Missed(it) == IF it THEN faults < MaxFaults /\ faults' = faults + 1 ELSE UNCHANGED faults
Begin(p, l) ==
    /\ server = "up" /\ pc[p] = "idle" /\ ops < MaxOps
    /\ ops' = ops + 1 /\ UNCHANGED faults
    /\ pc' = [pc EXCEPT ![p] = l]
Goto(p, l, j) ==
    /\ pc' = [pc EXCEPT ![p] = l] /\ job' = [job EXCEPT ![p] = j]
    /\ UNCHANGED limits
End(p) == Goto(p, "idle", NoJob)

-----------------------------------------------------------------------------
(***************************************************************************)
(* The process.                                                            *)
(***************************************************************************)
\* persist is one fs::write: it writes the file, leaves it, or leaves it torn.
NotWritten == faults < MaxFaults /\ faults' = faults + 1 /\ file' \in {file, Torn}

\* load_or_init: the file, or a first key (new, or that of an old master.key), without
\* which the process stops.
LoadKeys ==
    /\ server = "down"
    /\ \/ /\ file = Torn /\ server' = "dead"
          /\ UNCHANGED <<ring, made, file, limits>>
       \/ /\ file \notin {Torn, <<>>} /\ server' = "keys" /\ ring' = file
          /\ UNCHANGED <<made, file, limits>>
       \/ /\ file = <<>> /\ made < MaxKeys /\ made' = made + 1
          /\ \/ file' = <<made'>> /\ server' = "keys" /\ ring' = <<made'>> /\ UNCHANGED faults
             \/ NotWritten /\ UNCHANGED <<server, ring>>
          /\ UNCHANGED ops
    /\ hot' = EnvPlace /\ misread' = FALSE
    /\ UNCHANGED <<row, loc, blob, byte, tasks, askew, sound>>

BootRow == [st |-> "live", boot |-> TRUE, role |-> "primary", place |-> EnvPlace, active |-> TRUE]
Unborn == {b \in Backend : row[b].st = "unborn"}
NameTaken(boot) == boot /\ \E b \in Live : row[b].boot

\* main: no active row was found, so one is made of the environment; its name may be taken.
BootFirst ==
    /\ IF NameTaken(TRUE)
       THEN server' = "dead" /\ UNCHANGED <<row, askew>>
       ELSE /\ Unborn # {} /\ row' = [row EXCEPT ![Min(Unborn)] = BootRow]
            /\ server' = "up" /\ askew' = (Active("primary") # {})
    /\ UNCHANGED hot

\* main: any active row is made hot.  A SELECT that fails finds none; when the INSERT
\* fails, or the place cannot be opened, the process stops.
OpenBackend ==
    LET active == {b \in Live : row[b].active}
    IN  /\ server = "keys"
        /\ \/ \E b \in active :
                /\ hot' = row[b].place /\ server' = "up"
                /\ askew' = (askew \/ row[b].role # "primary")
                /\ UNCHANGED <<row, misread, limits>>
           \/ active = {} /\ BootFirst /\ UNCHANGED <<misread, limits>>
           \/ active # {} /\ BootFirst /\ Fault /\ misread' = TRUE
           \/ server' = "dead" /\ Fault /\ misread' = TRUE /\ UNCHANGED <<row, hot, askew>>
        /\ UNCHANGED <<loc, blob, file, byte, ring, made, tasks, sound>>

\* A process that died is started again.
Restart ==
    /\ server = "dead" /\ server' = "down"
    /\ UNCHANGED <<disk, hot, ring, made, tasks, limits, hist>>

\* The requests on a primary, and those that make one active.
OnPrimary  == {p \in Proc : pc[p] \in {"swap", "clear", "set", "unset", "delete"}
                            /\ row[job[p].on].role = "primary"}
Activating == {p \in OnPrimary : pc[p] \in {"swap", "clear", "set"}}

Stop ==
    /\ server' = "down" /\ ring' = <<>>
    /\ askew' = (askew \/ Activating # {})
    /\ pc' = [p \in Proc |-> "idle"] /\ job' = [p \in Proc |-> NoJob]

\* The process stops, between any two statements.
Crash ==
    /\ server \in {"keys", "up"} /\ Fault /\ Stop
    /\ UNCHANGED <<disk, hot, made, misread, sound>>

\* Mutant: the current key again, under a new id.
RotateSame == Append(ring, made)

\* rotate: the new key is current at once.
Rotate == Append(ring, made + 1)

\* Whatever becomes of the file; or the process stops while it writes.
RotateKey ==
    /\ server = "up" /\ made < MaxKeys /\ made' = made + 1
    /\ ops < MaxOps /\ ops' = ops + 1
    /\ \/ file' = Rotate /\ UNCHANGED faults
       \/ NotWritten
    /\ \/ ring' = Rotate /\ UNCHANGED <<server, askew, tasks>>
       \/ file' = Torn /\ Stop
    /\ UNCHANGED <<row, loc, blob, byte, hot, misread, sound>>

-----------------------------------------------------------------------------
(***************************************************************************)
(* The administrators' requests.                                           *)
(***************************************************************************)
\* list_backends.
ListBackends == Live

\* create_backend: the name is UNIQUE, the row not active.
CreateBackend(role, place, boot) ==
    /\ server = "up" /\ ops < MaxOps /\ ops' = ops + 1
    /\ ~NameTaken(boot) /\ Unborn # {}
    /\ row' = [row EXCEPT ![Min(Unborn)] =
                [st |-> "live", boot |-> boot, role |-> role, place |-> place, active |-> FALSE]]
    /\ UNCHANGED <<loc, blob, file, byte, memory, tasks, faults, hist>>

\* With another request on a primary under way, neither is alone.
Together(p, b) ==
    [q \in Proc |->
       IF q = p THEN [NoJob EXCEPT !.on = b, !.alone = (OnPrimary = {})]
       ELSE [job[q] EXCEPT !.alone = @ /\ row[b].role # "primary"]]
Ask(p, l, b) ==
    /\ Begin(p, l) /\ job' = Together(p, b)
    /\ UNCHANGED <<disk, memory, hist>>

\* A write under way to what is hot is crossed by a change of the primary.
Crossed(p, j) == [q \in Proc |-> IF q = p THEN j ELSE [job[q] EXCEPT !.crossed = TRUE]]
Advance(p, l, j) ==
    /\ pc' = [pc EXCEPT ![p] = l] /\ job' = Crossed(p, j) /\ UNCHANGED limits

\* Mutant: an active backend may be deleted.
AskDeleteAny(p, b) == b \in Live /\ Ask(p, "delete", b)

\* delete_backend: SELECT, which must not find it active.
AskDelete(p, b) == b \in Live /\ ~row[b].active /\ Ask(p, "delete", b)

\* delete_backend: DELETE.
DeleteBackend(p) ==
    /\ pc[p] = "delete"
    /\ row' = [row EXCEPT ![job[p].on].st = "gone", ![job[p].on].active = FALSE]
    /\ End(p)
    /\ UNCHANGED <<loc, blob, file, byte, memory, hist>>

\* activate_backend: SELECT.
AskActivate(p, b) == b \in Live /\ Ask(p, IF row[b].role = "primary" THEN "swap" ELSE "set", b)

\* ChunkStore::activate_backend: a primary becomes hot.
Swap(p) ==
    /\ pc[p] = "swap" /\ hot' = row[job[p].on].place
    /\ Advance(p, "clear", job[p])
    /\ UNCHANGED <<disk, server, ring, made, hist>>

\* activate_backend: UPDATE of every primary.
Clear(p) ==
    /\ pc[p] = "clear"
    /\ row' = [b \in Backend |-> IF row[b].role = "primary" THEN [row[b] EXCEPT !.active = FALSE] ELSE row[b]]
    /\ Advance(p, "set", job[p])
    /\ UNCHANGED <<loc, blob, file, byte, memory, hist>>

\* activate_backend: UPDATE of the backend, if it is still there.
Set(p) ==
    LET b == job[p].on
    IN  /\ pc[p] = "set"
        /\ row' = [row EXCEPT ![b].active = (row[b].st = "live")]
        /\ IF p \in OnPrimary THEN Advance(p, "idle", NoJob) ELSE End(p)
        /\ askew' = IF p \in OnPrimary THEN ~job[p].alone ELSE askew
        /\ UNCHANGED <<loc, blob, file, byte, memory, misread, sound>>

\* deactivate_backend: SELECT, then UPDATE.
AskDeactivate(p, b) == b \in Live /\ Ask(p, "unset", b)
Deactivate(p) ==
    LET b == job[p].on
    IN  /\ pc[p] = "unset"
        /\ row' = [row EXCEPT ![b].active = FALSE]
        /\ IF p \in OnPrimary THEN Advance(p, "idle", NoJob) ELSE End(p)
        /\ askew' = (askew \/ p \in OnPrimary)
        /\ UNCHANGED <<loc, blob, file, byte, memory, misread, sound>>

\* A statement of these fails, and the request with it.
AdminFails(p) ==
    /\ pc[p] \in {"clear", "set", "unset", "delete"} /\ Fault
    /\ askew' = (askew \/ p \in Activating)
    /\ pc' = [pc EXCEPT ![p] = "idle"] /\ job' = Crossed(p, NoJob)
    /\ UNCHANGED <<disk, memory, misread, sound>>

\* The mutations of graphql.rs.
GqlCreate(role, place, boot) == CreateBackend(role, place, boot)
GqlDelete(p, b)     == AskDelete(p, b)
GqlActivate(p, b)   == AskActivate(p, b)
GqlDeactivate(p, b) == AskDeactivate(p, b)

-----------------------------------------------------------------------------
(***************************************************************************)
(* Chunks.                                                                 *)
(***************************************************************************)
\* The n-th shard, from 0, in the order of ids.
Nth(S, n) == CHOOSE b \in S : Cardinality({c \in S : c < b}) = n
Shard == IF Active("shard") = {} THEN 0 ELSE Nth(Active("shard"), byte % Cardinality(Active("shard")))

\* write_chunk_bytes: SELECT of the shards and the replicas; one that fails finds none.
WriteChunk(p) ==
    \E shard \in {Shard, 0}, copies \in {Active("replica"), {}} :
        /\ server = "up" /\ pc[p] = "idle" /\ ops < MaxOps /\ ops' = ops + 1
        /\ Missed(<<shard, copies>> # <<Shard, Active("replica")>>)
        /\ pc' = [pc EXCEPT ![p] = "main"]
        /\ job' = [job EXCEPT ![p] = [NoJob EXCEPT !.shard = shard, !.copies = copies,
                                                   !.crossed = askew \/ Activating # {}]]
        /\ UNCHANGED <<disk, memory, hist>>

\* write_encrypted: under the current key, unless the place has a copy.
Encrypted(p) == IF blob[p] # NoBlob THEN blob[p] ELSE [id |-> Len(ring), key |-> Last(ring)]
WriteEncrypted(place) == blob' = [blob EXCEPT ![place] = Encrypted(place)]

Target(j) == IF j.shard # 0 THEN row[j.shard].place ELSE hot

\* write_chunk_bytes: the shard, or what is hot.
WriteMain(p) ==
    /\ pc[p] = "main" /\ WriteEncrypted(Target(job[p]))
    /\ IF job[p].shard # 0
       THEN Goto(p, "copies", [job[p] EXCEPT !.ids = {job[p].shard}, !.kept = {job[p].shard}])
       ELSE Goto(p, "primary", job[p])
    /\ UNCHANGED <<row, loc, file, byte, memory, hist>>

\* Mutant: the first primary, active or not.
FindPrimaryAny == LET ps == {b \in Live : row[b].role = "primary"} IN IF ps = {} THEN {} ELSE {Min(ps)}

\* write_chunk_bytes: the first active primary.
FindPrimary == IF Active("primary") = {} THEN {} ELSE {Min(Active("primary"))}

\* write_chunk_bytes: that is where the chunk is said to be, if the SELECT does not fail.
RecordPrimary(p) ==
    \E found \in {FindPrimary, {}} :
        /\ pc[p] = "primary" /\ Missed(found # FindPrimary) /\ UNCHANGED ops
        /\ pc' = [pc EXCEPT ![p] = "copies"]
        /\ job' = [job EXCEPT ![p] = [@ EXCEPT !.ids = found, !.kept = IF job[p].crossed THEN {} ELSE found]]
        /\ UNCHANGED <<disk, memory, hist>>

\* write_chunk_bytes: one replica, whose failure is only logged.
WriteCopy(p) ==
    LET b == Min(job[p].copies)
        rest == [job[p] EXCEPT !.copies = @ \ {b}]
    IN  /\ pc[p] = "copies" /\ job[p].copies # {}
        /\ \/ /\ WriteEncrypted(row[b].place)
              /\ Goto(p, "copies", [rest EXCEPT !.ids = @ \cup {b}, !.kept = @ \cup {b}])
           \/ /\ Fault /\ pc' = pc /\ job' = [job EXCEPT ![p] = rest] /\ UNCHANGED blob
        /\ UNCHANGED <<row, loc, file, byte, memory, hist>>

\* write_chunk_bytes: INSERT OR IGNORE of one location, whose failure is ignored.
InsertLocation(p) ==
    \E b \in job[p].ids :
        LET rest == [job[p] EXCEPT !.ids = @ \ {b}]
        IN  /\ pc[p] = "copies" /\ job[p].copies = {}
            /\ \/ /\ loc' = loc \cup {b} /\ sound' = sound \cup ({b} \cap job[p].kept)
                  /\ Goto(p, "copies", rest)
               \/ Fault /\ pc' = pc /\ job' = [job EXCEPT ![p] = rest] /\ UNCHANGED <<loc, sound>>
            /\ UNCHANGED <<row, blob, file, byte, memory, askew, misread>>

\* The end of a write, and its failure.
Written(p) == pc[p] = "copies" /\ job[p].copies = {} /\ job[p].ids = {} /\ End(p) /\ UNCHANGED <<disk, memory, hist>>
WriteFails(p) ==
    /\ pc[p] = "main" /\ Fault
    /\ pc' = [pc EXCEPT ![p] = "idle"] /\ job' = [job EXCEPT ![p] = NoJob]
    /\ UNCHANGED <<disk, memory, hist>>

\* locations_for: the recorded backends that still have a row.
Locations == {row[b].place : b \in loc \cap Live}

\* read_chunk_encrypted: the copy of any location that has one, or what is hot.
Copies ==
    LET there == {p \in Locations : blob[p] # NoBlob}
    IN  {blob[p] : p \in IF there = {} THEN {hot} ELSE there}

\* read_chunk: the key of that id must be the one it was encrypted with.
Decrypts(c) == c.id \in DOMAIN ring /\ ring[c.id] = c.key
Readable == \A c \in Copies : Decrypts(c)

Next ==
    \/ LoadKeys \/ OpenBackend \/ Restart \/ Crash \/ RotateKey
    \/ \E role \in Role, place \in Place, boot \in BOOLEAN :
          CreateBackend(role, place, boot) \/ GqlCreate(role, place, boot)
    \/ \E p \in Proc, b \in Backend :
          \/ AskDelete(p, b) \/ AskActivate(p, b) \/ AskDeactivate(p, b)
          \/ GqlDelete(p, b) \/ GqlActivate(p, b) \/ GqlDeactivate(p, b)
    \/ \E p \in Proc :
          \/ DeleteBackend(p) \/ Swap(p) \/ Clear(p) \/ Set(p) \/ Deactivate(p) \/ AdminFails(p)
          \/ WriteChunk(p) \/ WriteMain(p) \/ RecordPrimary(p) \/ WriteCopy(p)
          \/ InsertLocation(p) \/ Written(p) \/ WriteFails(p)

Spec == Init /\ [][Next]_vars

-----------------------------------------------------------------------------
(***************************************************************************)
(* Properties.                                                             *)
(***************************************************************************)
\* storage.rs 297-370, 405-490, 546-590: a chunk written is read back (by a read whose
\* SELECT of the locations does not fail), through every change of backend, rotation and
\* restart: if a write recorded it on a backend that still has a row, no change of the
\* primary having crossed that write, and no copy is under a key that never reached the
\* key file.
StoredIsReadableUnlessExcused ==
    server = "up" /\ sound \cap Live # {} /\ (\A p \in Place : blob[p].key \in ToSet(file) \cup {0})
        => Readable

\* main.rs 54-90, crypto.rs 50-81: the server starts again, unless the key file was torn,
\* this start failed to read or write the rows or to open a place, or the last change of
\* the primary was cut, refused, undone, not alone or of a start that could not read it.
StartsUnlessExcused == server = "dead" => file = Torn \/ askew \/ misread

-----------------------------------------------------------------------------
(***************************************************************************)
(* What the documentation says, without the exemptions above.              *)
(***************************************************************************)
\* storage_backends.rs 243, "single-active invariant": one primary at most is active.
OneActivePrimary == Cardinality(Active("primary")) =< 1

\* main.rs 54-56: if the database already has an active backend row, that is the source of
\* truth: the start makes the place of one such row hot.  A SELECT that fails breaks it.
ActiveIsTheSourceOfTruth ==
    [][server = "keys" /\ server' = "up" /\ Active("primary") # {}
         => \E b \in Live : row[b].active /\ hot' = row[b].place]_vars
=============================================================================
