------------------------------- MODULE Desktop -------------------------------
(***************************************************************************)
(* What the desktop client does to the local disk: a known folder of       *)
(* Windows is pointed at the folder of the same name under ~/Plaste, after *)
(* its files were moved there, and pointed back (known_folders.rs); a file *)
(* is downloaded into a ".part", renamed at the end (transfer.rs).         *)
(*                                                                         *)
(* The two commands on folders run on the main thread, one at a time.      *)
(* Downloads, and the person who works with the files, do not wait for     *)
(* them.  A content is the number of the document it is; a directory is    *)
(* the set of the leaves in it.                                            *)
(***************************************************************************)
EXTENDS Integers, FiniteSets

CONSTANTS
    Folder,        \* KNOWN_FOLDERS
    Leaf,          \* the files there may be, by name
    Entry,         \* what read_dir lists: the files and the directories of each folder
    Transfer,      \* downloads
    Pieces,        \* chunks of a body
    Absent, Torn,  \* no file, or one cut short
    MaxDocs,       \* bound: documents written or downloaded
    MaxFaults      \* bound: calls that fail, exits of the program, relocations

ASSUME DesktopAssumption ==
    /\ Entry \in [Folder -> SUBSET SUBSET Leaf]
    /\ {Pieces, MaxDocs, MaxFaults} \subseteq Nat /\ {Absent, Torn} \cap Nat = {}
    /\ Absent \notin Folder /\ Absent \notin {"home", "elsewhere", "plaste"}
    /\ Torn \notin [Folder -> {"home", "elsewhere", "plaste", Absent}]

Home == "home"            \* where the folder was at first, of each folder its own
Elsewhere == "elsewhere"  \* where its owner may put it
Plaste == "plaste"        \* plaste_root().join(folder)
Place == {Home, Elsewhere, Plaste}

VARIABLES
    pointer, config, files,                           \* the shell, redirected_folders.json, the disk
    pc, which, current, mem, seen, entry, rest,       \* the command and its locals
    fetch,                                            \* the downloads and their locals
    docs, faults,                                     \* bounds
    mine, excused,                                    \* history: documents one has; those a named overlap may lose
    origin, forgotten                                 \* history: where a folder was; records lost or outdated

disk == <<pointer, config, files>>
command == <<pc, which, current, mem, seen, entry, rest>>
history == <<mine, excused, origin, forgotten>>
vars == <<disk, command, fetch, docs, faults, history>>

NoRecord == [f \in Folder |-> Absent]
NoFetch == [on |-> FALSE]

Init ==
    /\ pointer = [f \in Folder |-> Home] /\ config = NoRecord
    /\ files = [q \in Place |-> [l \in Leaf |-> Absent]]
    /\ pc = "idle" /\ which = Absent /\ current = Absent /\ mem = NoRecord
    /\ seen = {} /\ entry = {} /\ rest = {}
    /\ fetch = [d \in Transfer |-> NoFetch]
    /\ docs = 0 /\ faults = 0
    /\ mine = {} /\ excused = {} /\ origin = NoRecord /\ forgotten = {}

Fault == faults < MaxFaults /\ faults' = faults + 1

\* The end of a command, with or without an error.
Return ==
    /\ pc' = "idle" /\ which' = Absent /\ current' = Absent /\ mem' = NoRecord
    /\ seen' = {} /\ entry' = {} /\ rest' = {}

Holds(q, e) == \E l \in e : files[q][l] # Absent

-----------------------------------------------------------------------------
(***************************************************************************)
(* redirected_folders.json: one map for all the folders.                   *)
(***************************************************************************)
\* load: a file that does not parse is an empty map.
Loaded == IF config = Torn THEN NoRecord ELSE config

\* save truncates the file and writes it: what is cut off there loses every record.
Write(c) ==
    /\ config' = c
    /\ forgotten' = IF c = Torn THEN forgotten \cup {f \in Folder : Loaded[f] # Absent} ELSE forgotten

SaveFails ==
    /\ pc \in {"save", "forget"} /\ Fault
    /\ Write(config) \/ Write(Torn)
    /\ Return
    /\ UNCHANGED <<pointer, files, fetch, docs, mine, excused, origin>>

-----------------------------------------------------------------------------
(***************************************************************************)
(* redirect_known_folder.                                                  *)
(***************************************************************************)
\* Mutant: the folder's present place replaces the record.
RedirectOver(f) ==
    /\ pc = "idle" /\ pc' = "save" /\ which' = f /\ current' = pointer[f]
    /\ mem' = [Loaded EXCEPT ![f] = pointer[f]]
    /\ UNCHANGED <<disk, seen, entry, rest, fetch, docs, faults, history>>

\* Where the folder is, and the records; the first place recorded stays.
Redirect(f) ==
    /\ pc = "idle" /\ pc' = "save" /\ which' = f /\ current' = pointer[f]
    /\ mem' = [Loaded EXCEPT ![f] = IF @ = Absent THEN pointer[f] ELSE @]
    /\ UNCHANGED <<disk, seen, entry, rest, fetch, docs, faults, history>>

SaveRecord ==
    /\ pc = "save" /\ pc' = "move" /\ Write(mem)
    /\ UNCHANGED <<pointer, files, which, current, mem, seen, entry, rest, fetch, docs, faults,
                   mine, excused, origin>>

Listed(e) == pc = "move" /\ e \in Entry[which] \ seen /\ Holds(current, e)

\* What a file that arrives at its new place replaces there.
Replaced(S) == {n \in mine : \E l \in S : files[Plaste][l] = n /\ files[current][l] # n}

\* rename: a file replaces one of its name, a directory does not replace a directory.
Rename(e) ==
    /\ Listed(e) /\ current # Plaste
    /\ Cardinality(e) = 1 \/ ~Holds(Plaste, e)
    /\ files' = [files EXCEPT ![Plaste] = [l \in Leaf |-> IF l \in e THEN files[current][l] ELSE @[l]],
                              ![current] = [l \in Leaf |-> IF l \in e THEN Absent ELSE @[l]]]
    /\ excused' = excused \cup Replaced(e)
    /\ seen' = seen \cup {e}
    /\ UNCHANGED <<pointer, config, pc, which, current, mem, entry, rest, fetch, docs, faults,
                   mine, origin, forgotten>>

\* An entry that cannot be read; in a folder that is there already, each is renamed
\* to itself, or its copy onto itself refused.
Skip(e) ==
    /\ Listed(e)
    /\ IF current = Plaste THEN UNCHANGED faults ELSE Fault
    /\ seen' = seen \cup {e}
    /\ UNCHANGED <<disk, pc, which, current, mem, entry, rest, fetch, docs, history>>

\* The rename failed (in use, another volume): fs::copy or copy_dir_recursive.
BeginCopy(e) ==
    /\ Listed(e) /\ current # Plaste
    /\ pc' = "copy" /\ entry' = e /\ rest' = {l \in e : files[current][l] # Absent}
    /\ UNCHANGED <<disk, which, current, mem, seen, fetch, docs, faults, history>>

Put(l, n) ==
    /\ files' = [files EXCEPT ![Plaste][l] = n]
    /\ excused' = IF files[Plaste][l] = n THEN excused ELSE excused \cup Replaced({l})

CopyLeaf(l) ==
    /\ pc = "copy" /\ l \in rest
    /\ Put(l, files[current][l]) /\ rest' = rest \ {l}
    /\ UNCHANGED <<pointer, config, pc, which, current, mem, seen, entry, fetch, docs, faults,
                   mine, origin, forgotten>>

\* The entry is skipped, and stays; what was copied of it stays too.
CopyFails(l) ==
    /\ pc = "copy" /\ l \in rest /\ Fault
    /\ Put(l, files[Plaste][l]) \/ Put(l, Torn)
    /\ pc' = "move" /\ seen' = seen \cup {entry} /\ entry' = {} /\ rest' = {}
    /\ UNCHANGED <<pointer, config, which, current, mem, fetch, docs, mine, origin, forgotten>>

\* Mutant: an entry is removed whatever became of its copy.
EndCopyEarly ==
    /\ pc = "copy" /\ pc' = "remove" /\ rest' = {}
    /\ UNCHANGED <<disk, which, current, mem, seen, entry, fetch, docs, faults, history>>

EndCopy ==
    /\ pc = "copy" /\ rest = {} /\ pc' = "remove"
    /\ UNCHANGED <<disk, which, current, mem, seen, entry, rest, fetch, docs, faults, history>>

\* remove_dir_all or remove_file, the error of which is ignored.
RemoveEntry(S) ==
    /\ pc = "remove" /\ S \subseteq entry
    /\ IF S = entry THEN UNCHANGED faults ELSE Fault
    /\ files' = [files EXCEPT ![current] = [l \in Leaf |-> IF l \in S THEN Absent ELSE @[l]]]
    /\ pc' = "move" /\ seen' = seen \cup {entry} /\ entry' = {}
    /\ UNCHANGED <<pointer, config, which, current, mem, rest, fetch, docs, history>>

EndMove ==
    /\ pc = "move" /\ \A e \in Entry[which] : Holds(current, e) => e \in seen
    /\ pc' = "set"
    /\ UNCHANGED <<disk, which, current, mem, seen, entry, rest, fetch, docs, faults, history>>

\* read_dir fails, or SHSetKnownFolderPath does: the record is written, the folder where it was.
CommandFails ==
    /\ pc \in {"set", "point"} \/ (pc = "move" /\ seen = {})
    /\ Fault /\ Return
    /\ UNCHANGED <<disk, fetch, docs, history>>

SetPointer ==
    /\ pc = "set"
    /\ pointer' = [pointer EXCEPT ![which] = Plaste]
    /\ origin' = IF pointer[which] = Plaste THEN origin ELSE [origin EXCEPT ![which] = pointer[which]]
    /\ Return
    /\ UNCHANGED <<config, files, fetch, docs, faults, mine, excused, forgotten>>

-----------------------------------------------------------------------------
(***************************************************************************)
(* revert_known_folder: the pointer goes back, the files do not.           *)
(***************************************************************************)
Revert(f) ==
    /\ pc = "idle" /\ Loaded[f] # Absent
    /\ pc' = "point" /\ which' = f /\ current' = Loaded[f]
    /\ mem' = [Loaded EXCEPT ![f] = Absent]
    /\ UNCHANGED <<disk, seen, entry, rest, fetch, docs, faults, history>>

PointBack ==
    /\ pc = "point" /\ pc' = "forget"
    /\ pointer' = [pointer EXCEPT ![which] = current]
    /\ UNCHANGED <<config, files, which, current, mem, seen, entry, rest, fetch, docs, faults, history>>

SaveForget ==
    /\ pc = "forget" /\ Write(mem) /\ Return
    /\ UNCHANGED <<pointer, files, fetch, docs, faults, mine, excused, origin>>

-----------------------------------------------------------------------------
(***************************************************************************)
(* The person at the keyboard.                                             *)
(***************************************************************************)
\* A leaf that arrives too late to be copied, in an entry about to be removed.
Crossed(q, l) == pc \in {"copy", "remove"} /\ q = current /\ l \in entry \ rest

\* read_dir may have gone past an entry that appears while it is read.
Passed(q, l) ==
    {seen} \cup {seen \cup {e} : e \in {x \in UNION {Entry[f] : f \in Folder \cap {which}} :
                                          l \in x /\ q = current /\ ~Holds(q, x)}}

\* A document is at its place, where it replaces another by its owner's will.
Keep(n, q, l, content) ==
    /\ files' = [files EXCEPT ![q][l] = content]
    /\ mine' = (mine \ {files[q][l]}) \cup {n}
    /\ seen' \in Passed(q, l)

\* A file is saved, in a known folder or under ~/Plaste (ensure_plaste_folders).
Edit(f, q, l) ==
    /\ docs < MaxDocs /\ docs' = docs + 1
    /\ q \in {pointer[f], Plaste} /\ l \in UNION Entry[f]
    /\ Keep(docs + 1, q, l, docs + 1)
    /\ excused' = IF Crossed(q, l) THEN excused \cup {docs + 1} ELSE excused
    /\ UNCHANGED <<pointer, config, pc, which, current, mem, entry, rest, fetch, faults, origin, forgotten>>

\* The folder is pointed somewhere else in Explorer: a record of it is outdated.
Relocate(f) ==
    /\ pointer[f] # Elsewhere /\ Fault
    /\ pointer' = [pointer EXCEPT ![f] = Elsewhere]
    /\ forgotten' = IF Loaded[f] # Absent \/ which = f THEN forgotten \cup {f} ELSE forgotten
    /\ UNCHANGED <<config, files, command, fetch, docs, mine, excused, origin>>

-----------------------------------------------------------------------------
(***************************************************************************)
(* download_stream.  Two downloads to one place have one ".part"; a ".part" *)
(* is an entry of its folder, and is moved with it.                        *)
(***************************************************************************)
Active == {d \in Transfer : fetch[d].on}

\* The downloads that write into the ".part" of a leaf at some place.
Writers(l, q) == {d \in Active : fetch[d].leaf = l /\ fetch[d].part = q}
DocsOf(D) == {fetch[d].doc : d \in D}

\* fetch with the ".part" of some downloads at another place, or nowhere.
Parts(D, q) == [d \in Transfer |-> IF d \in D THEN [fetch[d] EXCEPT !.part = q] ELSE fetch[d]]

\* File::create truncates the ".part" another download is writing.
Begin(d, f, q, l) ==
    /\ d \notin Active /\ docs < MaxDocs /\ docs' = docs + 1
    /\ q \in {pointer[f], Plaste} /\ {l} \in Entry[f]
    /\ fetch' = [fetch EXCEPT ![d] = [on |-> TRUE, doc |-> docs + 1, leaf |-> l, at |-> q, part |-> q,
                                      left |-> Pieces, late |-> FALSE]]
    /\ excused' = IF Writers(l, q) = {} THEN excused ELSE excused \cup {docs + 1} \cup DocsOf(Writers(l, q))
    /\ UNCHANGED <<disk, command, faults, mine, origin, forgotten>>

\* write_all returns before the piece is on disk: an error shows at the next one.
Receive(d) ==
    /\ d \in Active /\ fetch[d].left > 0 /\ ~fetch[d].late
    /\ \/ UNCHANGED faults /\ fetch' = [fetch EXCEPT ![d].left = @ - 1]
       \/ Fault /\ fetch' = [fetch EXCEPT ![d].left = @ - 1, ![d].late = TRUE]
    /\ UNCHANGED <<disk, command, docs, history>>

\* Cancelled, the body cut, a write refused: the ".part" is removed.
Interrupt(d) ==
    /\ d \in Active
    /\ fetch' = [Parts(Writers(fetch[d].leaf, fetch[d].at), Absent) EXCEPT ![d] = NoFetch]
    /\ UNCHANGED <<disk, command, docs, faults, history>>

\* The end of the body: the error of flush is ignored, and whatever is called ".part" renamed.
Finish(d) ==
    LET t == fetch[d]
        W == Writers(t.leaf, t.at)
        whole == W = {d} /\ ~t.late
    IN  /\ d \in Active /\ t.left = 0 /\ W # {}
        /\ \E content \in {t.doc, Torn} :
             /\ whole => content = t.doc
             /\ t.late => content = Torn
             /\ Keep(t.doc, t.at, t.leaf, content)
        /\ excused' = IF whole /\ ~Crossed(t.at, t.leaf) THEN excused ELSE excused \cup {t.doc}
        /\ fetch' = [Parts(W, Absent) EXCEPT ![d] = NoFetch]
        /\ UNCHANGED <<pointer, config, pc, which, current, mem, entry, rest, docs, faults, origin, forgotten>>

\* There is none: the rename fails, and so does the download.
FinishFails(d) ==
    /\ d \in Active /\ fetch[d].left = 0 /\ Writers(fetch[d].leaf, fetch[d].at) = {}
    /\ fetch' = [fetch EXCEPT ![d] = NoFetch]
    /\ UNCHANGED <<disk, command, docs, faults, history>>

\* migrate_contents comes to a ".part": renamed over one that is there, or copied and removed.
MovePart(l) ==
    LET W == Writers(l, current)
        V == Writers(l, Plaste)
    IN  /\ pc = "move" /\ current # Plaste /\ {l} \in Entry[which] /\ W # {}
        /\ \E q \in {Plaste, Absent} : fetch' =
             [d \in Transfer |-> IF d \in W THEN Parts(W, q)[d]
                                 ELSE IF q = Plaste THEN Parts(V, Absent)[d] ELSE fetch[d]]
        /\ excused' = IF V = {} THEN excused ELSE excused \cup DocsOf(V \cup W)
        /\ UNCHANGED <<disk, command, docs, faults, mine, origin, forgotten>>

-----------------------------------------------------------------------------
\* The program exits, in the middle of a write or of a copy or not.
Quit ==
    /\ Fault /\ (pc # "idle" \/ Active # {}) /\ Return
    /\ \/ Write(config)
       \/ pc \in {"save", "forget"} /\ Write(Torn)
    /\ \/ UNCHANGED <<files, excused>>
       \/ pc = "copy" /\ \E l \in rest : Put(l, Torn)
    /\ fetch' = [d \in Transfer |-> NoFetch]
    /\ UNCHANGED <<pointer, docs, mine, origin>>

Commands ==
    \/ \E f \in Folder : Redirect(f) \/ Revert(f)
    \/ SaveRecord \/ SaveFails \/ EndCopy \/ EndMove \/ SetPointer \/ CommandFails
    \/ PointBack \/ SaveForget
    \/ \E e \in UNION {Entry[f] : f \in Folder} : Rename(e) \/ Skip(e) \/ BeginCopy(e)
    \/ \E l \in Leaf : CopyLeaf(l) \/ CopyFails(l) \/ MovePart(l)
    \/ \E S \in SUBSET entry : RemoveEntry(S)

Downloads ==
    \E d \in Transfer :
        \/ \E f \in Folder, q \in Place, l \in Leaf : Begin(d, f, q, l)
        \/ Receive(d) \/ Interrupt(d) \/ Finish(d) \/ FinishFails(d)

Next ==
    \/ Commands \/ Downloads \/ Quit
    \/ \E f \in Folder : Relocate(f) \/ \E q \in Place, l \in Leaf : Edit(f, q, l)

Spec == Init /\ [][Next]_vars

-----------------------------------------------------------------------------
(***************************************************************************)
(* Properties.                                                             *)
(***************************************************************************)
\* known_folders.rs 6-10, transfer.rs 419-420: a document that was saved, or whose
\* download was reported done, is whole somewhere, and no move, failure or exit loses
\* it, unless: a move put a file of the same name in its place; it was saved between
\* the copy and the removal of its entry; its download shared a ".part", or the write
\* of its last piece failed.
Kept(n) == \E q \in Place, l \in Leaf : files[q][l] = n
NothingIsLostUnlessExcused == \A n \in mine \ excused : Kept(n)

\* known_folders.rs 191: a folder that points at ~/Plaste has a record of where it was
\* before, whatever failed and however often it was redirected, unless the one file of
\* all records was cut short or the folder put elsewhere meanwhile.
UndoableUnlessForgotten ==
    \A f \in Folder \ forgotten : pointer[f] = Plaste => config # Torn /\ config[f] = origin[f]
=============================================================================
