---------------------------- MODULE ClientProofs ----------------------------
(***************************************************************************)
(* What a client relies on.  Desktop: a redirected folder can be put back, *)
(* and no document is lost (UndoableUnlessForgotten,                       *)
(* NothingIsLostUnlessExcused), for any folders, files, downloads and      *)
(* failures.  Download: the bytes of an answer are those that were asked   *)
(* for (SentIsAsked), for any chunks, lengths, range and loss.             *)
(***************************************************************************)
EXTENDS Desktop, Download, FiniteSetTheorems, SequenceTheorems, WellFoundedInduction, TLAPS

(***************************************************************************)
(* Desktop.                                                                *)
(***************************************************************************)
Record == [Folder -> Place \cup {Absent}]
Moving == {"move", "copy", "remove", "set"}

Types ==
    /\ pointer \in [Folder -> Place] /\ origin \in Record
    /\ config \in Record \cup {Torn} /\ mem \in Record
    /\ pc \in {"idle", "save", "point", "forget"} \cup Moving
    /\ which \in Folder \cup {Absent} /\ current \in Place \cup {Absent}
    /\ pc # "idle" => which \in Folder /\ current \in Place
    /\ forgotten \subseteq Folder

\* The record of a folder that points at ~/Plaste is where it was, and that is elsewhere.
Recorded ==
    \A f \in Folder \ forgotten : pointer[f] = Plaste =>
        config # Torn /\ config[f] = origin[f] /\ origin[f] \in Place \ {Plaste}

\* A record names no place under ~/Plaste; without a redirection, it names where the folder is.
Sound ==
    \A f \in Folder \ forgotten : Loaded[f] # Absent =>
        Loaded[f] # Plaste /\ (pointer[f] = Plaste \/ Loaded[f] = pointer[f])

\* The locals of a redirection before its record is written, and what is true after.
Saving ==
    pc = "save" =>
        /\ mem = [Loaded EXCEPT ![which] = IF @ = Absent THEN current ELSE @]
        /\ which \in forgotten \/ current = pointer[which]

Saved ==
    pc \in Moving =>
        /\ config # Torn /\ config[which] # Absent

\* The locals of a reversion, before and after the pointer is back.
Undoing ==
    pc \in {"point", "forget"} =>
        /\ Loaded[which] = current /\ mem = [Loaded EXCEPT ![which] = Absent]
        /\ pc = "forget" => which \in forgotten \/ pointer[which] = current

IInv == Types /\ Recorded /\ Sound /\ Saving /\ Saved /\ Undoing

\* What these read: downloads, documents and the disk are none of it.
core == <<pointer, config, pc, which, current, mem, origin, forgotten>>
kept == <<pointer, config, which, current, mem, origin, forgotten>>

-----------------------------------------------------------------------------
(***************************************************************************)
(* Steps of a kind.                                                        *)
(***************************************************************************)
\* What is read from the file is a record, or none.
LEMMA LoadedType == Types => Loaded \in Record
BY DEF Types, Loaded, Record, NoRecord

\* Nothing of it moves.
LEMMA Stutters == IInv /\ UNCHANGED core => IInv'
BY DEF IInv, core, Types, Recorded, Sound, Saving, Saved, Undoing, Loaded, Record

\* From one entry to the next, and to the end.
LEMMA Moves ==
    ASSUME IInv, pc \in Moving, pc' \in Moving, UNCHANGED kept
    PROVE  IInv'
BY DEF IInv, kept, Types, Recorded, Sound, Saving, Saved, Undoing, Loaded, Moving, Record

\* A command ends, and has changed nothing in its last step.
LEMMA Ends ==
    ASSUME IInv, Return, UNCHANGED <<pointer, config, origin, forgotten>>
    PROVE  IInv'
<1>1. Types'
  BY DEF IInv, Types, Return, Record, NoRecord, Moving
<1>2. Recorded' /\ Sound'
  BY DEF IInv, Recorded, Sound, Loaded
<1>3. Saving' /\ Saved' /\ Undoing'
  BY DEF Return, Saving, Saved, Undoing, Moving
<1> QED
  BY <1>1, <1>2, <1>3 DEF IInv

\* The file is cut short: every record it had is forgotten.
LEMMA Tears ==
    ASSUME IInv, Return, Write(Torn), UNCHANGED <<pointer, origin>>
    PROVE  IInv'
<1>1. Types'
  BY DEF IInv, Types, Return, Record, NoRecord, Moving, Write
<1>2. Recorded'
  <2> SUFFICES ASSUME NEW f \in Folder, f \notin forgotten', pointer[f] = Plaste
               PROVE  FALSE
    BY DEF Recorded
  <2>1. Loaded[f] = Absent /\ f \notin forgotten
    BY DEF Write
  <2>2. config # Torn /\ config[f] \in Place
    BY <2>1 DEF IInv, Recorded
  <2> QED
    BY <2>1, <2>2, DesktopAssumption DEF Loaded, Place, Home, Elsewhere, Plaste
<1>3. Sound'
  BY DEF Sound, Loaded, NoRecord, Write
<1>4. Saving' /\ Saved' /\ Undoing'
  BY DEF Return, Saving, Saved, Undoing, Moving
<1> QED
  BY <1>1, <1>2, <1>3, <1>4 DEF IInv

\* The file is as it was.
LEMMA Unwritten == Types /\ Write(config) => UNCHANGED <<config, forgotten>>
BY DEF Write, Loaded, NoRecord, Types
-----------------------------------------------------------------------------
(***************************************************************************)
(* One lemma per step that writes a record or moves a folder.              *)
(***************************************************************************)
LEMMA Redirects ==
    ASSUME IInv, NEW f \in Folder, Redirect(f)
    PROVE  IInv'
<1>1. Loaded \in Record /\ Loaded' = Loaded
  BY LoadedType DEF IInv, Redirect, disk, Loaded
<1>2. Types'
  BY <1>1 DEF IInv, Types, Redirect, disk, history, Record, Moving
<1>3. Recorded' /\ Sound'
  BY <1>1 DEF IInv, Recorded, Sound, Redirect, disk, history
<1>4. Saving'
  BY <1>1 DEF Saving, Redirect, disk, history
<1>5. Saved' /\ Undoing'
  BY DEF Saved, Undoing, Redirect, Moving
<1> QED
  BY <1>2, <1>3, <1>4, <1>5 DEF IInv

LEMMA SavesRecord ==
    ASSUME IInv, SaveRecord
    PROVE  IInv'
<1>1. Loaded \in Record /\ which \in Folder /\ current \in Place /\ mem \in Record
  BY LoadedType DEF IInv, Types, SaveRecord
<1>2. /\ config' = mem /\ mem # Torn /\ Loaded' = mem
      /\ UNCHANGED <<pointer, origin, which, current, mem, forgotten>>
  BY <1>1, DesktopAssumption DEF SaveRecord, Write, Loaded, Record, Place, Home, Elsewhere, Plaste
<1>3. /\ \A f \in Folder \ {which} : mem[f] = Loaded[f]
      /\ mem[which] = IF Loaded[which] = Absent THEN current ELSE Loaded[which]
      /\ which \in forgotten \/ current = pointer[which]
  BY <1>1 DEF IInv, Saving, SaveRecord, Record
<1>4. Absent \notin Place
  BY DesktopAssumption DEF Place, Home, Elsewhere, Plaste
<1>5. Types'
  BY <1>1, <1>2 DEF IInv, Types, SaveRecord, Moving
<1>6. \A f \in Folder \ forgotten : pointer[f] = Plaste => mem[f] = Loaded[f] /\ Loaded[f] = origin[f]
  BY <1>3, <1>4 DEF IInv, Recorded, Loaded
<1>7. Recorded'
  BY <1>2, <1>6 DEF IInv, Recorded
<1>8. Sound'
  <2> SUFFICES ASSUME NEW f \in Folder \ forgotten, mem[f] # Absent
               PROVE  mem[f] # Plaste /\ (pointer[f] = Plaste \/ mem[f] = pointer[f])
    BY <1>2 DEF Sound
  <2>1. CASE Loaded[f] # Absent
    BY <2>1, <1>3 DEF IInv, Sound
  <2>2. CASE Loaded[f] = Absent
    <3>1. f = which /\ mem[f] = pointer[f]
      BY <2>2, <1>3
    <3>2. pointer[f] # Plaste
      BY <2>2, <1>4, <1>6 DEF IInv, Recorded
    <3> QED
      BY <3>1, <3>2
  <2> QED
    BY <2>1, <2>2
<1>9. Saving' /\ Saved' /\ Undoing'
  BY <1>1, <1>2, <1>3, <1>4 DEF Saving, Saved, Undoing, SaveRecord, Moving
<1> QED
  BY <1>5, <1>7, <1>8, <1>9 DEF IInv

\* It points at ~/Plaste now, with the record made before.
LEMMA SetsPointer ==
    ASSUME IInv, SetPointer
    PROVE  IInv'
<1>1. /\ which \in Folder /\ config \in Record /\ config # Torn /\ Loaded = config
      /\ config[which] # Absent
  BY DEF IInv, Types, Saved, SetPointer, Moving, Loaded
<1>2. /\ UNCHANGED <<config, forgotten>> /\ Loaded' = Loaded
      /\ \A f \in Folder : pointer'[f] = IF f = which THEN Plaste ELSE pointer[f]
      /\ \A f \in Folder : origin'[f] = IF f = which /\ pointer[f] # Plaste THEN pointer[f] ELSE origin[f]
  BY <1>1 DEF IInv, Types, SetPointer, Loaded, Record
<1>3. Types'
  BY <1>1, <1>2 DEF IInv, Types, SetPointer, Return, Record, NoRecord, Moving, Place
<1>4. Sound'
  BY <1>2 DEF IInv, Sound
<1>5. Recorded'
  <2> SUFFICES ASSUME NEW f \in Folder \ forgotten, pointer'[f] = Plaste
               PROVE  config[f] = origin'[f] /\ origin'[f] \in Place \ {Plaste}
    BY <1>1, <1>2 DEF Recorded
  <2>1. CASE pointer[f] = Plaste
    BY <2>1, <1>2 DEF IInv, Recorded
  <2>2. CASE pointer[f] # Plaste
    BY <2>2, <1>1, <1>2 DEF IInv, Sound, Types
  <2> QED
    BY <2>1, <2>2
<1>6. Saving' /\ Saved' /\ Undoing'
  BY DEF Saving, Saved, Undoing, SetPointer, Return, Moving
<1> QED
  BY <1>3, <1>4, <1>5, <1>6 DEF IInv

LEMMA Reverts ==
    ASSUME IInv, NEW f \in Folder, Revert(f)
    PROVE  IInv'
<1>1. Loaded \in Record /\ Loaded' = Loaded
  BY LoadedType DEF IInv, Revert, disk, Loaded
<1>2. Types'
  BY <1>1 DEF IInv, Types, Revert, disk, history, Record, Moving
<1>3. Recorded' /\ Sound'
  BY <1>1 DEF IInv, Recorded, Sound, Revert, disk, history
<1>4. Undoing'
  BY <1>1 DEF Undoing, Revert, disk, history
<1>5. Saved' /\ Saving'
  BY DEF Saved, Saving, Revert, Moving
<1> QED
  BY <1>2, <1>3, <1>4, <1>5 DEF IInv

LEMMA PointsBack ==
    ASSUME IInv, PointBack
    PROVE  IInv'
<1>1. which \in Folder /\ current \in Place /\ Loaded[which] = current
  BY DEF IInv, Types, Undoing, PointBack
<1>2. /\ UNCHANGED <<config, origin, forgotten, which, current, mem>> /\ Loaded' = Loaded
      /\ \A f \in Folder : pointer'[f] = IF f = which THEN current ELSE pointer[f]
  BY <1>1 DEF IInv, Types, PointBack, Loaded, history, NoRecord
<1>3. Absent \notin Place
  BY DesktopAssumption DEF Place, Home, Elsewhere, Plaste
<1>4. Types'
  BY <1>1, <1>2 DEF IInv, Types, PointBack, Moving
<1>5. which \notin forgotten => current # Plaste
  BY <1>1, <1>3 DEF IInv, Sound
<1>6. Recorded' /\ Sound'
  BY <1>1, <1>2, <1>5 DEF IInv, Recorded, Sound
<1>7. Undoing'
  BY <1>1, <1>2 DEF IInv, Undoing, PointBack
<1>8. Saving' /\ Saved'
  BY DEF Saving, Saved, PointBack, Moving
<1> QED
  BY <1>4, <1>6, <1>7, <1>8 DEF IInv

\* The record goes when the pointer is back.
LEMMA Forgets ==
    ASSUME IInv, SaveForget
    PROVE  IInv'
<1>1. Loaded \in Record /\ which \in Folder /\ current \in Place /\ mem \in Record
  BY LoadedType DEF IInv, Types, SaveForget
<1>2. config' = mem /\ mem # Torn /\ Loaded' = mem /\ UNCHANGED <<pointer, origin, forgotten>>
  BY <1>1, DesktopAssumption DEF SaveForget, Write, Loaded, Record, Place, Home, Elsewhere, Plaste
<1>3. /\ \A f \in Folder : mem[f] = IF f = which THEN Absent ELSE Loaded[f]
      /\ Loaded[which] = current /\ (which \in forgotten \/ pointer[which] = current)
  BY <1>1 DEF IInv, Undoing, SaveForget, Record
<1>4. which \in forgotten \/ pointer[which] # Plaste
  BY <1>1, <1>3, DesktopAssumption DEF IInv, Sound, Place, Home, Elsewhere, Plaste
<1>5. Types'
  BY <1>1, <1>2 DEF IInv, Types, SaveForget, Return, Record, NoRecord, Moving
<1>6. Recorded'
  BY <1>2, <1>3, <1>4 DEF IInv, Recorded, Loaded
<1>7. Sound'
  BY <1>2, <1>3 DEF IInv, Sound
<1>8. Saving' /\ Saved' /\ Undoing'
  BY DEF Saving, Saved, Undoing, SaveForget, Return, Moving
<1> QED
  BY <1>5, <1>6, <1>7, <1>8 DEF IInv

\* A folder put elsewhere is excused if it is recorded, or about to be.
LEMMA Relocates ==
    ASSUME IInv, NEW f \in Folder, Relocate(f)
    PROVE  IInv'
<1>1. /\ UNCHANGED <<config, origin, pc, which, current, mem>> /\ Loaded' = Loaded
      /\ \A g \in Folder : pointer'[g] = IF g = f THEN Elsewhere ELSE pointer[g]
      /\ forgotten \subseteq forgotten' /\ (Loaded[f] # Absent \/ which = f => f \in forgotten')
  BY DEF IInv, Types, Relocate, command, Loaded
<1>2. Types'
  <2>1. pointer' \in [Folder -> Place] /\ forgotten' \subseteq Folder
    BY DEF IInv, Types, Relocate, Place
  <2> QED
    BY <2>1, <1>1 DEF IInv, Types
<1>3. Recorded'
  BY <1>1 DEF IInv, Recorded, Elsewhere, Plaste
<1>4. Sound'
  BY <1>1 DEF IInv, Sound
<1>5. Saving' /\ Saved'
  BY <1>1 DEF IInv, Types, Saving, Saved, Moving
<1>6. Undoing'
  BY <1>1 DEF IInv, Types, Undoing
<1> QED
  BY <1>2, <1>3, <1>4, <1>5, <1>6 DEF IInv

\* A command fails, or the program exits, with the file as it was or cut short.
LEMMA Stops ==
    ASSUME IInv, SaveFails \/ CommandFails \/ Quit
    PROVE  IInv'
<1>1. Return /\ UNCHANGED <<pointer, origin>>
  BY DEF SaveFails, CommandFails, Quit, disk, history
<1>2. Write(config) \/ Write(Torn) \/ UNCHANGED <<config, forgotten>>
  BY DEF SaveFails, CommandFails, Quit, disk, history
<1> QED
  BY <1>1, <1>2, Ends, Tears, Unwritten DEF IInv

-----------------------------------------------------------------------------
(***************************************************************************)
(* The theorem.                                                            *)
(***************************************************************************)
LEMMA StartsSound == Init => IInv
<1> SUFFICES ASSUME Init PROVE IInv
  OBVIOUS
<1>1. Loaded = NoRecord
  BY DEF Init, Loaded
<1>2. Types
  BY DEF Init, Types, Record, NoRecord, Place, Moving
<1>3. Recorded /\ Sound
  BY <1>1 DEF Init, Recorded, Sound, NoRecord, Home, Plaste
<1>4. Saving /\ Saved /\ Undoing
  BY DEF Init, Saving, Saved, Undoing, Moving
<1> QED
  BY <1>2, <1>3, <1>4 DEF IInv

LEMMA StaysSound == IInv /\ [Next]_vars => IInv'
<1> SUFFICES ASSUME IInv, [Next]_vars PROVE IInv'
  OBVIOUS
<1>1. CASE Commands
  <2>1. ASSUME NEW f \in Folder, Redirect(f) \/ Revert(f) PROVE IInv'
    BY <2>1, Redirects, Reverts
  <2>2. CASE SaveRecord \/ SetPointer \/ PointBack \/ SaveForget
    BY <2>2, SavesRecord, SetsPointer, PointsBack, Forgets
  <2>3. CASE SaveFails \/ CommandFails
    BY <2>3, Stops
  <2>4. CASE EndCopy \/ EndMove
    BY <2>4, Moves DEF EndCopy, EndMove, Moving, kept, disk, history
  <2>5. ASSUME NEW e \in UNION {Entry[f] : f \in Folder}, Rename(e) \/ Skip(e) \/ BeginCopy(e)
        PROVE  IInv'
    BY <2>5, Moves DEF Rename, Skip, BeginCopy, Listed, Moving, kept, disk, history
  <2>6. ASSUME NEW l \in Leaf, CopyLeaf(l) \/ CopyFails(l) PROVE IInv'
    BY <2>6, Moves DEF CopyLeaf, CopyFails, Moving, kept
  <2>7. ASSUME NEW l \in Leaf, MovePart(l) PROVE IInv'
    BY <2>7, Stutters DEF MovePart, core, disk, command
  <2>8. ASSUME NEW S \in SUBSET entry, RemoveEntry(S) PROVE IInv'
    BY <2>8, Moves DEF RemoveEntry, Moving, kept, history
  <2> QED
    BY <1>1, <2>1, <2>2, <2>3, <2>4, <2>5, <2>6, <2>7, <2>8 DEF Commands
<1>2. CASE Downloads
  <2> SUFFICES ASSUME NEW d \in Transfer,
                      \/ \E f \in Folder, q \in Place, l \in Leaf : Begin(d, f, q, l)
                      \/ Receive(d) \/ Interrupt(d) \/ Finish(d) \/ FinishFails(d)
               PROVE  UNCHANGED core
    BY <1>2, Stutters DEF Downloads
  <2>1. CASE \E f \in Folder, q \in Place, l \in Leaf : Begin(d, f, q, l)
    BY <2>1 DEF Begin, core, disk, command
  <2>2. CASE Receive(d) \/ Interrupt(d) \/ FinishFails(d)
    BY <2>2 DEF Receive, Interrupt, FinishFails, core, disk, command, history
  <2>3. CASE Finish(d)
    BY <2>3 DEF Finish, core
  <2> QED
    BY <2>1, <2>2, <2>3
<1>3. CASE Quit
  BY <1>3, Stops
<1>4. ASSUME NEW f \in Folder, Relocate(f) \/ \E q \in Place, l \in Leaf : Edit(f, q, l)
      PROVE  IInv'
  <2>1. CASE Relocate(f)
    BY <2>1, Relocates
  <2>2. CASE \E q \in Place, l \in Leaf : Edit(f, q, l)
    BY <2>2, Stutters DEF Edit, core
  <2> QED
    BY <1>4, <2>1, <2>2
<1>5. CASE UNCHANGED vars
  BY <1>5, Stutters DEF vars, core, disk, command, history
<1> QED
  BY <1>1, <1>2, <1>3, <1>4, <1>5 DEF Next

\* known_folders.rs 191: the record of where a folder was is there as long as the folder
\* points at ~/Plaste, for any folders, documents, downloads, failures and exits.
THEOREM Undoable == Spec => []UndoableUnlessForgotten
<1>1. IInv => UndoableUnlessForgotten
  BY DEF IInv, Recorded, UndoableUnlessForgotten
<1> QED
  BY <1>1, StartsSound, StaysSound, PTL DEF Spec
-----------------------------------------------------------------------------
(***************************************************************************)
(* Documents: what is on the disk, and what was copied of an entry.        *)
(***************************************************************************)
FileContent == Nat \cup {Absent, Torn}
Running == [on : {TRUE}, doc : Nat, leaf : Leaf, at : Place, part : Place \cup {Absent},
            left : Int, late : BOOLEAN]
Fetch == Running \cup {NoFetch}

Within == entry \subseteq Leaf /\ rest \subseteq Leaf
Stored ==
    /\ files \in [Place -> [Leaf -> FileContent]] /\ docs \in Nat
    /\ fetch \in [Transfer -> Fetch] /\ Within

\* The documents under way are on no disk yet, and no two are the same.
Coming ==
    /\ \A d \in Active : fetch[d].doc \in 1 .. docs /\ \A q \in Place, l \in Leaf : files[q][l] # fetch[d].doc
    /\ \A d, e \in Active : fetch[d].doc = fetch[e].doc => d = e

Numbered ==
    /\ \A q \in Place, l \in Leaf : files[q][l] \in Nat => files[q][l] <= docs
    /\ mine \subseteq 1 .. docs
    /\ Coming

\* What an entry about to be removed holds is at its new place too, as far as the copy got.
CopiedAt(l) == \A n \in mine \ excused : files[current][l] = n => files[Plaste][l] = n
Copied ==
    /\ pc # "copy" => rest = {}
    /\ pc \in {"copy", "remove"} => current # Plaste /\ \A l \in Leaf \cap (entry \ rest) : CopiedAt(l)

Documents == Stored /\ Numbered /\ Copied /\ NothingIsLostUnlessExcused

\* A download goes on with its document, or ends.
Onward ==
    /\ fetch' \in [Transfer -> Fetch]
    /\ \A d \in Transfer : fetch'[d].on => fetch[d].on /\ fetch'[d].doc = fetch[d].doc

LEMMA RunningIs ==
    ASSUME NEW t \in Running
    PROVE  t.on /\ t.doc \in Nat /\ t.leaf \in Leaf /\ t.at \in Place
BY DEF Running

\* What a piece, or the loss of one, makes of it.
LEMMA RunsOn ==
    ASSUME NEW t \in Running
    PROVE  /\ [t EXCEPT !.left = @ - 1] \in Running /\ [t EXCEPT !.left = @ - 1].doc = t.doc
           /\ [t EXCEPT !.left = @ - 1, !.late = TRUE] \in Running
           /\ [t EXCEPT !.left = @ - 1, !.late = TRUE].doc = t.doc
<1>1. PICK left \in Int : left = t.left - 1
  BY DEF Running
<1>2. [t EXCEPT !.left = left] \in Running /\ [t EXCEPT !.left = left].doc = t.doc
  BY DEF Running
<1>3. [t EXCEPT !.left = left, !.late = TRUE] \in Running /\ [t EXCEPT !.left = left, !.late = TRUE].doc = t.doc
  BY DEF Running
<1> QED
  BY <1>1, <1>2, <1>3

LEMMA FetchesAre ==
    ASSUME Stored, NEW d \in Transfer
    PROVE  /\ fetch[d] \in Fetch
           /\ d \in Active => /\ fetch[d] \in Running /\ fetch[d].on
                              /\ fetch[d].doc \in Nat /\ fetch[d].leaf \in Leaf /\ fetch[d].at \in Place
<1>1. fetch[d] \in Fetch
  BY DEF Stored
<1>2. d \in Active => fetch[d] # NoFetch
  BY DEF Active, NoFetch
<1>3. d \in Active => fetch[d] \in Running
  BY <1>1, <1>2 DEF Fetch
<1> QED
  BY <1>1, <1>3, RunningIs

LEMMA PartsAre ==
    ASSUME Stored, NEW D \in SUBSET Active, NEW q \in Place \cup {Absent}
    PROVE  /\ Parts(D, q) \in [Transfer -> Fetch]
           /\ \A d \in Transfer : Parts(D, q)[d].on =>
                 fetch[d].on /\ Parts(D, q)[d].doc = fetch[d].doc
<1> SUFFICES ASSUME NEW d \in Transfer
             PROVE  /\ Parts(D, q)[d] \in Fetch
                    /\ Parts(D, q)[d].on => fetch[d].on /\ Parts(D, q)[d].doc = fetch[d].doc
  BY DEF Parts
<1>1. CASE d \in D
  <2>1. fetch[d] \in Running /\ fetch[d].on
    BY <1>1, FetchesAre DEF Active
  <2>2. Parts(D, q)[d] = [fetch[d] EXCEPT !.part = q]
    BY <1>1 DEF Parts
  <2> QED
    BY <2>1, <2>2 DEF Fetch, Running
<1>2. CASE d \notin D
  BY <1>2, FetchesAre DEF Parts
<1> QED
  BY <1>1, <1>2

\* The ways a download goes on or ends.
LEMMA Goes ==
    ASSUME Stored, NEW D \in SUBSET Active, NEW d \in Transfer,
           \/ fetch' = [Parts(D, Absent) EXCEPT ![d] = NoFetch]
           \/ fetch' = [fetch EXCEPT ![d] = NoFetch]
           \/ fetch' = [e \in Transfer |-> NoFetch]
           \/ UNCHANGED fetch
    PROVE  Onward
<1> DEFINE P == Parts(D, Absent)
<1>1. P \in [Transfer -> Fetch] /\ \A e \in Transfer : P[e].on => fetch[e].on /\ P[e].doc = fetch[e].doc
  BY PartsAre
<1>2. NoFetch \in Fetch /\ ~NoFetch.on /\ fetch \in [Transfer -> Fetch]
  BY DEF Fetch, NoFetch, Stored
<1> HIDE DEF P
<1>3. CASE fetch' = [P EXCEPT ![d] = NoFetch]
  BY <1>1, <1>2, <1>3 DEF Onward
<1>4. CASE fetch' = [fetch EXCEPT ![d] = NoFetch] \/ fetch' = [e \in Transfer |-> NoFetch] \/ UNCHANGED fetch
  BY <1>2, <1>4 DEF Onward
<1> QED
  BY <1>3, <1>4 DEF P

\* Documents move about the disk; none is new.
LEMMA Shuffled ==
    ASSUME Stored, Numbered, Onward, UNCHANGED <<mine, docs>>, Within',
           files' \in [Place -> [Leaf -> FileContent]],
           \A q \in Place, l \in Leaf :
              files'[q][l] \in {Absent, Torn} \/ \E p \in Place, k \in Leaf : files'[q][l] = files[p][k]
    PROVE  Stored' /\ Numbered'
<1>1. Stored'
  BY DEF Stored, Onward
<1>2. \A q \in Place, l \in Leaf : files'[q][l] \in Nat => files'[q][l] <= docs
  BY DesktopAssumption DEF Numbered
<1>3. \A d \in Transfer : d \in Active' => d \in Active /\ fetch'[d].doc = fetch[d].doc /\ fetch[d].doc \in Nat
  BY FetchesAre DEF Active, Onward
<1>4. Coming'
  <2>1. \A d \in Active' : fetch'[d].doc \in 1 .. docs
    BY <1>3 DEF Numbered, Coming, Active
  <2>2. \A d \in Active', q \in Place, l \in Leaf : files'[q][l] # fetch'[d].doc
    BY <1>3, DesktopAssumption DEF Numbered, Coming, Active
  <2>3. \A d, e \in Active' : fetch'[d].doc = fetch'[e].doc => d = e
    BY <1>3 DEF Numbered, Coming, Active
  <2> QED
    BY <2>1, <2>2, <2>3 DEF Coming
<1> QED
  BY <1>1, <1>2, <1>4 DEF Numbered

\* The disk does not change, nor whose the documents are.
LEMMA Rests ==
    ASSUME Documents, Onward, UNCHANGED <<files, mine, docs>>, excused \subseteq excused', Within',
           Copied'
    PROVE  Documents'
<1>1. Stored' /\ Numbered'
  <2>1. files \in [Place -> [Leaf -> FileContent]]
    BY DEF Documents, Stored
  <2> QED
    BY <2>1, Shuffled DEF Documents
<1>2. NothingIsLostUnlessExcused'
  BY DEF Documents, NothingIsLostUnlessExcused, Kept
<1> QED
  BY <1>1, <1>2 DEF Documents

LEMMA CopyStands ==
    ASSUME Copied, UNCHANGED <<files, mine, pc, current, entry, rest>>, excused \subseteq excused'
    PROVE  Copied'
BY DEF Copied, CopiedAt

LEMMA NoCopy ==
    ASSUME pc' \notin {"copy", "remove"}, rest' = {}
    PROVE  Copied'
BY DEF Copied

-----------------------------------------------------------------------------
(***************************************************************************)
(* The steps that write on the disk.                                       *)
(***************************************************************************)
LEMMA PlasteIn == Plaste \in Place
BY DEF Place

\* A leaf is written at its new place.
LEMMA Puts ==
    ASSUME Documents, current \in Place, current # Plaste, NEW l \in Leaf, NEW n,
           Put(l, n), n \in {files[current][l], files[Plaste][l], Torn},
           Onward, UNCHANGED <<mine, docs>>, Within'
    PROVE  /\ Stored' /\ Numbered' /\ NothingIsLostUnlessExcused'
           /\ excused \subseteq excused'
           /\ \A q \in Place, k \in Leaf : files'[q][k] = IF q = Plaste /\ k = l THEN n ELSE files[q][k]
<1>1. files \in [Place -> [Leaf -> FileContent]] /\ files[current][l] \in FileContent /\ files[Plaste][l] \in FileContent
  BY PlasteIn DEF Documents, Stored, Within
<1>2. n \in FileContent
  BY <1>1 DEF FileContent
<1>3. /\ files' \in [Place -> [Leaf -> FileContent]]
      /\ \A q \in Place, k \in Leaf : files'[q][k] = IF q = Plaste /\ k = l THEN n ELSE files[q][k]
  BY <1>1, <1>2, PlasteIn DEF Put
<1>4. Stored' /\ Numbered'
  BY <1>3, Shuffled, PlasteIn DEF Documents
<1>5. excused \subseteq excused'
  BY DEF Put
<1>6. NothingIsLostUnlessExcused'
  <2> SUFFICES ASSUME NEW m \in mine, m \notin excused' PROVE Kept(m)'
    BY DEF NothingIsLostUnlessExcused
  <2>1. PICK q \in Place, k \in Leaf : files[q][k] = m
    BY <1>5 DEF Documents, NothingIsLostUnlessExcused, Kept
  <2>2. CASE ~(q = Plaste /\ k = l)
    BY <2>1, <2>2, <1>3 DEF Kept
  <2>3. CASE q = Plaste /\ k = l /\ n = m
    BY <2>1, <2>3, <1>3 DEF Kept
  <2>4. CASE q = Plaste /\ k = l /\ n # m
    <3>1. m \notin Replaced({l})
      BY <2>1, <2>4 DEF Put
    <3>2. files[current][l] = m
      BY <2>1, <2>4, <3>1 DEF Replaced
    <3> QED
      BY <3>2, <1>3 DEF Kept
  <2> QED
    BY <2>2, <2>3, <2>4
<1> QED
  BY <1>3, <1>4, <1>5, <1>6

LEMMA CopiesLeaf ==
    ASSUME Documents, Types, NEW l \in Leaf, CopyLeaf(l)
    PROVE  Documents'
<1>1. current \in Place /\ current # Plaste /\ pc = "copy" /\ l \in rest
  BY DEF Documents, Copied, Types, CopyLeaf
<1>2. /\ Put(l, files[current][l])
      /\ UNCHANGED <<mine, docs, pc, current, entry, fetch>> /\ rest' = rest \ {l}
  BY DEF CopyLeaf
<1>3. Onward
  BY <1>2, Goes, FetchesAre DEF Onward, Documents, Stored
<1>4. /\ Stored' /\ Numbered' /\ NothingIsLostUnlessExcused' /\ excused \subseteq excused'
      /\ \A q \in Place, k \in Leaf :
            files'[q][k] = IF q = Plaste /\ k = l THEN files[current][l] ELSE files[q][k]
  BY <1>1, <1>2, <1>3, Puts DEF Documents, Stored, Within
<1>5. Copied'
  <2> SUFFICES ASSUME NEW k \in Leaf \cap (entry \ rest'), NEW n \in mine \ excused', files'[current][k] = n
               PROVE  files'[Plaste][k] = n
    BY <1>1, <1>2 DEF Copied, CopiedAt
  <2>1. files[current][k] = n /\ n \notin excused
    BY <1>1, <1>4
  <2>2. CASE k = l
    BY <2>1, <2>2, <1>4, PlasteIn
  <2>3. CASE k # l
    BY <2>1, <2>3, <1>1, <1>2, <1>4, PlasteIn DEF Documents, Copied, CopiedAt
  <2> QED
    BY <2>2, <2>3
<1> QED
  BY <1>4, <1>5 DEF Documents

LEMMA CopyStops ==
    ASSUME Documents, Types, NEW l \in Leaf, CopyFails(l)
    PROVE  Documents'
<1>1. current \in Place /\ current # Plaste /\ pc = "copy"
  BY DEF Documents, Copied, Types, CopyFails
<1>2. /\ Put(l, files[Plaste][l]) \/ Put(l, Torn)
      /\ UNCHANGED <<mine, docs, fetch>> /\ pc' = "move" /\ entry' = {} /\ rest' = {}
  BY DEF CopyFails
<1>3. Onward
  BY <1>2 DEF Onward, Documents, Stored
<1>4. Stored' /\ Numbered' /\ NothingIsLostUnlessExcused'
  BY <1>1, <1>2, <1>3, Puts DEF Within
<1>5. Copied'
  BY <1>2, NoCopy
<1> QED
  BY <1>4, <1>5 DEF Documents

\* An entry is renamed: what it replaces is excused.
LEMMA Renames ==
    ASSUME Documents, Types, NEW e \in SUBSET Leaf, Rename(e)
    PROVE  Documents'
<1>1. current \in Place /\ current # Plaste /\ pc = "move"
  BY DEF Types, Rename, Listed, Moving
<1>2. UNCHANGED <<mine, docs, fetch, pc, entry, rest>> /\ excused' = excused \cup Replaced(e)
  BY DEF Rename
<1>3. files \in [Place -> [Leaf -> FileContent]]
  BY DEF Documents, Stored, Within
<1>4. /\ files' \in [Place -> [Leaf -> FileContent]]
      /\ \A q \in Place, k \in Leaf :
            files'[q][k] = IF k \notin e THEN files[q][k]
                           ELSE IF q = current THEN Absent
                           ELSE IF q = Plaste THEN files[current][k] ELSE files[q][k]
  <2> DEFINE arrived == [l \in Leaf |-> IF l \in e THEN files[current][l] ELSE files[Plaste][l]]
             left == [l \in Leaf |-> IF l \in e THEN Absent ELSE files[current][l]]
  <2>1. files' = [files EXCEPT ![Plaste] = arrived, ![current] = left]
    BY <1>1, <1>3, PlasteIn DEF Rename
  <2>2. arrived \in [Leaf -> FileContent] /\ left \in [Leaf -> FileContent]
    BY <1>1, <1>3, PlasteIn DEF FileContent
  <2>3. \A q \in Place : files'[q] = IF q = current THEN left ELSE IF q = Plaste THEN arrived ELSE files[q]
    <3> HIDE DEF arrived, left
    <3> QED
      BY <2>1, <1>1, <1>3, PlasteIn
  <2>4. files' \in [Place -> [Leaf -> FileContent]]
    <3> HIDE DEF arrived, left
    <3> QED
      BY <2>1, <2>2, <1>3
  <2> QED
    BY <2>3, <2>4
<1>5. Onward
  BY <1>2 DEF Onward, Documents, Stored
<1>6. Stored' /\ Numbered'
  <2>1. Within'
    BY <1>2 DEF Documents, Stored, Within
  <2>2. \A q \in Place, k \in Leaf :
          files'[q][k] \in {Absent, Torn} \/ \E p \in Place, j \in Leaf : files'[q][k] = files[p][j]
    BY <1>1, <1>4
  <2> QED
    BY <2>1, <2>2, <1>2, <1>4, <1>5, Shuffled DEF Documents, Stored, Within
<1>7. NothingIsLostUnlessExcused'
  <2> SUFFICES ASSUME NEW m \in mine, m \notin excused' PROVE Kept(m)'
    BY <1>2 DEF NothingIsLostUnlessExcused
  <2>1. PICK q \in Place, k \in Leaf : files[q][k] = m
    BY <1>2 DEF Documents, NothingIsLostUnlessExcused, Kept
  <2>2. CASE k \notin e \/ q \notin {Plaste, current}
    BY <2>1, <2>2, <1>4 DEF Kept
  <2>3. CASE k \in e /\ q = current
    BY <2>1, <2>3, <1>1, <1>4, PlasteIn DEF Kept
  <2>4. CASE k \in e /\ q = Plaste
    <3>1. files[current][k] = m
      BY <2>1, <2>4, <1>2 DEF Replaced
    <3> QED
      BY <3>1, <2>4, <1>1, <1>4, PlasteIn DEF Kept
  <2> QED
    BY <2>2, <2>3, <2>4
<1>8. Copied'
  BY <1>1, <1>2 DEF Documents, Copied
<1> QED
  BY <1>6, <1>7, <1>8 DEF Documents

\* An entry is removed: what was in it is at its new place.
LEMMA Removes ==
    ASSUME Documents, Types, NEW S \in SUBSET entry, RemoveEntry(S)
    PROVE  Documents'
<1>1. current \in Place /\ current # Plaste /\ pc = "remove" /\ rest = {}
  BY DEF Documents, Copied, Types, RemoveEntry
<1>2. UNCHANGED <<mine, docs, fetch, rest, excused>> /\ pc' = "move" /\ entry' = {}
  BY DEF RemoveEntry, history
<1>3. files \in [Place -> [Leaf -> FileContent]]
  BY DEF Documents, Stored, Within
<1>4. /\ files' \in [Place -> [Leaf -> FileContent]]
      /\ \A q \in Place, k \in Leaf :
            files'[q][k] = IF q = current /\ k \in S THEN Absent ELSE files[q][k]
  BY <1>1, <1>3 DEF RemoveEntry, FileContent
<1>5. Onward
  BY <1>2 DEF Onward, Documents, Stored
<1>6. Stored' /\ Numbered'
  BY <1>2, <1>4, <1>5, Shuffled DEF Documents, Stored, Within
<1>7. NothingIsLostUnlessExcused'
  <2> SUFFICES ASSUME NEW m \in mine \ excused PROVE Kept(m)'
    BY <1>2 DEF NothingIsLostUnlessExcused
  <2>1. PICK q \in Place, k \in Leaf : files[q][k] = m
    BY DEF Documents, NothingIsLostUnlessExcused, Kept
  <2>2. CASE ~(q = current /\ k \in S)
    BY <2>1, <2>2, <1>4 DEF Kept
  <2>3. CASE q = current /\ k \in S
    <3>1. files[Plaste][k] = m
      BY <2>1, <2>3, <1>1 DEF Documents, Copied, CopiedAt
    <3> QED
      BY <3>1, <1>1, <1>4, PlasteIn DEF Kept
  <2> QED
    BY <2>2, <2>3
<1>8. Copied'
  BY <1>1, <1>2, NoCopy
<1> QED
  BY <1>6, <1>7, <1>8 DEF Documents

LEMMA BeginsCopy ==
    ASSUME Documents, Types, NEW e \in SUBSET Leaf, BeginCopy(e)
    PROVE  Documents'
<1>1. /\ UNCHANGED <<files, mine, docs, fetch, excused, current>> /\ current # Plaste
      /\ pc' = "copy" /\ entry' = e /\ rest' = {l \in e : files[current][l] # Absent}
  BY DEF BeginCopy, disk, history
<1>2. Onward
  BY <1>1 DEF Onward, Documents, Stored
<1>3. Copied'
  <2>1. pc' = "copy" /\ current' # Plaste
    BY <1>1
  <2>2. ASSUME NEW l \in Leaf, l \in entry' \ rest' PROVE files[current][l] = Absent
    BY <1>1, <2>2
  <2>3. \A n \in mine : n \in Nat /\ n # Absent
    BY DesktopAssumption DEF Documents, Numbered
  <2>4. ASSUME NEW l \in Leaf \cap (entry' \ rest') PROVE CopiedAt(l)'
    BY <1>1, <2>2, <2>3, <2>4 DEF CopiedAt
  <2> QED BY <2>1, <2>4 DEF Copied
<1>4. Within'
  BY <1>1 DEF Within
<1> QED
  BY <1>1, <1>2, <1>3, <1>4, Rests

\* A document arrives at its place, with its number or one of those that came before.
LEMMA Arrives ==
    ASSUME Documents, Types, NEW n \in 1 .. docs', NEW q \in Place, NEW l \in Leaf,
           NEW content \in {n, Torn}, Keep(n, q, l, content),
           \A p \in Place, k \in Leaf : files[p][k] # n,
           content = n \/ n \in excused', Crossed(q, l) => n \in excused',
           docs' \in Nat, docs <= docs', excused \subseteq excused',
           Onward, \A d \in Transfer : fetch'[d].on => fetch'[d].doc # n,
           UNCHANGED <<pc, current, entry, rest>>
    PROVE  Documents'
<1>1. n \in Nat /\ n # Torn /\ n # Absent
  BY DesktopAssumption
<1>2. files \in [Place -> [Leaf -> FileContent]] /\ content \in FileContent
  BY <1>1 DEF Documents, Stored, FileContent
<1>3. docs \in Nat
  BY DEF Documents, Stored
<1>4. /\ files' \in [Place -> [Leaf -> FileContent]]
      /\ \A p \in Place, k \in Leaf : files'[p][k] = IF p = q /\ k = l THEN content ELSE files[p][k]
  BY <1>2 DEF Keep
<1>5. mine' = (mine \ {files[q][l]}) \cup {n}
  BY DEF Keep
<1>6. Stored'
  BY <1>4 DEF Documents, Stored, Onward, Within
<1>7. Numbered'
  <2>1. \A p \in Place, k \in Leaf : files'[p][k] \in Nat => files'[p][k] <= docs'
    BY <1>1, <1>3, <1>4, DesktopAssumption DEF Documents, Numbered
  <2>2. mine' \subseteq 1 .. docs'
    <3> SUFFICES ASSUME NEW m \in mine', m # n PROVE m \in 1 .. docs'
      OBVIOUS
    <3>1. m \in 1 .. docs
      BY <1>5 DEF Documents, Numbered
    <3> QED
      BY <3>1, <1>3
  <2>3. \A d \in Transfer : d \in Active' =>
          d \in Active /\ fetch'[d].doc = fetch[d].doc /\ fetch[d].doc \in Nat /\ fetch[d].doc # n
    BY FetchesAre DEF Active, Onward, Documents
  <2>4. \A d \in Active' : fetch'[d].doc \in 1 .. docs'
    BY <2>3 DEF Documents, Stored, Numbered, Coming, Active
  <2>5. \A d \in Active', p \in Place, k \in Leaf : files'[p][k] # fetch'[d].doc
    BY <2>3, <1>4, DesktopAssumption DEF Documents, Numbered, Coming, Active
  <2>6. \A d, e \in Active' : fetch'[d].doc = fetch'[e].doc => d = e
    BY <2>3 DEF Documents, Numbered, Coming, Active
  <2> QED
    BY <2>1, <2>2, <2>4, <2>5, <2>6 DEF Numbered, Coming
<1>8. NothingIsLostUnlessExcused'
  <2> SUFFICES ASSUME NEW m \in mine', m \notin excused' PROVE Kept(m)'
    BY DEF NothingIsLostUnlessExcused
  <2>1. CASE m = n
    BY <2>1, <1>4 DEF Kept
  <2>2. CASE m # n
    <3>1. m \in mine \ excused /\ m # files[q][l]
      BY <2>2, <1>5
    <3>2. PICK p \in Place, k \in Leaf : files[p][k] = m
      BY <3>1 DEF Documents, NothingIsLostUnlessExcused, Kept
    <3> QED
      BY <3>1, <3>2, <1>4 DEF Kept
  <2> QED
    BY <2>1, <2>2
<1>9. Copied'
  <2>1. CASE pc \notin {"copy", "remove"}
    BY <2>1 DEF Documents, Copied
  <2>2. CASE pc \in {"copy", "remove"}
    <3>1. current \in Place /\ current # Plaste
      BY <2>2 DEF Types, Documents, Copied
    <3> SUFFICES ASSUME NEW k \in Leaf \cap (entry \ rest), NEW m \in mine' \ excused', files'[current][k] = m
                 PROVE  files'[Plaste][k] = m
      BY <3>1 DEF Documents, Copied, CopiedAt
    <3>2. m # n
      <4>1. SUFFICES ASSUME m = n PROVE FALSE
        OBVIOUS
      <4>2. q = current /\ k = l
        BY <4>1, <3>1, <1>4
      <4> QED
        BY <4>1, <4>2, <2>2 DEF Crossed
    <3>3. m \in mine \ excused /\ m # files[q][l] /\ m # Torn
      BY <3>2, <1>5, DesktopAssumption DEF Documents, Numbered
    <3>4. files[current][k] = m
      BY <3>1, <3>2, <3>3, <1>4
    <3>5. files[Plaste][k] = m
      BY <2>2, <3>3, <3>4 DEF Documents, Copied, CopiedAt
    <3> QED
      BY <3>3, <3>5, <1>4, PlasteIn
  <2> QED
    BY <2>1, <2>2
<1> QED
  BY <1>6, <1>7, <1>8, <1>9 DEF Documents

LEMMA Edits ==
    ASSUME Documents, Types, NEW f \in Folder, NEW q \in Place, NEW l \in Leaf, Edit(f, q, l)
    PROVE  Documents'
<1>1. /\ docs \in Nat /\ docs' = docs + 1 /\ Keep(docs + 1, q, l, docs + 1)
      /\ excused' = IF Crossed(q, l) THEN excused \cup {docs + 1} ELSE excused
      /\ UNCHANGED <<fetch, pc, current, entry, rest>>
  BY DEF Edit, Documents, Stored
<1>2. \A p \in Place, k \in Leaf : files[p][k] # docs + 1
  BY <1>1 DEF Documents, Numbered
<1>3. Onward
  BY <1>1 DEF Onward, Documents, Stored
<1>4. \A d \in Transfer : fetch'[d].on => fetch'[d].doc # docs + 1
  BY <1>1 DEF Documents, Numbered, Coming, Active
<1>5. docs + 1 \in 1 .. docs' /\ docs' \in Nat /\ docs <= docs'
  BY <1>1
<1> DEFINE n == docs + 1
<1>6. n \in 1 .. docs' /\ Keep(n, q, l, n) /\ (Crossed(q, l) => n \in excused')
  BY <1>1, <1>2, <1>5
<1> HIDE DEF n
<1>7. (\A p \in Place, k \in Leaf : files[p][k] # n) /\ (\A d \in Transfer : fetch'[d].on => fetch'[d].doc # n)
  BY <1>2, <1>4 DEF n
<1>8. excused \subseteq excused'
  BY <1>1
<1> QED
  BY <1>1, <1>3, <1>5, <1>6, <1>7, <1>8, Arrives

LEMMA Finishes ==
    ASSUME Documents, Types, NEW d \in Transfer, Finish(d)
    PROVE  Documents'
<1> DEFINE n == fetch[d].doc
           q == fetch[d].at
           l == fetch[d].leaf
           W == Writers(l, q)
<1>1. d \in Active /\ W \in SUBSET Active /\ n \in 1 .. docs /\ q \in Place /\ l \in Leaf /\ docs \in Nat
  BY FetchesAre DEF Finish, Writers, Documents, Numbered, Coming, Stored
<1>2. PICK content \in {n, Torn} :
        /\ (W = {d} /\ ~fetch[d].late) => content = n
        /\ Keep(n, q, l, content)
  BY DEF Finish
<1>3. /\ excused' = IF W = {d} /\ ~fetch[d].late /\ ~Crossed(q, l) THEN excused ELSE excused \cup {n}
      /\ fetch' = [Parts(W, Absent) EXCEPT ![d] = NoFetch]
      /\ UNCHANGED <<docs, pc, current, entry, rest>>
  BY DEF Finish
<1>4. Onward
  BY <1>1, <1>3, Goes DEF Documents
<1>5. ~fetch'[d].on
  <2>1. Parts(W, Absent) \in [Transfer -> Fetch]
    BY <1>1, PartsAre DEF Documents
  <2> QED
    BY <2>1, <1>3 DEF NoFetch
<1>6. \A e \in Transfer : fetch'[e].on => fetch'[e].doc # n
  BY <1>1, <1>4, <1>5 DEF Onward, Documents, Numbered, Coming, Active
<1>7. \A p \in Place, k \in Leaf : files[p][k] # n
  BY <1>1 DEF Documents, Numbered, Coming
<1> HIDE DEF n, q, l, W
<1>8. excused \subseteq excused' /\ (content = n \/ n \in excused') /\ (Crossed(q, l) => n \in excused')
  BY <1>2, <1>3
<1> QED
  BY <1>1, <1>2, <1>3, <1>4, <1>6, <1>7, <1>8, Arrives

\* A download begins: its document is a new one.
LEMMA Starts ==
    ASSUME Documents, NEW d \in Transfer, NEW f \in Folder, NEW q \in Place, NEW l \in Leaf, Begin(d, f, q, l)
    PROVE  Documents'
<1>1. /\ docs \in Nat /\ docs' = docs + 1 /\ d \notin Active
      /\ UNCHANGED <<files, mine, pc, current, entry, rest>> /\ excused \subseteq excused'
  BY DEF Begin, disk, command, Documents, Stored
<1> DEFINE new == [on |-> TRUE, doc |-> docs + 1, leaf |-> l, at |-> q, part |-> q, left |-> Pieces, late |-> FALSE]
<1>2. fetch' = [fetch EXCEPT ![d] = new] /\ fetch \in [Transfer -> Fetch]
  BY DEF Begin, Documents, Stored
<1>3. new \in Fetch /\ new.doc = docs + 1
  BY <1>1, DesktopAssumption DEF Fetch, Running
<1> HIDE DEF new
<1>4. fetch' \in [Transfer -> Fetch] /\ \A e \in Transfer : fetch'[e] = IF e = d THEN new ELSE fetch[e]
  BY <1>2, <1>3
<1>5. Stored'
  BY <1>1, <1>4 DEF Documents, Stored, Within
<1>6. \A e \in Active' : e = d \/ (e \in Active /\ fetch'[e] = fetch[e] /\ fetch[e].doc \in 1 .. docs)
  BY <1>4 DEF Active, Documents, Numbered, Coming
<1>7. Coming'
  <2>1. \A e \in Active' : fetch'[e].doc \in 1 .. docs'
    BY <1>1, <1>3, <1>4, <1>6
  <2>2. \A e \in Active', p \in Place, k \in Leaf : files'[p][k] # fetch'[e].doc
    BY <1>1, <1>3, <1>4, <1>6 DEF Documents, Numbered, Coming
  <2>3. \A e, g \in Active' : fetch'[e].doc = fetch'[g].doc => e = g
    BY <1>1, <1>3, <1>4, <1>6 DEF Documents, Numbered, Coming
  <2> QED
    BY <2>1, <2>2, <2>3 DEF Coming
<1>8. Numbered'
  BY <1>1, <1>7 DEF Documents, Numbered
<1>9. Copied' /\ NothingIsLostUnlessExcused'
  BY <1>1, CopyStands DEF Documents, NothingIsLostUnlessExcused, Kept
<1> QED
  BY <1>5, <1>8, <1>9 DEF Documents

\* The other steps of a download, and a ".part" that is moved.
LEMMA GoesOn ==
    ASSUME Documents, NEW d \in Transfer, Receive(d) \/ Interrupt(d) \/ FinishFails(d)
    PROVE  Documents'
<1>1. UNCHANGED <<files, mine, docs, excused, pc, current, entry, rest>>
  BY DEF Receive, Interrupt, FinishFails, disk, command, history
<1>2. Onward
  <2>1. CASE Receive(d)
    <3>1. d \in Active /\ fetch[d] \in Running /\ fetch \in [Transfer -> Fetch] /\ fetch[d].on
      BY <2>1, FetchesAre DEF Receive, Documents, Stored, Active
    <3>2. PICK new \in Fetch : new.doc = fetch[d].doc /\ fetch' = [fetch EXCEPT ![d] = new]
      <4>1. CASE fetch' = [fetch EXCEPT ![d].left = @ - 1]
        <5>1. [fetch[d] EXCEPT !.left = @ - 1] \in Fetch /\ [fetch[d] EXCEPT !.left = @ - 1].doc = fetch[d].doc
          BY <3>1, RunsOn DEF Fetch
        <5> QED
          BY <4>1, <5>1, <3>1
      <4>2. CASE fetch' = [fetch EXCEPT ![d].left = @ - 1, ![d].late = TRUE]
        <5> DEFINE new == [fetch[d] EXCEPT !.left = @ - 1, !.late = TRUE]
        <5>1. new \in Fetch /\ new.doc = fetch[d].doc
          BY <3>1, RunsOn DEF Fetch
        <5>2. fetch' = [fetch EXCEPT ![d] = new]
          BY <4>2, <3>1
        <5> QED
          BY <5>1, <5>2
      <4> QED
        BY <2>1, <4>1, <4>2 DEF Receive
    <3> QED
      BY <3>1, <3>2 DEF Onward
  <2>2. CASE Interrupt(d)
    BY <2>2, Goes DEF Interrupt, Writers, Documents
  <2>3. CASE FinishFails(d)
    BY <2>3, Goes DEF FinishFails, Documents
  <2> QED
    BY <2>1, <2>2, <2>3
<1>3. Copied' /\ Within'
  BY <1>1, CopyStands DEF Documents, Stored, Within
<1> QED
  BY <1>1, <1>2, <1>3, Rests

LEMMA MovesPart ==
    ASSUME Documents, NEW l \in Leaf, MovePart(l)
    PROVE  Documents'
<1> DEFINE W == Writers(l, current)
           V == Writers(l, Plaste)
<1>1. /\ UNCHANGED <<files, mine, docs, pc, current, entry, rest>> /\ excused \subseteq excused'
      /\ W \in SUBSET Active /\ V \in SUBSET Active
  BY DEF MovePart, disk, command, Writers
<1>2. PICK q \in {Plaste, Absent} : fetch' =
         [d \in Transfer |-> IF d \in W THEN Parts(W, q)[d]
                             ELSE IF q = Plaste THEN Parts(V, Absent)[d] ELSE fetch[d]]
  BY DEF MovePart
<1> HIDE DEF W, V
<1>3. q \in Place \cup {Absent}
  BY PlasteIn
<1>4. /\ Parts(W, q) \in [Transfer -> Fetch] /\ Parts(V, Absent) \in [Transfer -> Fetch]
      /\ \A d \in Transfer : Parts(W, q)[d].on => fetch[d].on /\ Parts(W, q)[d].doc = fetch[d].doc
      /\ \A d \in Transfer : Parts(V, Absent)[d].on => fetch[d].on /\ Parts(V, Absent)[d].doc = fetch[d].doc
  BY <1>1, <1>3, PartsAre DEF Documents
<1> DEFINE A == Parts(W, q)
           B == Parts(V, Absent)
<1> HIDE DEF A, B
<1>5. Onward
  <2>1. fetch \in [Transfer -> Fetch]
    BY DEF Documents, Stored, Within
  <2>2. fetch' = [d \in Transfer |-> IF d \in W THEN A[d] ELSE IF q = Plaste THEN B[d] ELSE fetch[d]]
    BY <1>2 DEF A, B
  <2>3. /\ A \in [Transfer -> Fetch] /\ B \in [Transfer -> Fetch]
        /\ \A d \in Transfer : A[d].on => fetch[d].on /\ A[d].doc = fetch[d].doc
        /\ \A d \in Transfer : B[d].on => fetch[d].on /\ B[d].doc = fetch[d].doc
    BY <1>4 DEF A, B
  <2> QED
    BY <2>1, <2>2, <2>3 DEF Onward
<1>6. Copied' /\ Within'
  BY <1>1, CopyStands DEF Documents, Stored, Within
<1> QED
  BY <1>1, <1>5, <1>6, Rests

\* The program exits, in the middle of a copy or not.
LEMMA Exits ==
    ASSUME Documents, Types, Quit
    PROVE  Documents'
<1>1. /\ UNCHANGED <<docs, mine>> /\ pc' = "idle" /\ entry' = {} /\ rest' = {}
      /\ fetch' = [d \in Transfer |-> NoFetch]
  BY DEF Quit, Return
<1>2. Onward
  <2>1. NoFetch \in Fetch /\ ~NoFetch.on
    BY DEF Fetch, NoFetch
  <2> QED
    BY <2>1, <1>1 DEF Onward
<1>3. Copied'
  BY <1>1, NoCopy
<1>4. CASE UNCHANGED <<files, excused>>
  BY <1>1, <1>2, <1>3, <1>4, Rests DEF Within
<1>5. CASE pc = "copy" /\ \E l \in rest : Put(l, Torn)
  <2>1. PICK l \in rest : Put(l, Torn)
    BY <1>5
  <2>2. current \in Place /\ current # Plaste
    BY <1>5 DEF Types, Documents, Copied
  <2>3. CASE l \in Leaf
    BY <2>1, <2>2, <2>3, <1>1, <1>2, <1>3, Puts DEF Documents, Within
  <2>4. l \in Leaf
    BY DEF Documents, Stored, Within
  <2> QED
    BY <2>3, <2>4
<1> QED
  BY <1>4, <1>5 DEF Quit

\* The other steps leave the disk, and copies, alone.
LEMMA Untouched ==
    ASSUME Documents, UNCHANGED <<files, mine, docs, fetch, excused>>,
           \/ UNCHANGED <<pc, current, entry, rest>>
           \/ pc' \notin {"copy", "remove"} /\ rest' = {} /\ (entry' = {} \/ UNCHANGED entry)
           \/ pc = "copy" /\ pc' = "remove" /\ rest = {} /\ UNCHANGED <<current, entry, rest>>
    PROVE  Documents'
<1>1. Onward
  BY DEF Onward, Documents, Stored
<1>2. Within'
  BY DEF Documents, Stored, Within
<1>3. Copied'
  <2>1. CASE UNCHANGED <<pc, current, entry, rest>>
    BY <2>1, CopyStands DEF Documents
  <2>2. CASE pc' \notin {"copy", "remove"} /\ rest' = {} /\ (entry' = {} \/ UNCHANGED entry)
    BY <2>2, NoCopy
  <2>3. CASE pc = "copy" /\ pc' = "remove" /\ rest = {} /\ UNCHANGED <<current, entry, rest>>
    BY <2>3 DEF Documents, Copied, CopiedAt
  <2> QED
    BY <2>1, <2>2, <2>3
<1> QED
  BY <1>1, <1>2, <1>3, Rests

LEMMA StartsWithNone == Init => Documents
<1> SUFFICES ASSUME Init PROVE Documents
  OBVIOUS
<1>1. Stored
  BY DEF Init, Stored, Within, FileContent, Fetch
<1>2. Numbered
  <2>1. Active = {}
    BY DEF Init, Active, NoFetch
  <2> QED
    BY <2>1, DesktopAssumption DEF Init, Numbered, Coming
<1>3. Copied /\ NothingIsLostUnlessExcused
  BY DEF Init, Copied, NothingIsLostUnlessExcused
<1> QED
  BY <1>1, <1>2, <1>3 DEF Documents

LEMMA DocumentsStay == Types /\ Documents /\ [Next]_vars => Documents'
<1> SUFFICES ASSUME Types, Documents, [Next]_vars PROVE Documents'
  OBVIOUS
<1>1. CASE Commands
  <2>1. ASSUME NEW f \in Folder, Redirect(f) \/ Revert(f) PROVE Documents'
    <3>1. rest = {}
      BY <2>1 DEF Documents, Copied, Redirect, Revert
    <3> QED
      BY <2>1, <3>1, Untouched DEF Redirect, Revert, disk, history
  <2>2. CASE SaveRecord \/ SetPointer \/ PointBack \/ SaveForget
    <3>1. rest = {}
      BY <2>2 DEF Documents, Copied, SaveRecord, SetPointer, PointBack, SaveForget
    <3> QED
      BY <2>2, <3>1, Untouched DEF SaveRecord, SetPointer, PointBack, SaveForget, Return, history
  <2>3. CASE SaveFails \/ CommandFails
    BY <2>3, Untouched DEF SaveFails, CommandFails, Return, disk, history
  <2>4. CASE EndCopy \/ EndMove
    <3>1. rest = {}
      BY <2>4 DEF Documents, Copied, EndCopy, EndMove
    <3> QED
      BY <2>4, <3>1, Untouched DEF EndCopy, EndMove, disk, history
  <2>5. ASSUME NEW e \in UNION {Entry[f] : f \in Folder}, Rename(e) \/ Skip(e) \/ BeginCopy(e)
        PROVE  Documents'
    <3>1. e \in SUBSET Leaf
      BY DesktopAssumption
    <3>2. CASE Skip(e)
      BY <3>2, Untouched DEF Skip, disk, history
    <3> QED
      BY <2>5, <3>1, <3>2, Renames, BeginsCopy
  <2>6. ASSUME NEW l \in Leaf, CopyLeaf(l) \/ CopyFails(l) \/ MovePart(l) PROVE Documents'
    BY <2>6, CopiesLeaf, CopyStops, MovesPart
  <2>7. ASSUME NEW S \in SUBSET entry, RemoveEntry(S) PROVE Documents'
    BY <2>7, Removes
  <2> QED
    BY <1>1, <2>1, <2>2, <2>3, <2>4, <2>5, <2>6, <2>7 DEF Commands
<1>2. CASE Downloads
  BY <1>2, Starts, GoesOn, Finishes DEF Downloads
<1>3. CASE Quit
  BY <1>3, Exits
<1>4. ASSUME NEW f \in Folder, Relocate(f) \/ \E q \in Place, l \in Leaf : Edit(f, q, l)
      PROVE  Documents'
  <2>1. CASE Relocate(f)
    BY <2>1, Untouched DEF Relocate, command
  <2> QED
    BY <1>4, <2>1, Edits
<1>5. CASE UNCHANGED vars
  BY <1>5, Untouched DEF vars, disk, command, history
<1> QED
  BY <1>1, <1>2, <1>3, <1>4, <1>5 DEF Next

\* known_folders.rs 6-10, transfer.rs 419-420: a document that is on the disk stays there, for
\* any folders, entries, downloads, failures and exits, but for those a named overlap may lose.
THEOREM NothingIsLost == Spec => []NothingIsLostUnlessExcused
<1>1. IInv => Types
  BY DEF IInv
<1>2. Documents => NothingIsLostUnlessExcused
  BY DEF Documents
<1> QED
  BY <1>1, <1>2, StartsSound, StaysSound, StartsWithNone, DocumentsStay, PTL DEF Spec

-----------------------------------------------------------------------------
(***************************************************************************)
(* Download.  The content of a version, flattened from its chunks, is the  *)
(* last of the sequences that add one chunk each.                          *)
(***************************************************************************)
\* Induction, for a set: what is true of 0 and kept by every step is true of all.
LEMMA Induct ==
    ASSUME NEW S \in SUBSET Nat, 0 \in S, \A n \in S : n + 1 \in S
    PROVE  \A n \in Nat : n \in S
<1> DEFINE R == Nat \ S
<1> SUFFICES ASSUME R # {} PROVE FALSE
  OBVIOUS
<1>1. R \subseteq Nat /\ \A m \in R : m \in Nat /\ m \notin S
  OBVIOUS
<1>2. \A m \in Nat : m \notin S => m \in R
  OBVIOUS
<1> HIDE DEF R
<1>3. PICK m \in R : \A y \in R : <<y, m>> \notin OpToRel(<, Nat)
  BY <1>1, NatLessThanWellFounded, WFMin
<1>4. m \in Nat /\ m # 0
  BY <1>1
<1> DEFINE p == m - 1
<1>5. p \in Nat /\ p < m /\ p + 1 = m
  BY <1>4
<1> HIDE DEF p
<1>6. <<p, m>> \in OpToRel(<, Nat)
  BY <1>4, <1>5 DEF OpToRel
<1>7. p \in S
  BY <1>2, <1>3, <1>5, <1>6
<1>8. m \in S
  BY <1>5, <1>7
<1> QED BY <1>1, <1>8

\* The pieces one after the other, up to each of them, as FlattenSeq puts them.
IsFlat(f, seqs, n) == f = [i \in 1 .. n |-> IF i = 1 THEN seqs[i] ELSE f[i - 1] \o seqs[i]]
Flat(seqs) == CHOOSE f : IsFlat(f, seqs, Len(seqs))
Upto(seqs, j) == IF j = 0 THEN <<>> ELSE Flat(seqs)[j]

\* There is such a sequence, so that FlattenSeq chooses one.
LEMMA FlatExists ==
  ASSUME NEW seqs, NEW n \in Nat
  PROVE  \E f : IsFlat(f, seqs, n)
<1> DEFINE S == {k \in Nat : \E f : IsFlat(f, seqs, k)}
<1>1. 0 \in S
  <2>1. IsFlat(<<>>, seqs, 0)
    BY DEF IsFlat
  <2> QED BY <2>1
<1>2. ASSUME NEW k \in S PROVE k + 1 \in S
  <2>1. PICK f : IsFlat(f, seqs, k)
    OBVIOUS
  <2> DEFINE g == [i \in 1 .. k + 1 |->
                     IF i = k + 1 THEN (IF i = 1 THEN seqs[i] ELSE f[k] \o seqs[i]) ELSE f[i]]
  <2>2. \A i \in 1 .. k : f[i] = IF i = 1 THEN seqs[i] ELSE f[i - 1] \o seqs[i]
    BY <2>1 DEF IsFlat
  <2>3. k \in Nat
    OBVIOUS
  <2>4. ASSUME NEW i \in 1 .. k + 1 PROVE g[i] = IF i = 1 THEN seqs[i] ELSE g[i - 1] \o seqs[i]
    <3>1. CASE i = k + 1
      BY <2>3, <3>1
    <3>2. CASE i # k + 1
      <4>1. i \in 1 .. k /\ (i # 1 => i - 1 \in 1 .. k /\ i - 1 # k + 1 /\ i - 1 \in 1 .. k + 1)
        BY <2>3, <3>2
      <4>2. g[i] = f[i] /\ (i # 1 => g[i - 1] = f[i - 1])
        BY <3>2, <4>1
      <4> QED BY <2>2, <4>1, <4>2
    <3> QED BY <3>1, <3>2
  <2>5. g = [i \in 1 .. k + 1 |-> IF i = 1 THEN seqs[i] ELSE g[i - 1] \o seqs[i]]
    <3>1. g = [i \in 1 .. k + 1 |-> g[i]]
      OBVIOUS
    <3> HIDE DEF g
    <3> QED BY <2>4, <3>1
  <2> HIDE DEF g
  <2>6. IsFlat(g, seqs, k + 1)
    BY <2>5 DEF IsFlat
  <2> QED BY <2>3, <2>6
<1>3. S \in SUBSET Nat
  OBVIOUS
<1> HIDE DEF S
<1>4. n \in S
  BY <1>1, <1>2, <1>3, Induct
<1> QED BY <1>4 DEF S

LEMMA FlatIs ==
  ASSUME NEW seqs, Len(seqs) \in Nat
  PROVE  IsFlat(Flat(seqs), seqs, Len(seqs))
BY FlatExists DEF Flat

LEMMA FlattenIsUpto ==
  ASSUME NEW A, NEW seqs \in Seq(A)
  PROVE  FlattenSeq(seqs) = Upto(seqs, Len(seqs))
<1>1. CASE Len(seqs) = 0
  BY <1>1, EmptySeq DEF FlattenSeq, Upto
<1>2. CASE Len(seqs) # 0
  BY <1>2 DEF FlattenSeq, Upto, Flat, IsFlat
<1> QED BY <1>1, <1>2

\* One piece more is one step more of it.
LEMMA UptoNext ==
  ASSUME NEW A, NEW seqs \in Seq(Seq(A)), NEW j \in 0 .. Len(seqs) - 1
  PROVE  j + 1 \in 1 .. Len(seqs) /\ (j = 0 => Upto(seqs, 1) = seqs[1])
         /\ (j # 0 => Upto(seqs, j + 1) = Upto(seqs, j) \o seqs[j + 1])
<1>1. Len(seqs) \in Nat
  BY LenProperties
<1>2. j + 1 \in 1 .. Len(seqs)
  BY <1>1
<1> DEFINE F == Flat(seqs)
           G(i) == IF i = 1 THEN seqs[i] ELSE F[i - 1] \o seqs[i]
           k == j + 1
<1>3. F = [i \in 1 .. Len(seqs) |-> G(i)]
  BY <1>1, FlatIs DEF IsFlat
<1>4. k \in 1 .. Len(seqs)
  BY <1>2
<1> HIDE DEF F, G, k
<1>5. F[k] = G(k)
  BY <1>3, <1>4
<1>6. G(k) = IF k = 1 THEN seqs[k] ELSE F[k - 1] \o seqs[k]
  BY DEF G
<1>7. j \in Nat /\ k - 1 = j /\ k # 0 /\ (j = 0 <=> k = 1)
  BY <1>1 DEF k
<1>8. Upto(seqs, k) = F[k] /\ (j # 0 => Upto(seqs, j) = F[j])
  BY <1>7 DEF Upto, F
<1>9. j = 0 => Upto(seqs, 1) = seqs[1]
  BY <1>5, <1>6, <1>7, <1>8
<1>10. j # 0 => Upto(seqs, k) = Upto(seqs, j) \o seqs[k]
  BY <1>5, <1>6, <1>7, <1>8
<1> QED BY <1>2, <1>9, <1>10 DEF k

LEMMA UptoStep ==
  ASSUME NEW A, NEW seqs \in Seq(Seq(A)), NEW j \in 0 .. Len(seqs) - 1, Upto(seqs, j) \in Seq(A)
  PROVE  /\ seqs[j + 1] \in Seq(A)
         /\ Upto(seqs, j + 1) = Upto(seqs, j) \o seqs[j + 1]
         /\ Upto(seqs, j + 1) \in Seq(A)
<1>1. j + 1 \in 1 .. Len(seqs) /\ Len(seqs) \in Nat
  BY UptoNext, LenProperties
<1>2. seqs[j + 1] \in Seq(A)
  BY <1>1, ElementOfSeq
<1>3. Upto(seqs, j + 1) = Upto(seqs, j) \o seqs[j + 1]
  <2>1. CASE j = 0
    <3>1. Upto(seqs, j) = <<>>
      BY <2>1 DEF Upto
    <3>2. Upto(seqs, j + 1) = seqs[j + 1]
      BY <2>1, UptoNext
    <3> QED BY <1>2, <3>1, <3>2, ConcatEmptySeq
  <2>2. CASE j # 0
    BY <2>2, UptoNext
  <2> QED BY <2>1, <2>2
<1> QED BY <1>2, <1>3, ConcatProperties

\* Up to any piece it is a sequence of what the pieces are made of.
LEMMA UptoType ==
  ASSUME NEW A, NEW seqs \in Seq(Seq(A))
  PROVE  \A j \in 0 .. Len(seqs) : Upto(seqs, j) \in Seq(A)
<1> DEFINE S == {j \in Nat : j \in 0 .. Len(seqs) => Upto(seqs, j) \in Seq(A)}
<1>1. 0 \in S
  BY EmptySeq DEF Upto
<1>2. ASSUME NEW j \in S PROVE j + 1 \in S
  <2>1. ASSUME j + 1 \in 0 .. Len(seqs) PROVE Upto(seqs, j + 1) \in Seq(A)
    <3>1. Len(seqs) \in Nat
      BY LenProperties
    <3>2. j \in 0 .. Len(seqs) - 1 /\ Upto(seqs, j) \in Seq(A)
      BY <2>1, <3>1
    <3> QED BY <3>2, UptoStep
  <2> QED BY <2>1
<1>3. S \in SUBSET Nat
  OBVIOUS
<1> HIDE DEF S
<1>4. \A j \in Nat : j \in S
  BY <1>1, <1>2, <1>3, Induct
<1>5. 0 .. Len(seqs) \subseteq Nat
  BY LenProperties
<1> QED BY <1>4, <1>5 DEF S

\* What comes first of the pieces comes first of all of them.
Begins(s, t) == Len(s) <= Len(t) /\ \A i \in 1 .. Len(s) : t[i] = s[i]

LEMMA UptoBegins ==
  ASSUME NEW A, NEW seqs \in Seq(Seq(A)), NEW j \in 0 .. Len(seqs)
  PROVE  Begins(Upto(seqs, j), Upto(seqs, Len(seqs)))
<1>1. Len(seqs) \in Nat /\ \A k \in 0 .. Len(seqs) : Upto(seqs, k) \in Seq(A)
  BY UptoType, LenProperties
<1> DEFINE S == {d \in Nat : j + d \in 0 .. Len(seqs) => Begins(Upto(seqs, j), Upto(seqs, j + d))}
<1>2. 0 \in S
  <2>1. Len(Upto(seqs, j)) \in Nat /\ j + 0 = j
    BY <1>1, LenProperties
  <2> QED BY <2>1 DEF Begins
<1>3. ASSUME NEW d \in S PROVE d + 1 \in S
  <2>1. ASSUME j + (d + 1) \in 0 .. Len(seqs) PROVE Begins(Upto(seqs, j), Upto(seqs, j + (d + 1)))
    <3>1. j + d \in 0 .. Len(seqs) - 1 /\ j + d \in 0 .. Len(seqs) /\ j + (d + 1) = (j + d) + 1
      BY <1>1, <2>1
    <3>2. Begins(Upto(seqs, j), Upto(seqs, j + d))
      BY <3>1
    <3>3. /\ seqs[(j + d) + 1] \in Seq(A) /\ Upto(seqs, j + d) \in Seq(A)
          /\ Upto(seqs, (j + d) + 1) = Upto(seqs, j + d) \o seqs[(j + d) + 1]
      BY <1>1, <3>1, UptoStep
    <3>4. Upto(seqs, j) \in Seq(A)
      BY <1>1
    <3> DEFINE s == Upto(seqs, j)
               t == Upto(seqs, j + d)
               u == seqs[(j + d) + 1]
    <3>5. Len(s) \in Nat /\ Len(t) \in Nat /\ Len(u) \in Nat
      BY <3>3, <3>4, LenProperties
    <3>6. Len(t \o u) = Len(t) + Len(u) /\ \A i \in 1 .. Len(t) + Len(u) : (t \o u)[i] = IF i <= Len(t) THEN t[i] ELSE u[i - Len(t)]
      BY <3>3, ConcatProperties
    <3> HIDE DEF s, t, u
    <3>7. Begins(s, t) => Begins(s, t \o u)
      BY <3>5, <3>6 DEF Begins
    <3> QED BY <3>1, <3>2, <3>3, <3>7 DEF s, t, u
  <2> QED BY <2>1
<1>4. S \in SUBSET Nat
  OBVIOUS
<1>5. Len(seqs) - j \in Nat /\ j + (Len(seqs) - j) = Len(seqs)
  BY <1>1
<1> HIDE DEF S
<1>6. Len(seqs) - j \in S
  BY <1>2, <1>3, <1>4, <1>5, Induct
<1>7. Len(seqs) \in 0 .. Len(seqs)
  BY <1>1
<1> QED BY <1>5, <1>6, <1>7 DEF S

\* The end of a slice that must not pass the end of a sequence.
Lesser(a, b) == IF a < b THEN a ELSE b

\* A slice, byte by byte.
LEMMA SliceIs ==
  ASSUME NEW A, NEW Q \in Seq(A), NEW f \in Nat, NEW m \in Nat, m <= Len(Q)
  PROVE  /\ SubSeq(Q, f + 1, m) \in Seq(A)
         /\ Len(SubSeq(Q, f + 1, m)) = (IF f < m THEN m - f ELSE 0)
         /\ \A i \in 1 .. m - f : SubSeq(Q, f + 1, m)[i] = Q[f + i]
<1> DEFINE s == SubSeq(Q, f + 1, m)
<1>1. Len(Q) \in Nat
  BY LenProperties
<1>2. \A i \in f + 1 .. m : Q[i] \in A
  <2>1. \A i \in 1 .. Len(Q) : Q[i] \in A
    BY ElementOfSeq
  <2> QED BY <1>1, <2>1
<1>3. f + 1 \in Int /\ m \in Int
  OBVIOUS
<1>4. /\ s \in Seq(A) /\ Len(s) = IF f + 1 <= m THEN m - (f + 1) + 1 ELSE 0
      /\ \A i \in 1 .. m - (f + 1) + 1 : s[i] = Q[(f + 1) + i - 1]
  BY <1>2, <1>3, SubSeqProperties
<1> HIDE DEF s
<1>5. Len(s) = IF f < m THEN m - f ELSE 0
  BY <1>4
<1>6. ASSUME NEW i \in 1 .. m - f PROVE s[i] = Q[f + i]
  <2>1. i \in 1 .. m - (f + 1) + 1 /\ (f + 1) + i - 1 = f + i
    OBVIOUS
  <2>2. s[i] = Q[(f + 1) + i - 1]
    BY <1>4, <2>1
  <2> QED BY <2>1, <2>2
<1> QED BY <1>4, <1>5, <1>6 DEF s

\* A slice of what has come and one piece more is that of what had come and a slice of the piece.
LEMMA SliceGrows ==
  ASSUME NEW A, NEW P \in Seq(A), NEW C \in Seq(A), NEW f \in Nat, NEW t \in Nat,
         f <= t, Len(P) <= t, Len(P) + Len(C) > f
  PROVE  SubSeq(P \o C, f + 1, Lesser(t + 1, Len(P) + Len(C))) =
           SubSeq(P, f + 1, Lesser(t + 1, Len(P))) \o
           SubSeq(C, (IF f > Len(P) THEN f - Len(P) ELSE 0) + 1, Lesser(t + 1, Len(P) + Len(C)) - Len(P))
<1> DEFINE p == Len(P)
           e == Len(P) + Len(C)
           m == Lesser(t + 1, e)
           a == IF f > p THEN f - p ELSE 0
           Q == P \o C
           W == SubSeq(Q, f + 1, m)
           X == SubSeq(P, f + 1, p)
           Y == SubSeq(C, a + 1, m - p)
<1>1. p \in Nat /\ Len(C) \in Nat /\ e \in Nat /\ e = p + Len(C)
  BY LenProperties
<1>2. /\ m \in Nat /\ m <= e /\ m > f /\ m >= p
      /\ a \in Nat /\ a <= m - p /\ m - p \in Nat
  BY <1>1 DEF Lesser
<1>3. Lesser(t + 1, p) = p
  BY <1>1 DEF Lesser
<1>4. Q \in Seq(A) /\ Len(Q) = e /\ \A i \in 1 .. e : Q[i] = IF i <= p THEN P[i] ELSE C[i - p]
  BY ConcatProperties
<1> HIDE DEF p, e, m, a, Q
<1>5. /\ W \in Seq(A) /\ Len(W) = m - f /\ \A i \in 1 .. m - f : W[i] = Q[f + i]
  <2>1. W \in Seq(A)
    BY <1>2, <1>4, SliceIs
  <2>2. Len(W) = IF f < m THEN m - f ELSE 0
    BY <1>2, <1>4, SliceIs
  <2>3. \A i \in 1 .. m - f : W[i] = Q[f + i]
    BY <1>2, <1>4, SliceIs
  <2> HIDE DEF W
  <2>4. Len(W) = m - f
    BY <1>2, <2>2
  <2> QED BY <2>1, <2>3, <2>4
<1>6. /\ X \in Seq(A) /\ Len(X) = (IF f < p THEN p - f ELSE 0) /\ \A i \in 1 .. p - f : X[i] = P[f + i]
  <2>1. p <= Len(P)
    BY <1>1 DEF p
  <2>2. X \in Seq(A)
    BY <1>1, <2>1, SliceIs
  <2>3. Len(X) = IF f < p THEN p - f ELSE 0
    BY <1>1, <2>1, SliceIs
  <2>4. \A i \in 1 .. p - f : X[i] = P[f + i]
    BY <1>1, <2>1, SliceIs
  <2> HIDE DEF X
  <2> QED BY <2>2, <2>3, <2>4
<1>7. /\ Y \in Seq(A) /\ Len(Y) = (m - p) - a /\ \A i \in 1 .. (m - p) - a : Y[i] = C[a + i]
  <2> DEFINE g == m - p
  <2>1. g \in Nat /\ g <= Len(C) /\ a \in Nat /\ a <= g
    BY <1>1, <1>2
  <2> HIDE DEF g
  <2>2. /\ SubSeq(C, a + 1, g) \in Seq(A) /\ Len(SubSeq(C, a + 1, g)) = (IF a < g THEN g - a ELSE 0)
        /\ \A i \in 1 .. g - a : SubSeq(C, a + 1, g)[i] = C[a + i]
    BY <2>1, SliceIs
  <2>3. SubSeq(C, a + 1, g) = Y
    BY DEF g
  <2> HIDE DEF Y
  <2>4. Y \in Seq(A) /\ \A i \in 1 .. g - a : Y[i] = C[a + i]
    BY <2>2, <2>3
  <2>5. Len(Y) = IF a < g THEN g - a ELSE 0
    BY <2>2, <2>3
  <2>6. Len(Y) = g - a
    BY <2>1, <2>5
  <2> QED BY <2>4, <2>6 DEF g
<1> HIDE DEF W, X, Y
<1>8. /\ X \o Y \in Seq(A) /\ Len(X \o Y) = Len(X) + Len(Y)
      /\ \A i \in 1 .. Len(X) + Len(Y) : (X \o Y)[i] = IF i <= Len(X) THEN X[i] ELSE Y[i - Len(X)]
  BY <1>6, <1>7, ConcatProperties
<1>9. f < p => a = 0
  BY <1>1 DEF a
<1>10. f >= p => a = f - p
  BY <1>1 DEF a
<1>11. Len(X) + Len(Y) = m - f
  <2>1. f < p => Len(X) = p - f
    BY <1>6
  <2>2. f >= p => Len(X) = 0
    BY <1>1, <1>6
  <2>3. Len(Y) = (m - p) - a
    BY <1>7
  <2> QED BY <1>1, <1>2, <1>9, <1>10, <2>1, <2>2, <2>3
<1>12. ASSUME NEW i \in 1 .. m - f PROVE W[i] = (X \o Y)[i]
  <2>6. W[i] = Q[f + i]
    BY <1>5
  <2>7. f + i \in 1 .. e /\ i \in Nat /\ i >= 1
    BY <1>1, <1>2
  <2>8. (X \o Y)[i] = IF i <= Len(X) THEN X[i] ELSE Y[i - Len(X)]
    <3>1. \A j \in 1 .. m - f : (X \o Y)[j] = IF j <= Len(X) THEN X[j] ELSE Y[j - Len(X)]
      BY <1>8, <1>11
    <3> QED BY <3>1
  <2>1. /\ i \in Nat /\ i >= 1 /\ f + i \in 1 .. e /\ W[i] = Q[f + i]
        /\ (X \o Y)[i] = IF i <= Len(X) THEN X[i] ELSE Y[i - Len(X)]
    BY <2>6, <2>7, <2>8
  <2>2. W[i] = IF f + i <= p THEN P[f + i] ELSE C[(f + i) - p]
    BY <1>4, <2>1
  <2>3. CASE f < p /\ i <= p - f
    <3>1. f + i <= p /\ i <= Len(X) /\ i \in 1 .. p - f
      BY <1>1, <1>6, <2>1, <2>3
    <3>2. X[i] = P[f + i]
      BY <1>6, <3>1
    <3> QED BY <2>1, <2>2, <3>1, <3>2
  <2>4. CASE f < p /\ i > p - f
    <3> DEFINE k == i - (p - f)
    <3>1. Len(X) = p - f
      BY <1>6, <2>4
    <3>2. ~(f + i <= p) /\ ~(i <= Len(X)) /\ i - Len(X) = k
      BY <1>1, <2>1, <2>4, <3>1
    <3>3. k \in 1 .. (m - p) - a
      BY <1>1, <1>2, <1>9, <2>4
    <3>4. Y[k] = C[a + k]
      BY <1>7, <3>3
    <3>5. a + k = (f + i) - p
      BY <1>1, <1>9, <2>4
    <3>6. W[i] = C[(f + i) - p]
      BY <2>2, <3>2
    <3>7. (X \o Y)[i] = Y[k]
      BY <2>8, <3>2
    <3> QED BY <3>4, <3>5, <3>6, <3>7
  <2>5. CASE f >= p
    <3>1. Len(X) = 0
      BY <1>1, <1>6, <2>5
    <3>2. ~(f + i <= p) /\ ~(i <= Len(X)) /\ i - Len(X) = i
      BY <1>1, <2>1, <2>5, <3>1
    <3>3. i \in 1 .. (m - p) - a
      BY <1>1, <1>2, <1>10, <2>5
    <3> DEFINE k == a + i
    <3>4. Y[i] = C[k]
      BY <1>7, <3>3
    <3>5. k = (f + i) - p
      BY <1>1, <1>10, <2>5, <2>7
    <3> HIDE DEF k
    <3>6. W[i] = C[k]
      BY <2>2, <3>2, <3>5
    <3>7. (X \o Y)[i] = Y[i]
      BY <2>8, <3>2
    <3> QED BY <3>4, <3>6, <3>7
  <2>9. (f < p /\ i <= p - f) \/ (f < p /\ i > p - f) \/ f >= p
    BY <1>1, <2>7
  <2> QED BY <2>3, <2>4, <2>5, <2>9
<1>13. W = X \o Y
  BY <1>5, <1>8, <1>11, <1>12, SeqEqual
<1> QED BY <1>3, <1>13 DEF p, e, m, a, Q, W, X, Y

\* A piece before the slice adds nothing to it.
LEMMA SliceSkips ==
  ASSUME NEW A, NEW P \in Seq(A), NEW C \in Seq(A), NEW f \in Nat, NEW t \in Nat,
         Len(P) + Len(C) <= f
  PROVE  SubSeq(P \o C, f + 1, Lesser(t + 1, Len(P) + Len(C))) = SubSeq(P, f + 1, Lesser(t + 1, Len(P)))
<1>1. Len(P) \in Nat /\ Len(C) \in Nat
  BY LenProperties
<1>2. /\ f + 1 \in Int /\ Lesser(t + 1, Len(P) + Len(C)) \in Int /\ Lesser(t + 1, Len(P)) \in Int
      /\ Lesser(t + 1, Len(P) + Len(C)) < f + 1 /\ Lesser(t + 1, Len(P)) < f + 1
  BY <1>1 DEF Lesser
<1>3. SubSeq(P \o C, f + 1, Lesser(t + 1, Len(P) + Len(C))) = <<>>
  BY <1>2, SubSeqEmpty
<1>4. SubSeq(P, f + 1, Lesser(t + 1, Len(P))) = <<>>
  BY <1>2, SubSeqEmpty
<1> QED BY <1>3, <1>4

\* A slice of what comes first begins the slice of it all.
LEMMA SliceBegins ==
  ASSUME NEW A, NEW P \in Seq(A), NEW B \in Seq(A), Begins(P, B), NEW f \in Nat, NEW t \in Nat,
         f <= t, t < Len(B)
  PROVE  /\ SubSeq(P, f + 1, Lesser(t + 1, Len(P))) \in Seq(A)
         /\ SubSeq(B, f + 1, t + 1) \in Seq(A) /\ Len(SubSeq(B, f + 1, t + 1)) = t - f + 1
         /\ IsPrefix(SubSeq(P, f + 1, Lesser(t + 1, Len(P))), SubSeq(B, f + 1, t + 1))
         /\ Len(P) > t \/ Len(P) = Len(B) =>
              SubSeq(P, f + 1, Lesser(t + 1, Len(P))) = SubSeq(B, f + 1, t + 1)
<1> DEFINE m == Lesser(t + 1, Len(P))
           s == SubSeq(P, f + 1, m)
           w == SubSeq(B, f + 1, t + 1)
<1>1. Len(P) \in Nat /\ Len(B) \in Nat /\ Len(P) <= Len(B)
  BY LenProperties DEF Begins
<1>2. m \in Nat /\ m <= t + 1 /\ m <= Len(P) /\ (Len(P) > t \/ Len(P) = Len(B) => m = t + 1)
  BY <1>1 DEF Lesser
<1>3. \A i \in 1 .. Len(P) : B[i] = P[i]
  BY DEF Begins
<1> HIDE DEF m
<1>4. /\ s \in Seq(A) /\ Len(s) = (IF f < m THEN m - f ELSE 0) /\ \A i \in 1 .. m - f : s[i] = P[f + i]
  BY <1>1, <1>2, SliceIs
<1>5. /\ w \in Seq(A) /\ Len(w) = t - f + 1 /\ \A i \in 1 .. t - f + 1 : w[i] = B[f + i]
  <2> DEFINE g == t + 1
  <2>1. g \in Nat /\ g <= Len(B) /\ f < g /\ g - f = t - f + 1
    BY <1>1
  <2> HIDE DEF g
  <2>2. /\ SubSeq(B, f + 1, g) \in Seq(A) /\ Len(SubSeq(B, f + 1, g)) = (IF f < g THEN g - f ELSE 0)
        /\ \A i \in 1 .. g - f : SubSeq(B, f + 1, g)[i] = B[f + i]
    BY <2>1, SliceIs
  <2>3. SubSeq(B, f + 1, g) = w
    BY DEF g
  <2> HIDE DEF w
  <2> QED BY <2>1, <2>2, <2>3
<1> HIDE DEF s, w
<1>6. ASSUME NEW i \in 1 .. Len(s) PROVE s[i] = w[i]
  <2>1. i \in 1 .. m - f /\ i \in 1 .. t - f + 1 /\ f + i \in 1 .. Len(P)
    BY <1>1, <1>2, <1>4
  <2>2. s[i] = P[f + i] /\ w[i] = B[f + i] /\ B[f + i] = P[f + i]
    BY <1>3, <1>4, <1>5, <2>1
  <2> QED BY <2>2
<1>7. Len(s) \in Nat /\ Len(s) <= Len(w) /\ Len(w) \in Nat
  BY <1>1, <1>2, <1>4, <1>5
<1>8. IsPrefix(s, w)
  <2>1. (\A i \in 1 .. Len(s) : s[i] \in A) /\ (\A i \in 1 .. Len(s) : w[i] \in A)
    BY <1>4, <1>5, <1>6, ElementOfSeq
  <2>2. /\ SubSeq(s, 1, Len(s)) \in Seq(A) /\ Len(SubSeq(s, 1, Len(s))) = Len(s)
        /\ \A i \in 1 .. Len(s) : SubSeq(s, 1, Len(s))[i] = s[i]
    <3>1. SubSeq(s, 1, Len(s)) = s
      BY <1>4, SubSeqFull
    <3> QED BY <1>4, <3>1
  <2>3. /\ SubSeq(w, 1, Len(s)) \in Seq(A) /\ Len(SubSeq(w, 1, Len(s))) = Len(s)
        /\ \A i \in 1 .. Len(s) : SubSeq(w, 1, Len(s))[i] = w[i]
    <3>1. 1 \in Int /\ Len(s) \in Int
      BY <1>7
    <3>2. /\ SubSeq(w, 1, Len(s)) \in Seq(A)
          /\ Len(SubSeq(w, 1, Len(s))) = IF 1 <= Len(s) THEN Len(s) - 1 + 1 ELSE 0
          /\ \A i \in 1 .. Len(s) - 1 + 1 : SubSeq(w, 1, Len(s))[i] = w[1 + i - 1]
      BY <2>1, <3>1, SubSeqProperties
    <3>3. Len(s) - 1 + 1 = Len(s) /\ \A i \in Int : 1 + i - 1 = i
      BY <1>7
    <3> QED BY <1>7, <3>2, <3>3
  <2>4. SubSeq(s, 1, Len(s)) = SubSeq(w, 1, Len(s))
    BY <1>6, <2>2, <2>3, SeqEqual
  <2> QED BY <1>7, <2>4 DEF IsPrefix
<1>9. Len(P) > t \/ Len(P) = Len(B) => s = w
  <2> SUFFICES ASSUME Len(P) > t \/ Len(P) = Len(B) PROVE s = w
    OBVIOUS
  <2>1. Len(s) = Len(w)
    BY <1>1, <1>2, <1>4, <1>5
  <2> QED BY <1>4, <1>5, <1>6, <2>1, SeqEqual
<1> QED BY <1>4, <1>5, <1>8, <1>9 DEF s, w, m

\* Any range a client can name.
Asking == [kind : {"none"}] \cup [kind : {"within"}, a : Nat, b : Nat] \cup [kind : {"from", "last"}, a : Nat]

LEMMA PairIsSome == ASSUME NEW x, NEW y PROVE <<x, y>> # None /\ <<x, y>>[1] = x /\ <<x, y>>[2] = y
BY DEF None

\* The range that is answered, in the words of parse_range and of a client.
FirstByte(r, n) == LET range == ParseRange(r, n) IN IF range = None THEN 0 ELSE range[1]
LastByte(r, n) == LET range == ParseRange(r, n)
               IN  IF range # None THEN range[2] ELSE IF n = 0 THEN 0 ELSE n - 1

LEMMA RangeWithin ==
  ASSUME NEW n \in Nat, NEW r \in [kind : {"within"}, a : Nat, b : Nat]
  PROVE  /\ r.a > r.b \/ r.b >= n => ParseRange(r, n) = None
         /\ ~(r.a > r.b \/ r.b >= n) => ParseRange(r, n) = <<r.a, r.b>>
<1>1. r.kind = "within"
  OBVIOUS
<1> QED BY <1>1 DEF ParseRange

LEMMA RangeFrom ==
  ASSUME NEW n \in Nat, NEW r \in [kind : {"from", "last"}, a : Nat], r.kind = "from"
  PROVE  /\ r.a >= n => ParseRange(r, n) = None
         /\ r.a < n => ParseRange(r, n) = <<r.a, n - 1>>
BY DEF ParseRange

LEMMA RangeLast ==
  ASSUME NEW n \in Nat, NEW r \in [kind : {"from", "last"}, a : Nat], r.kind = "last"
  PROVE  /\ r.a = 0 \/ n = 0 => ParseRange(r, n) = None
         /\ ~(r.a = 0 \/ n = 0) => ParseRange(r, n) = <<IF r.a > n THEN 0 ELSE n - r.a, n - 1>>
BY DEF ParseRange

LEMMA RangeNone ==
  ASSUME NEW n \in Nat, NEW r \in [kind : {"none"}]
  PROVE  ParseRange(r, n) = None
<1>1. r.kind = "none"
  OBVIOUS
<1> QED BY <1>1 DEF ParseRange

\* The last k positions.
LEMMA LastPositions ==
  ASSUME NEW n \in Nat, NEW k \in Nat
  PROVE  {i \in 0 .. n - 1 : \E S \in SUBSET (0 .. n - 1) :
            S = {j \in 0 .. n - 1 : j >= i} /\ Cardinality(S) <= k}
         = (IF k > n THEN 0 ELSE n - k) .. n - 1
<1>1. ASSUME NEW i \in 0 .. n - 1
      PROVE  (\E S \in SUBSET (0 .. n - 1) : S = {j \in 0 .. n - 1 : j >= i} /\ Cardinality(S) <= k)
             <=> n - i <= k
  <2>1. {j \in 0 .. n - 1 : j >= i} = i .. n - 1
    OBVIOUS
  <2>2. Cardinality(i .. n - 1) = n - i
    <3>1. i \in Int /\ n - 1 \in Int /\ ~(i > n - 1) /\ (n - 1) - i + 1 = n - i
      OBVIOUS
    <3> QED BY <3>1, FS_Interval
  <2>3. i .. n - 1 \in SUBSET (0 .. n - 1)
    OBVIOUS
  <2> QED BY <2>1, <2>2, <2>3
<1>2. ASSUME NEW i \in 0 .. n - 1 PROVE n - i <= k <=> i \in (IF k > n THEN 0 ELSE n - k) .. n - 1
  OBVIOUS
<1>3. (IF k > n THEN 0 ELSE n - k) .. n - 1 \subseteq 0 .. n - 1
  OBVIOUS
<1> QED BY <1>1, <1>2, <1>3

\* What a client is owed is from the first to the last byte that is answered.
LEMMA AskedIs ==
  ASSUME NEW n \in Nat, Len(Content) = n, ask \in Asking
  PROVE  /\ n # 0 => /\ Asked = FirstByte(ask, n) .. LastByte(ask, n)
                     /\ FirstByte(ask, n) \in Nat /\ LastByte(ask, n) \in Nat
                     /\ FirstByte(ask, n) <= LastByte(ask, n) /\ LastByte(ask, n) < n
         /\ n = 0 => Asked = {} /\ FirstByte(ask, n) = 0 /\ LastByte(ask, n) = 0
<1>1. Positions = 0 .. n - 1
  BY DEF Positions
<1>2. ASSUME ParseRange(ask, n) = None, Named = {} \/ ~(Named \subseteq 0 .. n - 1)
      PROVE  /\ Asked = 0 .. n - 1 /\ FirstByte(ask, n) = 0
             /\ LastByte(ask, n) = IF n = 0 THEN 0 ELSE n - 1
  BY <1>1, <1>2 DEF Asked, FirstByte, LastByte
<1>3. ASSUME NEW x \in Nat, NEW y \in Nat, x <= y, y < n, ParseRange(ask, n) = <<x, y>>, Named = x .. y
      PROVE  /\ Asked = x .. y /\ FirstByte(ask, n) = x /\ LastByte(ask, n) = y
  <2>1. x .. y # {} /\ x .. y \subseteq 0 .. n - 1
    <3>1. x \in x .. y
      BY <1>3
    <3>2. x .. y \subseteq 0 .. n - 1
      BY <1>3
    <3> QED BY <3>1, <3>2
  <2>2. Asked = x .. y
    BY <1>1, <1>3, <2>1 DEF Asked
  <2>3. FirstByte(ask, n) = x /\ LastByte(ask, n) = y
    BY <1>3, PairIsSome DEF FirstByte, LastByte
  <2> QED BY <2>2, <2>3
<1>4. CASE ask \in [kind : {"none"}]
  <2>1. Named = {} /\ ParseRange(ask, n) = None
    <3>1. ask.kind = "none"
      BY <1>4
    <3> QED BY <1>4, <3>1, RangeNone DEF Named
  <2> QED BY <1>2, <2>1
<1>5. CASE ask \in [kind : {"within"}, a : Nat, b : Nat]
  <2>1. Named = ask.a .. ask.b /\ ask.a \in Nat /\ ask.b \in Nat
    <3>1. ask.kind = "within" /\ ask.a \in Nat /\ ask.b \in Nat
      BY <1>5
    <3> QED BY <3>1 DEF Named
  <2>2. CASE ask.a > ask.b \/ ask.b >= n
    <3>1. ParseRange(ask, n) = None
      BY <1>5, <2>2, RangeWithin
    <3>2. Named = {} \/ ~(Named \subseteq 0 .. n - 1)
      <4>1. CASE ask.a > ask.b
        BY <2>1, <4>1
      <4>2. CASE ~(ask.a > ask.b)
        <5>1. ask.b \in ask.a .. ask.b /\ ask.b \notin 0 .. n - 1
          BY <2>1, <2>2, <4>2
        <5> QED BY <2>1, <5>1
      <4> QED BY <4>1, <4>2
    <3> QED BY <1>2, <3>1, <3>2
  <2>3. CASE ~(ask.a > ask.b \/ ask.b >= n)
    <3>1. ParseRange(ask, n) = <<ask.a, ask.b>> /\ ask.a <= ask.b /\ ask.b < n
      BY <1>5, <2>1, <2>3, RangeWithin
    <3> QED BY <1>3, <2>1, <3>1
  <2> QED BY <2>2, <2>3
<1>6. CASE ask \in [kind : {"from", "last"}, a : Nat] /\ ask.kind = "from"
  <2>1. Named = {i \in 0 .. n - 1 : i >= ask.a} /\ ask.a \in Nat
    BY <1>1, <1>6 DEF Named
  <2>2. CASE ask.a >= n
    <3>1. Named = {}
      BY <2>1, <2>2
    <3>2. ParseRange(ask, n) = None
      BY <1>6, <2>2, RangeFrom
    <3> QED BY <1>2, <3>1, <3>2
  <2>3. CASE ask.a < n
    <3>1. Named = ask.a .. n - 1
      BY <2>1, <2>3
    <3>2. ParseRange(ask, n) = <<ask.a, n - 1>> /\ n - 1 \in Nat /\ ask.a <= n - 1 /\ n - 1 < n
      BY <1>6, <2>1, <2>3, RangeFrom
    <3> QED BY <1>3, <2>1, <3>1, <3>2
  <2> QED BY <2>1, <2>2, <2>3
<1>7. CASE ask \in [kind : {"from", "last"}, a : Nat] /\ ask.kind = "last"
  <2>1. Named = (IF ask.a > n THEN 0 ELSE n - ask.a) .. n - 1 /\ ask.a \in Nat
    <3>1. ask.a \in Nat
      BY <1>7
    <3>2. Named = {i \in Positions : \E S \in SUBSET Positions :
                     S = {j \in Positions : j >= i} /\ Cardinality(S) <= ask.a}
      BY <1>7 DEF Named
    <3> QED BY <1>1, <3>1, <3>2, LastPositions
  <2>2. CASE ask.a = 0 \/ n = 0
    <3>1. Named = {}
      BY <2>1, <2>2
    <3>2. ParseRange(ask, n) = None
      BY <1>7, <2>2, RangeLast
    <3> QED BY <1>2, <3>1, <3>2
  <2>3. CASE ~(ask.a = 0 \/ n = 0)
    <3> DEFINE x == IF ask.a > n THEN 0 ELSE n - ask.a
    <3>1. ParseRange(ask, n) = <<x, n - 1>>
      BY <1>7, <2>3, RangeLast
    <3>2. x \in Nat /\ n - 1 \in Nat /\ x <= n - 1 /\ n - 1 < n
      BY <2>1, <2>3
    <3>3. Named = x .. n - 1
      BY <2>1
    <3> HIDE DEF x
    <3> QED BY <1>3, <3>1, <3>2, <3>3
  <2> QED BY <2>2, <2>3
<1> QED BY <1>4, <1>5, <1>6, <1>7 DEF Asking

\* The bytes at an interval of positions, in their order.
LEMMA RankIn ==
  ASSUME NEW a \in Nat, NEW b \in Nat, NEW i \in a .. b
  PROVE  Cardinality({j \in a .. b : j < i}) = i - a
<1>1. {j \in a .. b : j < i} = a .. i - 1
  OBVIOUS
<1>2. Cardinality(a .. i - 1) = i - a
  <2>1. CASE i = a
    <3>1. a > i - 1 /\ i - 1 \in Int /\ i - a = 0
      BY <2>1
    <3> QED BY <3>1, FS_Interval
  <2>2. CASE i # a
    <3>1. ~(a > i - 1) /\ i - 1 \in Int /\ (i - 1) - a + 1 = i - a
      BY <2>2
    <3> QED BY <3>1, FS_Interval
  <2> QED BY <2>1, <2>2
<1> QED BY <1>1, <1>2

LEMMA PlaceIn ==
  ASSUME NEW a \in Nat, NEW b \in Nat, NEW m \in 1 .. b - a + 1
  PROVE  (CHOOSE i \in a .. b : Cardinality({j \in a .. b : j < i}) = m - 1) = a + m - 1
<1>1. a + m - 1 \in a .. b
  OBVIOUS
<1>2. \A i \in a .. b : Cardinality({j \in a .. b : j < i}) = m - 1 <=> i - a = m - 1
  BY RankIn
<1>3. \A i \in a .. b : i - a = m - 1 <=> i = a + m - 1
  OBVIOUS
<1>4. \A i \in a .. b : Cardinality({j \in a .. b : j < i}) = m - 1 <=> i = a + m - 1
  BY <1>2, <1>3
<1> QED BY <1>1, <1>4

LEMMA BytesIn ==
  ASSUME NEW A, Content \in Seq(A), NEW a \in Nat, NEW b \in Nat, a <= b, b < Len(Content)
  PROVE  BytesAt(a .. b) = SubSeq(Content, a + 1, b + 1)
<1> DEFINE n == b - a + 1
           W == SubSeq(Content, a + 1, b + 1)
           S == a .. b
<1>1. n \in Nat /\ Len(Content) \in Nat
  BY LenProperties
<1>2. Cardinality(S) = n
  <2>1. a \in Int /\ b \in Int /\ ~(a > b)
    OBVIOUS
  <2> QED BY <2>1, FS_Interval
<1>3. /\ W \in Seq(A) /\ Len(W) = n /\ \A m \in 1 .. n : W[m] = Content[a + m]
  <2>1. a + 1 \in Int /\ b + 1 \in Int /\ (\A m \in a + 1 .. b + 1 : Content[m] \in A)
    BY <1>1, ElementOfSeq
  <2>2. /\ W \in Seq(A) /\ Len(W) = IF a + 1 <= b + 1 THEN (b + 1) - (a + 1) + 1 ELSE 0
        /\ \A m \in 1 .. (b + 1) - (a + 1) + 1 : W[m] = Content[(a + 1) + m - 1]
    BY <2>1, SubSeqProperties
  <2>3. (b + 1) - (a + 1) + 1 = n /\ (\A m \in Int : (a + 1) + m - 1 = a + m) /\ a + 1 <= b + 1
    OBVIOUS
  <2> HIDE DEF W, n
  <2>4. \A m \in 1 .. n : W[m] = Content[(a + 1) + m - 1]
    BY <2>2, <2>3
  <2>5. \A m \in 1 .. n : W[m] = Content[a + m]
    BY <2>3, <2>4
  <2> QED BY <2>2, <2>3, <2>5
<1>4. W = [m \in 1 .. n |-> W[m]]
  BY <1>1, <1>3, LenProperties
<1>5. ASSUME NEW m \in 1 .. n
      PROVE  Content[1 + CHOOSE i \in S : Cardinality({j \in S : j < i}) = m - 1] = Content[a + m]
  <2>1. (CHOOSE i \in S : Cardinality({j \in S : j < i}) = m - 1) = a + m - 1
    BY PlaceIn
  <2>2. 1 + (a + m - 1) = a + m
    OBVIOUS
  <2> HIDE DEF S
  <2> QED BY <2>1, <2>2
<1> HIDE DEF W, n, S
<1>6. BytesAt(S) = [m \in 1 .. n |-> Content[1 + CHOOSE i \in S : Cardinality({j \in S : j < i}) = m - 1]]
  BY <1>2 DEF BytesAt
<1>7. BytesAt(S) = [m \in 1 .. n |-> Content[a + m]]
  BY <1>5, <1>6
<1>8. [m \in 1 .. n |-> Content[a + m]] = [m \in 1 .. n |-> W[m]]
  BY <1>3
<1>9. BytesAt(S) = W
  BY <1>4, <1>7, <1>8
<1> QED BY <1>9 DEF S, W

LEMMA BytesInNone == BytesAt({}) = <<>>
<1>1. Cardinality({}) = 0
  BY FS_EmptySet
<1>2. 1 .. 0 = {}
  OBVIOUS
<1> QED BY <1>1, <1>2 DEF BytesAt

\* The chunks of the version, and the bytes of the first j of them.
Byte == Hash \X Nat
Chunked == [c \in DOMAIN manifest |-> Chunk(manifest[c])]
Through(j) == Upto(Chunked, j)

Fields ==
    /\ lens \in [Hash -> Nat] /\ manifest \in Seq(Hash) /\ size \in Nat
    /\ route \in {"stream", "whole"} /\ phase \in {"none", "body", "cut", "done"}
    /\ ask \in Asking /\ {total, from, to, length} \subseteq Int
    /\ pos \in Nat /\ next \in 1 .. Len(manifest) + 1

\* The cursor stands between two chunks.
Placed == pos = Len(Through(next - 1))
\* Nothing is sent before an answer.
Clean == phase = "none" => next = 1 /\ sent = <<>>

\* What was sent is the part of the chunks passed that is in the range.
Body ==
    sent = IF route = "whole" THEN Through(next - 1)
           ELSE SubSeq(Through(next - 1), from + 1, Lesser(to + 1, pos))

\* The headers are those of the request.
Ranged == phase # "none" =>
    /\ total = size
    /\ route = "whole" => ask.kind = "none" /\ length = size
    /\ route = "stream" =>
         /\ from = FirstByte(ask, size) /\ to = LastByte(ask, size)
         /\ length = IF size = 0 THEN 0 ELSE to - from + 1

\* A body that is not cut ends at the last chunk, or past the range.
Ended == phase = "done" => next > Len(manifest) \/ (route = "stream" /\ pos > to)

\* The inductive invariant of Download.
DInv == Fields /\ Placed /\ Clean /\ Body /\ Ranged /\ Ended

LEMMA SameEnd == ASSUME NEW a \in Nat, NEW b \in Nat, 1 .. a = 1 .. b PROVE a = b
OBVIOUS

LEMMA PiecesType ==
  ASSUME lens \in [Hash -> Nat], manifest \in Seq(Hash)
  PROVE  /\ Chunked \in Seq(Seq(Byte)) /\ Len(Chunked) = Len(manifest)
         /\ \A c \in 1 .. Len(manifest) : Chunked[c] = Chunk(manifest[c]) /\ manifest[c] \in Hash
         /\ \A k \in Hash : Chunk(k) \in Seq(Byte) /\ Len(Chunk(k)) = lens[k]
<1>1. Len(manifest) \in Nat /\ DOMAIN manifest = 1 .. Len(manifest)
  BY LenProperties
<1>2. \A c \in 1 .. Len(manifest) : manifest[c] \in Hash
  BY <1>1, ElementOfSeq
<1>3. ASSUME NEW k \in Hash PROVE Chunk(k) \in Seq(Byte) /\ Len(Chunk(k)) = lens[k]
  <2>1. lens[k] \in Nat
    OBVIOUS
  <2>2. Chunk(k) \in [1 .. lens[k] -> Byte]
    BY <2>1 DEF Chunk, Byte
  <2>3. Chunk(k) \in Seq(Byte)
    BY <2>1, <2>2, SeqDef
  <2>4. DOMAIN Chunk(k) = 1 .. Len(Chunk(k)) /\ DOMAIN Chunk(k) = 1 .. lens[k] /\ Len(Chunk(k)) \in Nat
    BY <2>2, <2>3, LenProperties
  <2>5. Len(Chunk(k)) = lens[k]
    BY <2>1, <2>4
  <2> QED BY <2>3, <2>5
<1>4. Chunked \in [1 .. Len(manifest) -> Seq(Byte)]
  BY <1>1, <1>2, <1>3 DEF Chunked
<1>5. Chunked \in Seq(Seq(Byte))
  BY <1>1, <1>4, SeqDef
<1>6. DOMAIN Chunked = 1 .. Len(Chunked) /\ DOMAIN Chunked = 1 .. Len(manifest) /\ Len(Chunked) \in Nat
  BY <1>4, <1>5, LenProperties
<1>7. Len(Chunked) = Len(manifest)
  BY <1>1, <1>6, SameEnd
<1>8. \A c \in 1 .. Len(manifest) : Chunked[c] = Chunk(manifest[c])
  BY <1>1 DEF Chunked
<1> QED BY <1>2, <1>3, <1>5, <1>7, <1>8

\* The content of a version is what its chunks hold, the last included.
LEMMA ContentIs ==
  ASSUME lens \in [Hash -> Nat], manifest \in Seq(Hash)
  PROVE  Content = Through(Len(manifest)) /\ Content \in Seq(Byte)
<1>1. Chunked \in Seq(Seq(Byte)) /\ Len(Chunked) = Len(manifest) /\ Len(Chunked) \in Nat
  BY PiecesType, LenProperties
<1>2. Content = FlattenSeq(Chunked)
  BY DEF Content, Chunked
<1>3. Content = Through(Len(manifest))
  BY <1>1, <1>2, FlattenIsUpto DEF Through
<1>4. Len(Chunked) \in 0 .. Len(Chunked)
  BY <1>1
<1> QED BY <1>1, <1>3, <1>4, UptoType DEF Through

\* The next chunk comes where the cursor stands.
LEMMA PassedIs ==
  ASSUME lens \in [Hash -> Nat], manifest \in Seq(Hash), next \in 1 .. Len(manifest) + 1
  PROVE  /\ Through(next - 1) \in Seq(Byte) /\ Begins(Through(next - 1), Content)
         /\ next <= Len(manifest) =>
              /\ h \in Hash /\ Chunk(h) \in Seq(Byte) /\ Len(Chunk(h)) = lens[h]
              /\ Through(next) = Through(next - 1) \o Chunk(h)
              /\ Len(Through(next)) = Len(Through(next - 1)) + lens[h]
<1>1. Chunked \in Seq(Seq(Byte)) /\ Len(Chunked) = Len(manifest) /\ Len(Chunked) \in Nat
  BY PiecesType, LenProperties
<1>2. next - 1 \in 0 .. Len(Chunked)
  BY <1>1
<1>3. Through(next - 1) \in Seq(Byte)
  BY <1>1, <1>2, UptoType DEF Through
<1>4. Begins(Through(next - 1), Content)
  BY <1>1, <1>2, ContentIs, UptoBegins DEF Through
<1>5. ASSUME next <= Len(manifest)
      PROVE  /\ h \in Hash /\ Chunk(h) \in Seq(Byte) /\ Len(Chunk(h)) = lens[h]
             /\ Through(next) = Through(next - 1) \o Chunk(h)
             /\ Len(Through(next)) = Len(Through(next - 1)) + lens[h]
  <2>1. next \in 1 .. Len(manifest) /\ next - 1 \in 0 .. Len(Chunked) - 1 /\ next - 1 + 1 = next
    BY <1>1, <1>5
  <2>2. h \in Hash /\ Chunk(h) \in Seq(Byte) /\ Len(Chunk(h)) = lens[h] /\ Chunked[next] = Chunk(h)
    BY <2>1, PiecesType DEF h
  <2>3. Upto(Chunked, next - 1) \in Seq(Byte)
    BY <1>3 DEF Through
  <2>4. Upto(Chunked, next - 1 + 1) = Upto(Chunked, next - 1) \o Chunked[next - 1 + 1]
    BY <1>1, <2>1, <2>3, UptoStep
  <2>5. Through(next) = Through(next - 1) \o Chunk(h)
    BY <2>1, <2>2, <2>4 DEF Through
  <2>6. Len(Through(next - 1) \o Chunk(h)) = Len(Through(next - 1)) + Len(Chunk(h))
    BY <1>3, <2>2, ConcatProperties
  <2> QED BY <2>2, <2>5, <2>6
<1> QED BY <1>3, <1>4, <1>5

\* What FirstByte and LastByte may be, without the content.
LEMMA RangeType ==
  ASSUME NEW n \in Nat, NEW r \in Asking
  PROVE  FirstByte(r, n) \in Nat /\ LastByte(r, n) \in Nat /\ FirstByte(r, n) <= LastByte(r, n)
<1>1. CASE ParseRange(r, n) = None
  BY <1>1 DEF FirstByte, LastByte
<1>2. ASSUME NEW x \in Nat, NEW y \in Nat, x <= y, ParseRange(r, n) = <<x, y>>
      PROVE  FirstByte(r, n) \in Nat /\ LastByte(r, n) \in Nat /\ FirstByte(r, n) <= LastByte(r, n)
  BY <1>2, PairIsSome DEF FirstByte, LastByte
<1>3. CASE r \in [kind : {"none"}]
  BY <1>1, <1>3, RangeNone
<1>4. CASE r \in [kind : {"within"}, a : Nat, b : Nat]
  <2>1. r.a \in Nat /\ r.b \in Nat
    BY <1>4
  <2>2. CASE ~(r.a > r.b \/ r.b >= n)
    <3>1. ParseRange(r, n) = <<r.a, r.b>> /\ r.a <= r.b
      BY <1>4, <2>1, <2>2, RangeWithin
    <3> QED BY <1>2, <2>1, <3>1
  <2> QED BY <1>1, <1>4, <2>2, RangeWithin
<1>5. CASE r \in [kind : {"from", "last"}, a : Nat] /\ r.kind = "from"
  <2>1. r.a \in Nat
    BY <1>5
  <2>2. CASE r.a < n
    <3>1. ParseRange(r, n) = <<r.a, n - 1>> /\ n - 1 \in Nat /\ r.a <= n - 1
      BY <1>5, <2>1, <2>2, RangeFrom
    <3> QED BY <1>2, <2>1, <3>1
  <2>3. CASE r.a >= n
    BY <1>1, <1>5, <2>3, RangeFrom
  <2> QED BY <2>1, <2>2, <2>3
<1>6. CASE r \in [kind : {"from", "last"}, a : Nat] /\ r.kind = "last"
  <2>1. r.a \in Nat
    BY <1>6
  <2>2. CASE ~(r.a = 0 \/ n = 0)
    <3> DEFINE x == IF r.a > n THEN 0 ELSE n - r.a
    <3>1. ParseRange(r, n) = <<x, n - 1>>
      BY <1>6, <2>2, RangeLast
    <3>2. x \in Nat /\ n - 1 \in Nat /\ x <= n - 1
      BY <2>1, <2>2
    <3> HIDE DEF x
    <3> QED BY <1>2, <3>1, <3>2
  <2> QED BY <1>1, <1>6, <2>2, RangeLast
<1> QED BY <1>3, <1>4, <1>5, <1>6 DEF Asking

\* A step that leaves the version and what was sent of it alone.
still == <<version, route, ask, total, from, to, length, pos, next, sent>>

LEMMA SamePassed ==
  ASSUME UNCHANGED <<lens, manifest>>
  PROVE  /\ Chunked' = Chunked /\ Content' = Content /\ \A j : Through(j)' = Through(j)
         /\ \A k : Chunk(k)' = Chunk(k)
<1>1. \A k : Chunk(k)' = Chunk(k)
  BY DEF Chunk
<1>2. Chunked' = Chunked
  BY <1>1 DEF Chunked
<1>3. Content' = Content
  BY <1>1 DEF Content
<1>4. \A j : Through(j)' = Through(j)
  BY <1>2 DEF Through
<1> QED BY <1>1, <1>2, <1>3, <1>4

\* Before any request.
LEMMA StartsRight == DownloadAssumption /\ DownloadInit => DInv
<1> SUFFICES ASSUME DownloadAssumption, DownloadInit PROVE DInv
  OBVIOUS
<1>1. lens \in [Hash -> Nat] /\ manifest \in Seq(Hash)
  <2>1. manifest \in UNION {[1 .. m -> Hash] : m \in 0 .. MaxChunks}
    BY DEF DownloadInit, SeqOf
  <2>2. \A m \in 0 .. MaxChunks : m \in Nat
    BY DEF DownloadAssumption
  <2>3. manifest \in Seq(Hash)
    BY <2>1, <2>2, SeqDef
  <2>4. 0 .. MaxLen \subseteq Nat
    BY DEF DownloadAssumption
  <2> QED BY <2>3, <2>4 DEF DownloadInit
<1>2. size \in Nat
  <2>1. PICK x \in 0 .. MaxExtra : size = Len(Content) + x
    BY DEF DownloadInit
  <2>2. x \in Nat
    BY DEF DownloadAssumption
  <2>3. Len(Content) \in Nat
    BY <1>1, ContentIs, LenProperties
  <2> QED BY <2>1, <2>2, <2>3
<1>3. Len(manifest) \in Nat
  BY <1>1, LenProperties
<1>4. Fields
  <2>1. ask \in Asking
    BY DEF DownloadInit, Asking
  <2> QED BY <1>1, <1>2, <1>3, <2>1 DEF DownloadInit, Fields
<1>5. Through(0) = <<>> /\ Len(<<>>) = 0
  BY EmptySeq DEF Through, Upto
<1>6. Through(next - 1) = <<>> /\ Placed
  <2>1. next - 1 = 0 /\ pos = 0
    BY DEF DownloadInit
  <2> QED BY <1>5, <2>1 DEF Placed
<1>7. Body
  <2>1. Lesser(to + 1, pos) = 0 /\ from + 1 = 1 /\ sent = <<>>
    BY DEF DownloadInit, Lesser
  <2>2. SubSeq(Through(next - 1), 1, 0) = <<>>
    BY SubSeqEmpty
  <2> QED BY <2>1, <2>2, <1>6 DEF Body
<1> QED BY <1>4, <1>6, <1>7 DEF DownloadInit, DInv, Clean, Ranged, Ended

\* reponse_contenu and serve_public_file start at the first chunk.
LEMMA AnswersRight ==
  ASSUME DInv, NEW r \in Asking, Respond(r)
  PROVE  DInv'
<1>1. /\ UNCHANGED <<lens, manifest, size, pos, next, sent>> /\ next = 1 /\ sent = <<>> /\ size \in Nat
      /\ phase' = "body" /\ route' = "stream" /\ ask' = r /\ total' = size
  BY DEF Respond, DInv, Clean, Fields, version
<1>2. /\ from' = FirstByte(r, size) /\ to' = LastByte(r, size)
      /\ length' = IF size = 0 THEN 0 ELSE to' - from' + 1
  BY <1>1 DEF Respond, FirstByte, LastByte
<1>3. from' \in Nat /\ to' \in Nat
  BY <1>1, <1>2, RangeType
<1>4. length' \in Int
  BY <1>2, <1>3
<1>5. Fields'
  BY <1>1, <1>3, <1>4 DEF DInv, Fields
<1>6. Through(next - 1) = <<>> /\ Through(next - 1)' = <<>> /\ pos = 0
  <2>1. Through(0) = <<>> /\ next - 1 = 0 /\ Len(<<>>) = 0
    BY <1>1, EmptySeq DEF Through, Upto
  <2>2. Through(0)' = Through(0)
    BY <1>1, SamePassed
  <2> QED BY <1>1, <2>1, <2>2 DEF DInv, Placed
<1>7. Placed'
  BY <1>1, <1>6, EmptySeq DEF Placed
<1>8. Body'
  <2> DEFINE f == from'
             t == to'
  <2>0. f \in Nat /\ t \in Nat /\ pos' = 0
    BY <1>1, <1>3, <1>6
  <2>1. Lesser(to' + 1, pos') = 0
    <3> HIDE DEF f, t
    <3>1. Lesser(t + 1, pos') = 0
      BY <2>0 DEF Lesser
    <3> QED BY <3>1 DEF t
  <2>2. from' + 1 \in Int /\ 0 < from' + 1
    <3> HIDE DEF f, t
    <3>1. f + 1 \in Int /\ 0 < f + 1
      BY <2>0
    <3> QED BY <3>1 DEF f
  <2>3. SubSeq(Through(next - 1)', from' + 1, 0) = <<>>
    BY <2>2, SubSeqEmpty
  <2> QED BY <1>1, <2>1, <2>3 DEF Body
<1> QED BY <1>1, <1>2, <1>5, <1>7, <1>8 DEF DInv, Clean, Ranged, Ended

LEMMA ServesRight ==
  ASSUME DInv, ServePublic
  PROVE  DInv'
<1>1. /\ UNCHANGED <<lens, manifest, size, pos, next, sent, from, to>> /\ next = 1 /\ sent = <<>> /\ size \in Nat
      /\ phase' = "body" /\ route' = "whole" /\ ask' = [kind |-> "none"] /\ total' = size /\ length' = size
  BY DEF ServePublic, DInv, Clean, Fields, version
<1>2. Fields'
  <2>1. ask' \in Asking
    BY <1>1 DEF Asking
  <2> QED BY <1>1, <2>1 DEF DInv, Fields
<1>3. Through(next - 1) = <<>> /\ Through(next - 1)' = <<>> /\ pos = 0
  <2>1. Through(0) = <<>> /\ next - 1 = 0 /\ Len(<<>>) = 0
    BY <1>1, EmptySeq DEF Through, Upto
  <2>2. Through(0)' = Through(0)
    BY <1>1, SamePassed
  <2> QED BY <1>1, <2>1, <2>2 DEF DInv, Placed
<1>4. Placed'
  BY <1>1, <1>3, EmptySeq DEF Placed
<1>5. Body'
  BY <1>1, <1>3 DEF Body
<1> QED BY <1>1, <1>2, <1>4, <1>5 DEF DInv, Clean, Ranged, Ended

\* The next chunk, in full, in part or not at all.
LEMMA Proceeds ==
  ASSUME DInv, next <= Len(manifest), phase = "body", NEW piece, Advance(piece),
         UNCHANGED <<version, phase, request>>,
         route = "whole" => piece = Chunk(h),
         route = "stream" =>
            SubSeq(Through(next), from + 1, Lesser(to + 1, pos + lens[h])) =
            SubSeq(Through(next - 1), from + 1, Lesser(to + 1, pos)) \o piece
  PROVE  DInv'
<1>1. /\ next' = next + 1 /\ pos' = pos + lens[h] /\ sent' = sent \o piece
      /\ UNCHANGED <<lens, manifest, size, phase, route, ask, total, from, to, length>>
  BY DEF Advance, EndOfChunk, version, request
<1>2. /\ Through(next - 1) \in Seq(Byte) /\ h \in Hash /\ Through(next) = Through(next - 1) \o Chunk(h)
      /\ Len(Through(next)) = Len(Through(next - 1)) + lens[h]
  BY PassedIs DEF DInv, Fields
<1>3. lens[h] \in Nat /\ Len(manifest) \in Nat /\ next \in Nat
  BY <1>2, LenProperties DEF DInv, Fields
<1>4. Through(next - 1)' = Through(next)
  <2>1. next' - 1 = next
    BY <1>1, <1>3
  <2>2. Chunked' = Chunked
    BY <1>1, SamePassed
  <2> QED BY <2>1, <2>2 DEF Through
<1>5. Fields'
  <2>1. pos' \in Nat /\ next' \in 1 .. Len(manifest) + 1
    <3>1. pos \in Nat
      BY DEF DInv, Fields
    <3> QED BY <1>1, <1>3, <3>1
  <2>2. UNCHANGED <<lens, manifest, size, route, phase, ask, total, from, to, length>>
    BY <1>1
  <2> QED BY <2>1, <2>2 DEF DInv, Fields
<1>6. Placed'
  BY <1>1, <1>2, <1>4 DEF DInv, Placed
<1>7. Body'
  <2>1. CASE route = "whole"
    BY <1>1, <1>2, <1>4, <2>1 DEF DInv, Body
  <2>2. CASE route = "stream"
    BY <1>1, <1>4, <2>2 DEF DInv, Body
  <2> QED BY <2>1, <2>2 DEF DInv, Fields
<1> QED BY <1>1, <1>5, <1>6, <1>7 DEF DInv, Clean, Ranged, Ended

LEMMA StreamFields ==
  ASSUME DInv, phase # "none", route = "stream"
  PROVE  from \in Nat /\ to \in Nat /\ from <= to
BY RangeType DEF DInv, Fields, Ranged

\* corps_en_flux: what is before the range is passed over, and of the rest the part in it is sent.
LEMMA StreamsRight ==
  ASSUME DInv, SkipChunk \/ Send
  PROVE  DInv'
<1>1. /\ phase = "body" /\ route = "stream" /\ pos <= to /\ next <= Len(manifest)
      /\ UNCHANGED <<version, phase, request>>
  BY DEF SkipChunk, Send, Streaming
<1>2. from \in Nat /\ to \in Nat /\ from <= to
  BY <1>1, StreamFields
<1>3. /\ Through(next - 1) \in Seq(Byte) /\ h \in Hash /\ Chunk(h) \in Seq(Byte) /\ Len(Chunk(h)) = lens[h]
      /\ Through(next) = Through(next - 1) \o Chunk(h) /\ pos = Len(Through(next - 1))
      /\ pos \in Nat /\ lens[h] \in Nat
  BY <1>1, PassedIs DEF DInv, Fields, Placed
<1>4. CASE SkipChunk
  <2>1. Advance(<<>>) /\ pos + lens[h] <= from
    BY <1>4 DEF SkipChunk, EndOfChunk
  <2>2. SubSeq(Through(next), from + 1, Lesser(to + 1, pos + lens[h])) =
        SubSeq(Through(next - 1), from + 1, Lesser(to + 1, pos))
    <3> DEFINE P == Through(next - 1)
               C == Chunk(h)
    <3>1. /\ P \in Seq(Byte) /\ C \in Seq(Byte) /\ Len(C) = lens[h] /\ Len(P) = pos
          /\ Through(next) = P \o C /\ Len(P) + Len(C) <= from
      BY <1>3, <2>1
    <3> HIDE DEF P, C
    <3>2. SubSeq(P \o C, from + 1, Lesser(to + 1, Len(P) + Len(C))) = SubSeq(P, from + 1, Lesser(to + 1, Len(P)))
      BY <1>2, <3>1, SliceSkips
    <3>3. SubSeq(Through(next), from + 1, Lesser(to + 1, pos + lens[h])) = SubSeq(P, from + 1, Lesser(to + 1, pos))
      BY <3>1, <3>2
    <3> QED BY <3>3 DEF P
  <2>3. SubSeq(Through(next - 1), from + 1, Lesser(to + 1, pos)) = <<>>
    <3>1. from + 1 \in Int /\ Lesser(to + 1, pos) \in Int /\ Lesser(to + 1, pos) < from + 1
      BY <1>2, <1>3, <2>1 DEF Lesser
    <3> QED BY <3>1, SubSeqEmpty
  <2>4. <<>> \o <<>> = <<>>
    BY EmptySeq, ConcatEmptySeq
  <2> QED BY <1>1, <2>1, <2>2, <2>3, <2>4, Proceeds
<1>5. CASE Send
  <2>1. Advance(Piece) /\ pos + lens[h] > from
    BY <1>5 DEF Send, EndOfChunk
  <2>2. Piece = SubSeq(Chunk(h), (IF from > pos THEN from - pos ELSE 0) + 1,
                       Lesser(to + 1, pos + lens[h]) - pos)
    BY DEF Piece, Lesser, EndOfChunk
  <2>3. SubSeq(Through(next), from + 1, Lesser(to + 1, pos + lens[h])) =
        SubSeq(Through(next - 1), from + 1, Lesser(to + 1, pos)) \o Piece
    <3> DEFINE P == Through(next - 1)
               C == Chunk(h)
    <3>1. /\ P \in Seq(Byte) /\ C \in Seq(Byte) /\ Len(C) = lens[h] /\ Len(P) = pos
          /\ Through(next) = P \o C /\ Len(P) <= to /\ Len(P) + Len(C) > from
          /\ Piece = SubSeq(C, (IF from > pos THEN from - pos ELSE 0) + 1, Lesser(to + 1, pos + lens[h]) - pos)
      BY <1>1, <1>3, <2>1, <2>2
    <3> HIDE DEF P, C
    <3>2. SubSeq(P \o C, from + 1, Lesser(to + 1, Len(P) + Len(C))) =
          SubSeq(P, from + 1, Lesser(to + 1, Len(P))) \o
          SubSeq(C, (IF from > Len(P) THEN from - Len(P) ELSE 0) + 1, Lesser(to + 1, Len(P) + Len(C)) - Len(P))
      BY <1>2, <3>1, SliceGrows
    <3>3. SubSeq(Through(next), from + 1, Lesser(to + 1, pos + lens[h])) =
          SubSeq(P, from + 1, Lesser(to + 1, pos)) \o Piece
      BY <3>1, <3>2
    <3> QED BY <3>3 DEF P
  <2> QED BY <1>1, <2>1, <2>3, Proceeds
<1> QED BY <1>4, <1>5

LEMMA SendsWhole ==
  ASSUME DInv, SendWhole
  PROVE  DInv'
<1>1. /\ phase = "body" /\ route = "whole" /\ next <= Len(manifest) /\ Advance(Chunk(h))
      /\ UNCHANGED <<version, phase, request>>
  BY DEF SendWhole
<1> QED BY <1>1, Proceeds

\* Nothing of what the invariant says is touched, or the body ends where it may.
LEMMA RestsRight ==
  ASSUME DInv, UNCHANGED still,
         phase' = phase \/ phase' = "cut" \/ (phase' = "done" /\ (next > Len(manifest) \/ (route = "stream" /\ pos > to))),
         phase = "none" => phase' = "none", phase' = "none" => phase = "none"
  PROVE  DInv'
<1>1. UNCHANGED <<lens, manifest, size, route, ask, total, from, to, length, pos, next, sent>>
  BY DEF still, version
<1>2. Through(next - 1)' = Through(next - 1)
  BY <1>1 DEF Through, Chunked, Chunk
<1>3. Fields'
  BY <1>1 DEF DInv, Fields
<1> QED BY <1>1, <1>2, <1>3 DEF DInv, Placed, Clean, Body, Ranged, Ended

LEMMA BeginsAgain ==
  ASSUME DInv, Again
  PROVE  DInv'
<1>1. /\ UNCHANGED <<lens, manifest, size>>
      /\ phase' = "none" /\ route' = "stream" /\ ask' = [kind |-> "none"]
      /\ total' = 0 /\ from' = 0 /\ to' = 0 /\ pos' = 0 /\ next' = 1 /\ length' = 0 /\ sent' = <<>>
  BY DEF Again, version
<1>2. Fields'
  <2>1. ask' \in Asking
    BY <1>1 DEF Asking
  <2>2. Len(manifest) \in Nat
    BY LenProperties DEF DInv, Fields
  <2> QED BY <1>1, <2>1, <2>2 DEF DInv, Fields
<1>3. Through(next - 1)' = <<>> /\ Len(<<>>) = 0
  <2>1. next' - 1 = 0
    BY <1>1
  <2> QED BY <2>1, EmptySeq DEF Through, Upto
<1>4. Body'
  <2>1. Lesser(to' + 1, pos') = 0 /\ from' + 1 = 1
    BY <1>1 DEF Lesser
  <2>2. SubSeq(<<>>, 1, 0) = <<>>
    BY SubSeqEmpty
  <2> QED BY <1>1, <1>3, <2>1, <2>2 DEF Body
<1> QED BY <1>1, <1>2, <1>3, <1>4 DEF DInv, Placed, Clean, Ranged, Ended

\* DInv is kept by every step.
LEMMA StaysRight == DownloadAssumption /\ DInv /\ [DownloadNext]_downloadVars => DInv'
<1> SUFFICES ASSUME DownloadAssumption, DInv, [DownloadNext]_downloadVars PROVE DInv'
  OBVIOUS
<1>1. Asks \subseteq Asking
  <2>1. \A x \in 0 .. MaxSize + 1 : x \in Nat
    OBVIOUS
  <2>2. \A x \in 0 .. MaxSize : x \in Nat
    OBVIOUS
  <2> QED BY <2>1, <2>2 DEF Asks, Asking
<1>2. ASSUME NEW r \in Asks, Preview(r) \/ ServirContenu(r)
      PROVE  DInv'
  BY <1>1, <1>2, AnswersRight DEF Preview, ServirContenu
<1>3. CASE DownloadAll
  <2>1. [kind |-> "none"] \in Asking
    BY DEF Asking
  <2> QED BY <1>3, <2>1, AnswersRight DEF DownloadAll
<1>4. CASE Cut \/ EndBody
  BY <1>4, RestsRight DEF Cut, EndBody, Streaming, still, request
<1>5. CASE (\E c \in Hash : Lose(c)) \/ UNCHANGED downloadVars
  BY <1>5, RestsRight DEF Lose, downloadVars, still, request
<1> QED BY <1>2, <1>3, <1>4, <1>5, ServesRight, StreamsRight, SendsWhole, BeginsAgain DEF DownloadNext

\* SliceBegins, of bytes.
LEMMA SliceOfBytes ==
  ASSUME NEW P \in Seq(Byte), NEW B \in Seq(Byte), Begins(P, B), NEW f \in Nat, NEW t \in Nat,
         f <= t, t < Len(B)
  PROVE  /\ SubSeq(P, f + 1, Lesser(t + 1, Len(P))) \in Seq(Byte)
         /\ SubSeq(B, f + 1, t + 1) \in Seq(Byte) /\ Len(SubSeq(B, f + 1, t + 1)) = t - f + 1
         /\ IsPrefix(SubSeq(P, f + 1, Lesser(t + 1, Len(P))), SubSeq(B, f + 1, t + 1))
         /\ Len(P) > t \/ Len(P) = Len(B) =>
              SubSeq(P, f + 1, Lesser(t + 1, Len(P))) = SubSeq(B, f + 1, t + 1)
BY SliceBegins

\* What DInv says of the body, said of the bytes that were asked for.
LEMMA SentFollows == DInv => SentIsAsked
<1> SUFFICES ASSUME DInv, total = Len(Content), phase # "none"
             PROVE  /\ IsPrefix(sent, BytesAt(Asked))
                    /\ phase = "done" => sent = BytesAt(Asked) /\ length = Len(sent)
  BY DEF SentIsAsked
<1> DEFINE n == Len(Content)
           P == Through(next - 1)
<1>1. /\ Content \in Seq(Byte) /\ Content = Through(Len(manifest)) /\ n \in Nat /\ Len(manifest) \in Nat
      /\ next \in 1 .. Len(manifest) + 1
  BY ContentIs, LenProperties DEF DInv, Fields
<1>2. P \in Seq(Byte) /\ Begins(P, Content) /\ pos = Len(P)
  BY PassedIs DEF DInv, Fields, Placed
<1>3. next > Len(manifest) => P = Content
  <2>1. next > Len(manifest) => next - 1 = Len(manifest)
    BY <1>1
  <2> QED BY <1>1, <2>1
<1>4. size = n /\ ask \in Asking
  BY DEF DInv, Ranged, Fields
<1>5. /\ n # 0 => /\ Asked = FirstByte(ask, n) .. LastByte(ask, n)
                  /\ FirstByte(ask, n) \in Nat /\ LastByte(ask, n) \in Nat
                  /\ FirstByte(ask, n) <= LastByte(ask, n) /\ LastByte(ask, n) < n
      /\ n = 0 => Asked = {} /\ FirstByte(ask, n) = 0 /\ LastByte(ask, n) = 0
  BY <1>1, <1>4, AskedIs
<1>6. CASE n = 0
  <2>1. P = <<>>
    <3>1. Len(P) \in Nat /\ Len(P) <= 0
      BY <1>2, <1>6, LenProperties DEF Begins
    <3>2. Len(P) = 0
      BY <3>1
    <3> QED BY <1>2, <3>2, EmptySeq
  <2>2. sent = <<>> /\ length = 0
    <3>1. CASE route = "stream"
      <4>1. from = 0 /\ to = 0 /\ pos = 0 /\ length = 0
        BY <1>2, <1>4, <1>5, <1>6, <2>1, <3>1, EmptySeq DEF DInv, Ranged
      <4>2. from + 1 = 1 /\ Lesser(to + 1, pos) = 0
        BY <4>1 DEF Lesser
      <4>3. sent = SubSeq(<<>>, 1, 0)
        BY <2>1, <3>1, <4>2 DEF DInv, Body
      <4> QED BY <4>1, <4>3, SubSeqEmpty
    <3>2. CASE route = "whole"
      BY <1>4, <1>6, <2>1, <3>2 DEF DInv, Body, Ranged
    <3> QED BY <3>1, <3>2 DEF DInv, Fields
  <2>3. BytesAt(Asked) = <<>> /\ Len(<<>>) = 0
    BY <1>5, <1>6, BytesInNone, EmptySeq
  <2>4. IsPrefix(<<>>, <<>>)
    BY <2>3 DEF IsPrefix
  <2> QED BY <2>2, <2>3, <2>4
<1>7. CASE n # 0
  <2> DEFINE f == FirstByte(ask, n)
             t == LastByte(ask, n)
             part == SubSeq(P, f + 1, Lesser(t + 1, pos))
             want == SubSeq(Content, f + 1, t + 1)
  <2>1. f \in Nat /\ t \in Nat /\ f <= t /\ t < n
    BY <1>5, <1>7
  <2>2. BytesAt(Asked) = want
    BY <1>1, <1>5, <1>7, <2>1, BytesIn
  <2>3. /\ part \in Seq(Byte) /\ want \in Seq(Byte) /\ Len(want) = t - f + 1
        /\ IsPrefix(part, want)
        /\ pos > t \/ pos = n => part = want
    <3> HIDE DEF f, t, P
    <3>1. /\ P \in Seq(Byte) /\ Content \in Seq(Byte) /\ Begins(P, Content) /\ Len(P) = pos
          /\ f \in Nat /\ t \in Nat /\ f <= t /\ t < Len(Content)
      BY <1>1, <1>2, <2>1
    <3> DEFINE s == SubSeq(P, f + 1, Lesser(t + 1, Len(P)))
               w == SubSeq(Content, f + 1, t + 1)
    <3>2. /\ s \in Seq(Byte) /\ w \in Seq(Byte) /\ Len(w) = t - f + 1
          /\ IsPrefix(s, w)
          /\ Len(P) > t \/ Len(P) = Len(Content) => s = w
      <4>1. s \in Seq(Byte)
        BY <3>1, SliceOfBytes
      <4>2. w \in Seq(Byte)
        BY <3>1, SliceOfBytes
      <4>3. IsPrefix(s, w)
        BY <3>1, SliceOfBytes
      <4>4. Len(w) = t - f + 1
        BY <3>1, SliceOfBytes
      <4>5. Len(P) > t \/ Len(P) = Len(Content) => s = w
        BY <3>1, SliceOfBytes
      <4> QED BY <4>1, <4>2, <4>3, <4>4, <4>5
    <3> QED BY <3>1, <3>2
  <2>4. CASE route = "stream"
    <3>1. from = f /\ to = t /\ length = t - f + 1
      BY <1>4, <1>7, <2>4 DEF DInv, Ranged
    <3>2. sent = part
      BY <2>4, <3>1 DEF DInv, Body
    <3>3. phase = "done" => pos > t \/ pos = n
      BY <1>2, <1>3, <2>4, <3>1 DEF DInv, Ended
    <3> QED BY <2>2, <2>3, <3>1, <3>2, <3>3
  <2>5. CASE route = "whole"
    <3>1. ask \in [kind : {"none"}] /\ length = n
      BY <1>4, <2>5 DEF DInv, Ranged, Asking
    <3>2. f = 0 /\ t = n - 1
      BY <1>1, <1>7, <3>1, RangeNone DEF FirstByte, LastByte
    <3>3. Len(P) \in Nat /\ Len(P) <= n
      BY <1>1, <1>2, LenProperties DEF Begins
    <3>4. f + 1 = 1 /\ t + 1 = n /\ Lesser(t + 1, pos) = Len(P)
      BY <1>1, <1>2, <3>2, <3>3 DEF Lesser
    <3>5. part = P /\ sent = P
      BY <1>2, <2>5, <3>4, SubSeqFull DEF DInv, Body
    <3>6. phase = "done" => pos = n
      BY <1>2, <1>3, <2>5 DEF DInv, Ended
    <3>7. Len(want) = n
      BY <1>1, <2>3, <3>2
    <3> QED BY <2>2, <2>3, <3>1, <3>5, <3>6, <3>7
  <2> QED BY <2>4, <2>5 DEF DInv, Fields
<1> QED BY <1>1, <1>6, <1>7

\* files.rs 703-825, sharing.rs serve_public_file: a client gets the bytes it asked for, in their
\* order, and all of them if the body was not cut, for any chunks, lengths and range, whatever is lost.
THEOREM SentBytesAreAsked == DownloadSpec => []SentIsAsked
<1>1. DInv /\ [DownloadNext]_downloadVars => DInv'
  BY DownloadAssumption, StaysRight
<1>2. DownloadInit => DInv
  BY DownloadAssumption, StartsRight
<1> QED BY <1>1, <1>2, SentFollows, PTL DEF DownloadSpec
=============================================================================
