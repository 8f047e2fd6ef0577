---------------------------- MODULE AccessProofs ----------------------------
(***************************************************************************)
(* Access, proved: for any tokens, groups, rows and requests its types     *)
(* hold, labels are listed unless raced, a revocation ends what it says, a *)
(* dead group grants nothing unless somebody was added, and a check holds  *)
(* unless what it reads was moved.                                         *)
(*                                                                         *)
(* The inductive invariant IInv has a part per concern.  A part names what *)
(* it reads, its Keeps... formula says that a step leaves that alone, and  *)
(* a lemma that the part then survives: so most actions are dealt with by  *)
(* showing that they are quiet, and the others one by one.                 *)
(***************************************************************************)
EXTENDS Access, WellFoundedInduction, TLAPS

-----------------------------------------------------------------------------
(***************************************************************************)
(* Types.                                                                  *)
(***************************************************************************)
Point == {"idle", "ungroup", "whom", "grant", "revoke", "direct", "group", "answer",
          "unlabel", "untag", "exists", "attach", "detach",
          "favorite", "unfavorite", "comment", "uncomment"}
Jobs  == [as : Token, on : Nat, to : Grantee, name : Name, level : Action,
          ok : BOOLEAN, moved : BOOLEAN, blind : BOOLEAN]

TasksOK == /\ pc \in [Proc -> Point] /\ job \in [Proc -> Jobs]
           /\ ops \in 0 .. MaxOps /\ faults \in 0 .. MaxFaults
GrantsOK == /\ res \in {"live", "trash", "gone"}
            /\ group \in [Group -> [st : Status, name : Name]]
            /\ member \subseteq Group \X Token
            /\ perm \in [Perm -> [st : Status, to : Grantee, level : Action]]
LabelsOK == /\ tag \in [Tag -> [st : Status, owner : Token]]
            /\ label \in [Label -> [st : Status, tag : Tag]]
            /\ favorite \in [Favorite -> [st : Status, owner : Token]]
            /\ comment \in [Comment -> [st : Status, owner : Token]]
HistOK == late \subseteq Group /\ ended \subseteq Grantee /\ raced \subseteq Label

\* TypeOK in four parts, of which an action changes one or two.
LEMMA Parts == TypeOK <=> TasksOK /\ GrantsOK /\ LabelsOK /\ HistOK
  BY DEF TypeOK, TasksOK, GrantsOK, LabelsOK, HistOK, Point, Jobs

\* The id an INSERT takes is one that was never given.
LEMMA MinIn ==
    ASSUME NEW S \in SUBSET Nat, S # {}
    PROVE  Min(S) \in S
<1>1. PICK x \in S : \A y \in S : <<y, x>> \notin OpToRel(<, Nat)
  BY NatLessThanWellFounded, WFMin
<1>2. \A y \in S : y < x => <<y, x>> \in OpToRel(<, Nat)
  BY DEF OpToRel
<1>3. x \in Nat /\ \A y \in S : y \in Nat
  OBVIOUS
<1>4. \A y \in S : ~(y < x)
  BY <1>1, <1>2
<1>5. \A y \in S : x =< y
  BY <1>3, <1>4
<1> QED
  BY <1>5 DEF Min

\* So a table that is not full has room for a row.
LEMMA NextIdIn ==
    ASSUME NEW n \in Nat, NEW table, DOMAIN table = 1 .. n, NextId(table) # {}
    PROVE  Min(NextId(table)) \in 1 .. n /\ table[Min(NextId(table))].st = "unborn"
<1>1. NextId(table) \in SUBSET Nat
  BY DEF NextId
<1> QED
  BY <1>1, MinIn DEF NextId

\* A job, and the jobs of a request that begins, goes on, or ends.
LEMMA NoJobIn == NoJob \in Jobs /\ \A t \in Token : Job(t) \in Jobs
<1>1. (CHOOSE n \in Name : TRUE) \in Name
  BY AccessAssumption
<1>2. Nobody \in Grantee
  BY DEF Nobody, Grantee
<1> QED
  BY <1>1, <1>2, AccessAssumption DEF NoJob, Job, Jobs, Action

\* What a change makes of the jobs of others.
LEMMA MovedIn ==
    ASSUME TasksOK, NEW to
    PROVE  Moved(to) \in [Proc -> Jobs]
<1>1. \A j \in Jobs, b \in BOOLEAN : [j EXCEPT !.moved = b] \in Jobs
  BY DEF Jobs
<1>2. \A p \in Proc : job[p] \in Jobs /\ job[p].moved \in BOOLEAN
  BY DEF TasksOK, Jobs
<1> QED
  BY <1>1, <1>2 DEF Moved

\* A check one of whose SELECTs failed.
LEMMA BlindIn ==
    ASSUME TasksOK, NEW p \in Proc, NEW l \in Point, NEW j \in Jobs, Blind(p, l, j), ops' \in 0 .. MaxOps
    PROVE  TasksOK'
<1>1. [j EXCEPT !.blind = TRUE] \in Jobs
  BY DEF Jobs
<1>2. faults' \in 0 .. MaxFaults
  BY AccessAssumption DEF TasksOK, Blind
<1> QED
  BY <1>1, <1>2 DEF TasksOK, Blind

\* The parts a request's step changes keep their types.
LEMMA BeginIn ==
    ASSUME TasksOK, NEW p \in Proc, NEW l \in Point, NEW j \in Jobs, Begin(p, l, j)
    PROVE  TasksOK'
  BY AccessAssumption DEF TasksOK, Begin, Start

\* A request that goes on.
LEMMA GotoIn ==
    ASSUME TasksOK, NEW p \in Proc, NEW l \in Point, NEW j \in Jobs, Goto(p, l, j)
    PROVE  TasksOK'
  BY DEF TasksOK, Goto

\* A request that ends.
LEMMA EndIn ==
    ASSUME TasksOK, NEW p \in Proc, End(p) \/ \E to : EndMoved(p, to)
    PROVE  TasksOK'
<1>1. "idle" \in Point /\ NoJob \in Jobs
  BY NoJobIn DEF Point
<1>2. CASE End(p)
  BY <1>1, <1>2, GotoIn DEF End
<1>3. ASSUME NEW to, EndMoved(p, to) PROVE TasksOK'
  BY <1>1, <1>3, MovedIn DEF EndMoved, TasksOK
<1> QED
  BY <1>2, <1>3

\* A request of one statement.
LEMMA StartIn ==
    ASSUME TasksOK, Start, pc' = pc, job' = job \/ job' = Moved(Nobody)
    PROVE  TasksOK'
  BY AccessAssumption, MovedIn DEF TasksOK, Start

\* Rows of a table, one more, one less.
LEMMA AddIn ==
    ASSUME NEW S, NEW R, NEW table \in [S -> R], NEW r \in R
    PROVE  Add(table, r) \in [S -> R]
  BY DEF Add

\* One less.
LEMMA RemoveIn ==
    ASSUME NEW S, NEW R, NEW table \in [S -> R], NEW i,
           \A r \in R : [r EXCEPT !.st = "gone"] \in R /\ [r EXCEPT !.st = r.st] \in R
    PROVE  Remove(table, i) \in [S -> R]
  BY DEF Remove

\* Fields of a job.
LEMMA JobFields ==
    ASSUME NEW j \in Jobs
    PROVE  /\ \A i \in Nat : [j EXCEPT !.on = i] \in Jobs
           /\ \A i \in Nat, to \in Grantee : [j EXCEPT !.on = i, !.to = to] \in Jobs
           /\ \A b \in BOOLEAN : [j EXCEPT !.ok = b] \in Jobs /\ [j EXCEPT !.blind = b] \in Jobs
           /\ \A a \in Action : [j EXCEPT !.level = a] \in Jobs
           /\ \A g \in Group : [j EXCEPT !.to.group = g] \in Jobs
           /\ \A u \in Token \cup {0}, n \in Name, a \in Action :
                 [j EXCEPT !.to.to = u, !.name = n, !.level = a] \in Jobs
<1>1. j.to \in Grantee /\ \A u \in Token \cup {0} : [j.to EXCEPT !.to = u] \in Grantee
  BY DEF Jobs, Grantee
<1>2. \A g \in Group : [j.to EXCEPT !.group = g] \in Grantee
  BY DEF Jobs, Grantee
<1>3. \A u \in Token \cup {0}, n \in Name, a \in Action :
         [j EXCEPT !.to.to = u, !.name = n, !.level = a] \in Jobs
  BY <1>1 DEF Jobs
<1>4. \A g \in Group : [j EXCEPT !.to.group = g] \in Jobs
  BY <1>2 DEF Jobs
<1>5. \A i \in Nat : [j EXCEPT !.on = i] \in Jobs
  BY DEF Jobs
<1>6. \A i \in Nat, to \in Grantee : [j EXCEPT !.on = i, !.to = to] \in Jobs
  BY DEF Jobs
<1>7. \A b \in BOOLEAN : [j EXCEPT !.ok = b] \in Jobs /\ [j EXCEPT !.blind = b] \in Jobs
  BY DEF Jobs
<1>8. \A a \in Action : [j EXCEPT !.level = a] \in Jobs
  BY DEF Jobs
<1> QED
  BY <1>3, <1>4, <1>5, <1>6, <1>7, <1>8

\* What a request holds is a job.
LEMMA JobAt == ASSUME TasksOK, NEW p \in Proc PROVE job[p] \in Jobs
  BY DEF TasksOK

\* Rows are numbers; the levels asked for are actions.
LEMMA Rows ==
    /\ Perm \subseteq Nat /\ Tag \subseteq Nat /\ Label \subseteq Nat /\ Favorite \subseteq Nat
    /\ Comment \subseteq Nat /\ Group \subseteq Nat /\ Level \subseteq Action
  BY AccessAssumption DEF Perm, Tag, Label, Favorite, Comment, Group, Action

\* An action is covered by a level, or it is not.
LEMMA CoveredByIn == \A a, b \in Action : CoveredBy(a, b) \in BOOLEAN
<1> SUFFICES ASSUME NEW a \in Action, NEW b \in Action PROVE CoveredBy(a, b) \in BOOLEAN
  OBVIOUS
<1>1. CASE b = "write"
  BY <1>1 DEF CoveredBy
<1>2. CASE b = "read"
  BY <1>2 DEF CoveredBy
<1>3. CASE b = "comment"
  BY <1>3 DEF CoveredBy
<1> QED
  BY <1>1, <1>2, <1>3 DEF Action

TypesOK == TasksOK /\ GrantsOK /\ LabelsOK /\ HistOK

\* A request on a tag has one that was made.
TagPoint == {"exists", "attach", "unlabel", "untag"}
Tagged == \A p \in Proc : pc[p] \in TagPoint => job[p].on \in Tag /\ tag[job[p].on].st # "unborn"

\* Types, and that what a label is put on with was made.
LEMMA TypesStep ==
    ASSUME TypesOK, Tagged, [Next]_vars
    PROVE  TypesOK'
<1>1. ASSUME NEW t \in Token, NEW n \in Name, CreateGroup(t, n) PROVE TypesOK'
  <2>1. TasksOK'
    BY <1>1, StartIn DEF CreateGroup, TypesOK
  <2>2. group' \in [Group -> [st : Status, name : Name]]
    BY <1>1, AddIn DEF CreateGroup, Status, GrantsOK, TypesOK
  <2> QED
    BY <1>1, <2>1, <2>2 DEF CreateGroup, GrantsOK, LabelsOK, HistOK, TypesOK, grants,
       labels, hist
<1>2. ASSUME NEW p \in Proc, NEW t \in Token, NEW g \in Group, DeleteGroup(p, t, g) PROVE TypesOK'
  <2>1. [Job(t) EXCEPT !.on = g] \in Jobs
    BY NoJobIn, JobFields, Rows
  <2>2. TasksOK'
    BY <1>2, <2>1, MovedIn, AccessAssumption DEF DeleteGroup, Start, TasksOK, Point, TypesOK
  <2> QED
    BY <1>2, <2>2 DEF DeleteGroup, GrantsOK, LabelsOK, HistOK, TypesOK, grants, labels, hist
<1>3. ASSUME NEW t \in Token, NEW g \in Group, NEW u \in Token, AddMember(t, g, u) PROVE TypesOK'
  <2>1. TasksOK'
    BY <1>3, StartIn DEF AddMember, TypesOK
  <2> QED
    BY <1>3, <2>1 DEF AddMember, GrantsOK, LabelsOK, HistOK, TypesOK, grants, labels, hist
<1>4. ASSUME NEW t \in Token, NEW g \in Group, NEW u \in Token, RemoveMember(t, g, u) PROVE TypesOK'
  <2>1. TasksOK'
    BY <1>4, StartIn DEF RemoveMember, TypesOK
  <2> QED
    BY <1>4, <2>1 DEF RemoveMember, GrantsOK, LabelsOK, HistOK, TypesOK, grants, labels,
       hist
<1>5. ASSUME NEW p \in Proc, DropGroup(p) PROVE TypesOK'
  <2>1. TasksOK'
    BY <1>5, EndIn DEF DropGroup, TypesOK
  <2>2. GrantsOK' /\ LabelsOK'
    BY <1>5, RemoveIn DEF DropGroup, GrantsOK, LabelsOK, HistOK, TypesOK, grants, labels,
       hist, Status
  <2> QED
    BY <1>5, <2>1, <2>2 DEF DropGroup, GrantsOK, LabelsOK, HistOK, TypesOK, grants,
       labels, hist
<1>6. ASSUME NEW p \in Proc, NEW t \in Token, NEW u \in Token \cup {0}, NEW n \in Name, NEW lv \in Level, AskGrant(p, t, u, n, lv) PROVE TypesOK'
  <2>1. [Job(t) EXCEPT !.to.to = u, !.name = n, !.level = lv] \in Jobs
    BY <1>6, NoJobIn, JobFields, Rows DEF AskGrant, TypesOK, GrantsOK
  <2>2. TasksOK'
    BY <1>6, <2>1, BeginIn DEF AskGrant, Point, TypesOK
  <2> QED
    BY <1>6, <2>2 DEF AskGrant, Begin, GrantsOK, LabelsOK, HistOK, TypesOK, grants,
       labels, hist
<1>7. ASSUME NEW p \in Proc, NEW t \in Token, NEW i \in Perm, AskRevoke(p, t, i) PROVE TypesOK'
  <2>1. [Job(t) EXCEPT !.on = i, !.to = perm[i].to] \in Jobs
    BY <1>7, NoJobIn, JobFields, Rows DEF AskRevoke, TypesOK, GrantsOK
  <2>2. TasksOK'
    BY <1>7, <2>1, BeginIn DEF AskRevoke, Point, TypesOK
  <2> QED
    BY <1>7, <2>2 DEF AskRevoke, Begin, GrantsOK, LabelsOK, HistOK, TypesOK, grants,
       labels, hist
<1>8. ASSUME NEW p \in Proc, FindGrantee(p) PROVE TypesOK'
  <2>1. TasksOK'
    BY <1>8, JobAt, JobFields, EndIn, GotoIn DEF FindGrantee, Live, GrantsOK, Point, TypesOK
  <2> QED
    BY <1>8, <2>1 DEF FindGrantee, Goto, End, GrantsOK, LabelsOK, HistOK, TypesOK, grants,
       labels, hist
<1>9. ASSUME NEW p \in Proc, InsertGrant(p) PROVE TypesOK'
  <2>1. TasksOK'
    BY <1>9, EndIn DEF InsertGrant, TypesOK
  <2>2. job[p].to \in Grantee /\ job[p].level \in Action
    BY JobAt DEF Jobs, TypesOK
  <2>3. Stored(job[p].to, job[p].level) \in [Perm -> [st : Status, to : Grantee, level : Action]]
    <3>1. CASE Conflict(job[p].to) = {}
      BY <3>1, <2>2, AddIn DEF Stored, Status, GrantsOK, TypesOK
    <3>2. CASE Conflict(job[p].to) # {}
      BY <3>2, <2>2 DEF Stored, Status, GrantsOK, TypesOK
    <3> QED
      BY <3>1, <3>2
  <2> QED
    BY <1>9, <2>1, <2>2, <2>3 DEF InsertGrant, GrantsOK, LabelsOK, HistOK, TypesOK,
       grants, labels, hist
<1>10. ASSUME NEW p \in Proc, DropGrant(p) PROVE TypesOK'
  <2>1. TasksOK'
    BY <1>10, EndIn DEF DropGrant, TypesOK
  <2>2. job[p].to \in Grantee
    BY JobAt DEF Jobs, TypesOK
  <2>3. perm' \in [Perm -> [st : Status, to : Grantee, level : Action]]
    BY <1>10, RemoveIn DEF DropGrant, Status, GrantsOK, TypesOK
  <2> QED
    BY <1>10, <2>1, <2>2, <2>3 DEF DropGrant, GrantsOK, LabelsOK, HistOK, TypesOK, grants,
       labels, hist
<1>11. ASSUME NEW p \in Proc, NEW t \in Token, NEW a \in Action, CheckAccess(p, t, a) PROVE TypesOK'
  <2> DEFINE j == [Job(t) EXCEPT !.level = a]
  <2>1. j \in Jobs /\ \A b \in BOOLEAN : [j EXCEPT !.ok = b] \in Jobs
    BY NoJobIn, JobFields
  <2>2. t \in Admins \/ (res = "live" /\ t = Owner) \in BOOLEAN
    OBVIOUS
  <2>3. TasksOK'
    <3>1. CASE Begin(p, "answer", [j EXCEPT !.ok = t \in Admins \/ (res = "live" /\ t = Owner)])
      BY <2>1, <2>2, <3>1, BeginIn DEF Point, TypesOK
    <3>2. CASE Begin(p, "direct", j)
      BY <2>1, <3>2, BeginIn DEF Point, TypesOK
    <3>3. CASE ops < MaxOps /\ ops' = ops + 1 /\ Blind(p, "answer", j)
      <4>1. ops' \in 0 .. MaxOps
        BY <3>3, AccessAssumption DEF TasksOK, TypesOK
      <4> HIDE DEF j
      <4> QED
        BY <2>1, <3>3, <4>1, BlindIn DEF Point, TypesOK
    <3> QED
      BY <1>11, <3>1, <3>2, <3>3 DEF CheckAccess
  <2> QED
    BY <1>11, <2>3 DEF CheckAccess, Begin, GrantsOK, LabelsOK, HistOK, TypesOK, grants,
       labels, hist
<1>12. ASSUME NEW p \in Proc, CheckDirect(p) PROVE TypesOK'
  <2>1. \A i \in Direct(job[p].as) : CoveredBy(job[p].level, perm[i].level) \in BOOLEAN
    BY JobAt, CoveredByIn DEF Direct, Live, GrantsOK, TypesOK, Jobs
  <2>2. TasksOK'
    <3>1. CASE Blind(p, "group", job[p]) /\ UNCHANGED ops
      BY <3>1, JobAt, BlindIn DEF TasksOK, Point, TypesOK
    <3>2. CASE Goto(p, "group", job[p])
      BY <3>2, JobAt, GotoIn DEF Point, TypesOK
    <3>3. CASE \E i \in Direct(job[p].as) : Decide(p, job[p], CoveredBy(job[p].level, perm[i].level))
      BY <3>3, <2>1, JobAt, JobFields, GotoIn DEF Decide, Point, TypesOK
    <3> QED
      BY <1>12, <3>1, <3>2, <3>3 DEF CheckDirect
  <2> QED
    BY <1>12, <2>2 DEF CheckDirect, Goto, Decide, GrantsOK, LabelsOK, HistOK, TypesOK,
       grants, labels, hist
<1>13. ASSUME NEW p \in Proc, CheckGroup(p) PROVE TypesOK'
  <2>1. \A i \in Through(job[p].as) : CoveredBy(job[p].level, perm[i].level) \in BOOLEAN
    BY JobAt, CoveredByIn DEF Through, Live, GrantsOK, TypesOK, Jobs
  <2>2. TasksOK'
    <3>1. CASE Blind(p, "answer", [job[p] EXCEPT !.ok = FALSE]) /\ UNCHANGED ops
      <4>1. [job[p] EXCEPT !.ok = FALSE] \in Jobs
        BY JobAt, JobFields DEF TypesOK
      <4> QED
        BY <3>1, <4>1, BlindIn DEF TasksOK, Point, TypesOK
    <3>2. CASE \E b \in BOOLEAN : Decide(p, job[p], b)
      BY <3>2, JobAt, JobFields, GotoIn DEF Decide, Point, TypesOK
    <3> QED
      BY <1>13, <2>1, <3>1, <3>2 DEF CheckGroup
  <2> QED
    BY <1>13, <2>2 DEF CheckGroup, Goto, Decide, GrantsOK, LabelsOK, HistOK, TypesOK,
       grants, labels, hist
<1>14. ASSUME NEW p \in Proc, Answered(p) PROVE TypesOK'
  <2>1. TasksOK'
    BY <1>14, EndIn DEF Answered, TypesOK
  <2> QED
    BY <1>14, <2>1 DEF Answered, GrantsOK, LabelsOK, HistOK, TypesOK, grants, labels, hist
<1>15. ASSUME NEW t \in Token, CreateTag(t) PROVE TypesOK'
  <2>1. TasksOK'
    BY <1>15, StartIn DEF CreateTag, TypesOK
  <2>2. tag' \in [Tag -> [st : Status, owner : Token]]
    BY <1>15, AddIn DEF CreateTag, Status, LabelsOK, TypesOK
  <2> QED
    BY <1>15, <2>1, <2>2 DEF CreateTag, GrantsOK, LabelsOK, HistOK, TypesOK, grants,
       labels, hist
<1>16. ASSUME NEW p \in Proc, NEW t \in Token, NEW i \in Tag, DeleteTag(p, t, i) PROVE TypesOK'
  <2>1. [Job(t) EXCEPT !.on = i] \in Jobs
    BY <1>16, NoJobIn, JobFields, Rows DEF DeleteTag, TypesOK, GrantsOK
  <2>2. TasksOK'
    BY <1>16, <2>1, BeginIn DEF DeleteTag, Point, TypesOK
  <2> QED
    BY <1>16, <2>2 DEF DeleteTag, Begin, GrantsOK, LabelsOK, HistOK, TypesOK, grants,
       labels, hist
<1>17. ASSUME NEW p \in Proc, NEW t \in Token, NEW i \in Tag, AttachTag(p, t, i) PROVE TypesOK'
  <2>1. [Job(t) EXCEPT !.on = i] \in Jobs
    BY <1>17, NoJobIn, JobFields, Rows DEF AttachTag, TypesOK, GrantsOK
  <2>2. TasksOK'
    BY <1>17, <2>1, BeginIn DEF AttachTag, Point, TypesOK
  <2> QED
    BY <1>17, <2>2 DEF AttachTag, Begin, GrantsOK, LabelsOK, HistOK, TypesOK, grants,
       labels, hist
<1>18. ASSUME NEW p \in Proc, NEW t \in Token, NEW l \in Label, DetachTag(p, t, l) PROVE TypesOK'
  <2>1. [Job(t) EXCEPT !.on = l] \in Jobs
    BY <1>18, NoJobIn, JobFields, Rows DEF DetachTag, TypesOK, GrantsOK
  <2>2. TasksOK'
    BY <1>18, <2>1, BeginIn DEF DetachTag, Point, TypesOK
  <2> QED
    BY <1>18, <2>2 DEF DetachTag, Begin, GrantsOK, LabelsOK, HistOK, TypesOK, grants,
       labels, hist
<1>19. ASSUME NEW p \in Proc, DropLabels(p) PROVE TypesOK'
  <2>1. TasksOK'
    BY <1>19, JobAt, GotoIn DEF DropLabels, Point, TypesOK
  <2>2. label' \in [Label -> [st : Status, tag : Tag]]
    BY <1>19 DEF DropLabels, Status, LabelsOK, TypesOK
  <2> QED
    BY <1>19, <2>1, <2>2 DEF DropLabels, Goto, GrantsOK, LabelsOK, HistOK, TypesOK,
       grants, labels, hist
<1>20. ASSUME NEW p \in Proc, DropTag(p) PROVE TypesOK'
  <2>1. TasksOK'
    BY <1>20, EndIn DEF DropTag, TypesOK
  <2>2. GrantsOK' /\ LabelsOK'
    BY <1>20, RemoveIn DEF DropTag, GrantsOK, LabelsOK, HistOK, TypesOK, grants, labels,
       hist, Status
  <2> QED
    BY <1>20, <2>1, <2>2 DEF DropTag, GrantsOK, LabelsOK, HistOK, TypesOK, grants, labels,
       hist
<1>21. ASSUME NEW p \in Proc, ResourceExists(p) PROVE TypesOK'
  <2>1. TasksOK'
    BY <1>21, JobAt, EndIn, GotoIn DEF ResourceExists, Point, TypesOK
  <2> QED
    BY <1>21, <2>1 DEF ResourceExists, Goto, End, GrantsOK, LabelsOK, HistOK, TypesOK,
       grants, labels, hist
<1>22. ASSUME NEW p \in Proc, InsertLabel(p) PROVE TypesOK'
  <2>1. TasksOK'
    BY <1>22, EndIn DEF InsertLabel, TypesOK
  <2>2. job[p].on \in Tag
    BY <1>22 DEF InsertLabel, Tagged, TagPoint
  <2>3. label' \in [Label -> [st : Status, tag : Tag]]
    <3>1. [st |-> "live", tag |-> job[p].on] \in [st : Status, tag : Tag]
      BY <2>2 DEF Status
    <3>2. label \in [Label -> [st : Status, tag : Tag]]
      BY DEF LabelsOK, TypesOK
    <3>3. Add(label, [st |-> "live", tag |-> job[p].on]) \in [Label -> [st : Status, tag : Tag]]
      BY <3>1, <3>2, AddIn
    <3>4. label' = label \/ label' = Add(label, [st |-> "live", tag |-> job[p].on])
      BY <1>22 DEF InsertLabel
    <3> QED
      BY <3>2, <3>3, <3>4
  <2>4. Min(NextId(label)) \in Label
    BY <1>22, NextIdIn, AccessAssumption DEF InsertLabel, Label, LabelsOK, TypesOK
  <2> QED
    BY <1>22, <2>1, <2>3, <2>4 DEF InsertLabel, GrantsOK, LabelsOK, HistOK, TypesOK,
       grants, labels, hist
<1>23. ASSUME NEW p \in Proc, DropLabel(p) PROVE TypesOK'
  <2>1. TasksOK'
    BY <1>23, EndIn DEF DropLabel, TypesOK
  <2>2. GrantsOK' /\ LabelsOK'
    BY <1>23, RemoveIn DEF DropLabel, GrantsOK, LabelsOK, HistOK, TypesOK, grants, labels,
       hist, Status
  <2> QED
    BY <1>23, <2>1, <2>2 DEF DropLabel, GrantsOK, LabelsOK, HistOK, TypesOK, grants,
       labels, hist
<1>24. ASSUME NEW p \in Proc, NEW t \in Token, AddFavorite(p, t) PROVE TypesOK'
  <2>1. Job(t) \in Jobs
    BY <1>24, NoJobIn, JobFields, Rows DEF AddFavorite, TypesOK, GrantsOK
  <2>2. TasksOK'
    BY <1>24, <2>1, BeginIn DEF AddFavorite, Point, TypesOK
  <2> QED
    BY <1>24, <2>2 DEF AddFavorite, Begin, GrantsOK, LabelsOK, HistOK, TypesOK, grants,
       labels, hist
<1>25. ASSUME NEW p \in Proc, NEW t \in Token, CreateComment(p, t) PROVE TypesOK'
  <2>1. Job(t) \in Jobs
    BY <1>25, NoJobIn, JobFields, Rows DEF CreateComment, TypesOK, GrantsOK
  <2>2. TasksOK'
    BY <1>25, <2>1, BeginIn DEF CreateComment, Point, TypesOK
  <2> QED
    BY <1>25, <2>2 DEF CreateComment, Begin, GrantsOK, LabelsOK, HistOK, TypesOK, grants,
       labels, hist
<1>26. ASSUME NEW p \in Proc, NEW t \in Token, NEW f \in Favorite, RemoveFavorite(p, t, f) PROVE TypesOK'
  <2>1. [Job(t) EXCEPT !.on = f] \in Jobs
    BY <1>26, NoJobIn, JobFields, Rows DEF RemoveFavorite, TypesOK, GrantsOK
  <2>2. TasksOK'
    BY <1>26, <2>1, BeginIn DEF RemoveFavorite, Point, TypesOK
  <2> QED
    BY <1>26, <2>2 DEF RemoveFavorite, Begin, GrantsOK, LabelsOK, HistOK, TypesOK, grants,
       labels, hist
<1>27. ASSUME NEW p \in Proc, NEW t \in Token, NEW c \in Comment, DeleteComment(p, t, c) PROVE TypesOK'
  <2>1. [Job(t) EXCEPT !.on = c] \in Jobs
    BY <1>27, NoJobIn, JobFields, Rows DEF DeleteComment, TypesOK, GrantsOK
  <2>2. TasksOK'
    BY <1>27, <2>1, BeginIn DEF DeleteComment, Point, TypesOK
  <2> QED
    BY <1>27, <2>2 DEF DeleteComment, Begin, GrantsOK, LabelsOK, HistOK, TypesOK, grants,
       labels, hist
<1>28. ASSUME NEW p \in Proc, InsertFavorite(p) PROVE TypesOK'
  <2>1. TasksOK'
    BY <1>28, EndIn DEF InsertFavorite, TypesOK
  <2>2. job[p].as \in Token
    BY JobAt DEF Jobs, TypesOK
  <2>3. favorite' \in [Favorite -> [st : Status, owner : Token]]
    BY <1>28, <2>2, AddIn DEF InsertFavorite, Status, LabelsOK, TypesOK
  <2> QED
    BY <1>28, <2>1, <2>3 DEF InsertFavorite, GrantsOK, LabelsOK, HistOK, TypesOK, grants,
       labels, hist
<1>29. ASSUME NEW p \in Proc, DropFavorite(p) PROVE TypesOK'
  <2>1. TasksOK'
    BY <1>29, EndIn DEF DropFavorite, TypesOK
  <2>2. GrantsOK' /\ LabelsOK'
    BY <1>29, RemoveIn DEF DropFavorite, GrantsOK, LabelsOK, HistOK, TypesOK, grants,
       labels, hist, Status
  <2> QED
    BY <1>29, <2>1, <2>2 DEF DropFavorite, GrantsOK, LabelsOK, HistOK, TypesOK, grants,
       labels, hist
<1>30. ASSUME NEW p \in Proc, InsertComment(p) PROVE TypesOK'
  <2>1. TasksOK'
    BY <1>30, EndIn DEF InsertComment, TypesOK
  <2>2. job[p].as \in Token
    BY JobAt DEF Jobs, TypesOK
  <2>3. comment' \in [Comment -> [st : Status, owner : Token]]
    BY <1>30, <2>2, AddIn DEF InsertComment, Status, LabelsOK, TypesOK
  <2> QED
    BY <1>30, <2>1, <2>3 DEF InsertComment, GrantsOK, LabelsOK, HistOK, TypesOK, grants,
       labels, hist
<1>31. ASSUME NEW p \in Proc, DropComment(p) PROVE TypesOK'
  <2>1. TasksOK'
    BY <1>31, EndIn DEF DropComment, TypesOK
  <2>2. GrantsOK' /\ LabelsOK'
    BY <1>31, RemoveIn DEF DropComment, GrantsOK, LabelsOK, HistOK, TypesOK, grants,
       labels, hist, Status
  <2> QED
    BY <1>31, <2>1, <2>2 DEF DropComment, GrantsOK, LabelsOK, HistOK, TypesOK, grants,
       labels, hist
<1>32. ASSUME ResourceGoes PROVE TypesOK'
  <2>1. TasksOK'
    BY <1>32, StartIn DEF ResourceGoes, TypesOK
  <2> QED
    BY <1>32, <2>1 DEF ResourceGoes, GrantsOK, LabelsOK, HistOK, TypesOK, grants, labels,
       hist
<1>33. ASSUME NEW p \in Proc, Stop(p) PROVE TypesOK'
  <2>1. TasksOK'
    BY <1>33, NoJobIn, AccessAssumption DEF Stop, TasksOK, Point, TypesOK
  <2> QED
    BY <1>33, <2>1 DEF Stop, GrantsOK, LabelsOK, HistOK, TypesOK, grants, labels, hist
<1>34. CASE UNCHANGED vars
  BY <1>34 DEF vars, TasksOK, GrantsOK, LabelsOK, HistOK, TypesOK, grants, labels, hist
<1> QED
  BY <1>1, <1>2, <1>3, <1>4, <1>5, <1>6, <1>7, <1>8, <1>9, <1>10, <1>11, <1>12, <1>13,
     <1>14, <1>15, <1>16, <1>17, <1>18, <1>19, <1>20, <1>21, <1>22, <1>23, <1>24, <1>25,
     <1>26, <1>27, <1>28, <1>29, <1>30, <1>31, <1>32, <1>33, <1>34 DEF Next, Groups,
     Permissions, Tags, Remarks, GqlGroups, GqlDeleteGroup, GqlGrant, GqlRevoke,
     GqlCreateTag, GqlDeleteTag, GqlAttachTag, GqlDetachTag, GqlFavorite, GqlUnfavorite,
     GqlComment, GqlUncomment

-----------------------------------------------------------------------------
\* What a step makes of the jobs of others.
LEMMA MovedKeeps ==
    ASSUME TasksOK, NEW to, NEW q \in Proc
    PROVE  /\ Moved(to)[q].on = job[q].on /\ Moved(to)[q].to = job[q].to
           /\ Moved(to)[q].as = job[q].as /\ Moved(to)[q].level = job[q].level
           /\ Moved(to)[q].ok = job[q].ok /\ (job[q].moved => Moved(to)[q].moved)
           /\ pc[q] \in {"direct", "group", "answer"} => Moved(to)[q].moved
           /\ pc[q] = "revoke" /\ job[q].to = to => Moved(to)[q].moved
<1>1. job[q] \in Jobs
  BY DEF TasksOK
<1>2. Moved(to)[q] = [job[q] EXCEPT !.moved =
        @ \/ pc[q] \in {"direct", "group", "answer"} \/ (pc[q] = "revoke" /\ job[q].to = to)]
  BY DEF Moved
<1> QED
  BY <1>1, <1>2 DEF Jobs

-----------------------------------------------------------------------------
(***************************************************************************)
(* Labels.                                                                 *)
(***************************************************************************)
\* When the labels of a tag are removed and the tag is not yet, every label it has
\* was put on in between.
Bare == \A p \in Proc : pc[p] = "untag" =>
          \A l \in Live(label) : label[l].tag = job[p].on => l \in raced

LabelInv == Tagged /\ Bare /\ LabelsAreListedUnlessRaced

\* A step that is quiet about labels.
KeepsLabels ==
    /\ UNCHANGED <<tag, label, raced>>
    /\ \A q \in Proc : pc'[q] \in TagPoint => pc'[q] = pc[q] /\ job'[q].on = job[q].on

\* A quiet step keeps the invariant of the labels.
LEMMA LabelsKept ==
    ASSUME LabelInv, KeepsLabels
    PROVE  LabelInv'
  BY DEF LabelInv, KeepsLabels, Tagged, Bare, LabelsAreListedUnlessRaced,
     ListResourceTags, Live, TagPoint

\* Every step keeps it: DropLabels makes it true, InsertLabel is why raced is there.
LEMMA LabelStep ==
    ASSUME TypesOK, LabelInv, [Next]_vars
    PROVE  LabelInv'
<1>1. ASSUME NEW t \in Token, NEW n \in Name, CreateGroup(t, n) PROVE LabelInv'
  <2>1. KeepsLabels
    BY <1>1, MovedKeeps DEF CreateGroup, KeepsLabels, TagPoint, Start, Decide, Begin,
       Goto, End, EndMoved, grants, labels, hist, TasksOK, TypesOK
  <2> QED
    BY <2>1, LabelsKept
<1>2. ASSUME NEW p \in Proc, NEW t \in Token, NEW g \in Group, DeleteGroup(p, t, g) PROVE LabelInv'
  <2>1. KeepsLabels
    BY <1>2, MovedKeeps DEF DeleteGroup, KeepsLabels, TagPoint, Start, Decide, Begin,
       Goto, End, EndMoved, grants, labels, hist, TasksOK, TypesOK
  <2> QED
    BY <2>1, LabelsKept
<1>3. ASSUME NEW t \in Token, NEW g \in Group, NEW u \in Token, AddMember(t, g, u) PROVE LabelInv'
  <2>1. KeepsLabels
    BY <1>3, MovedKeeps DEF AddMember, KeepsLabels, TagPoint, Start, Decide, Begin, Goto,
       End, EndMoved, grants, labels, hist, TasksOK, TypesOK
  <2> QED
    BY <2>1, LabelsKept
<1>4. ASSUME NEW t \in Token, NEW g \in Group, NEW u \in Token, RemoveMember(t, g, u) PROVE LabelInv'
  <2>1. KeepsLabels
    BY <1>4, MovedKeeps DEF RemoveMember, KeepsLabels, TagPoint, Start, Decide, Begin,
       Goto, End, EndMoved, grants, labels, hist, TasksOK, TypesOK
  <2> QED
    BY <2>1, LabelsKept
<1>5. ASSUME NEW p \in Proc, DropGroup(p) PROVE LabelInv'
  <2>1. KeepsLabels
    BY <1>5, MovedKeeps DEF DropGroup, KeepsLabels, TagPoint, Start, Decide, Begin, Goto,
       End, EndMoved, grants, labels, hist, TasksOK, TypesOK
  <2> QED
    BY <2>1, LabelsKept
<1>6. ASSUME NEW p \in Proc, NEW t \in Token, NEW u \in Token \cup {0}, NEW n \in Name, NEW lv \in Level, AskGrant(p, t, u, n, lv) PROVE LabelInv'
  <2>1. KeepsLabels
    BY <1>6, MovedKeeps DEF AskGrant, KeepsLabels, TagPoint, Start, Decide, Begin, Goto,
       End, EndMoved, grants, labels, hist, TasksOK, TypesOK
  <2> QED
    BY <2>1, LabelsKept
<1>7. ASSUME NEW p \in Proc, NEW t \in Token, NEW i \in Perm, AskRevoke(p, t, i) PROVE LabelInv'
  <2>1. KeepsLabels
    BY <1>7, MovedKeeps DEF AskRevoke, KeepsLabels, TagPoint, Start, Decide, Begin, Goto,
       End, EndMoved, grants, labels, hist, TasksOK, TypesOK
  <2> QED
    BY <2>1, LabelsKept
<1>8. ASSUME NEW p \in Proc, FindGrantee(p) PROVE LabelInv'
  <2>1. KeepsLabels
    BY <1>8, MovedKeeps DEF FindGrantee, KeepsLabels, TagPoint, Start, Decide, Begin,
       Goto, End, EndMoved, grants, labels, hist, TasksOK, TypesOK
  <2> QED
    BY <2>1, LabelsKept
<1>9. ASSUME NEW p \in Proc, InsertGrant(p) PROVE LabelInv'
  <2>1. KeepsLabels
    BY <1>9, MovedKeeps DEF InsertGrant, KeepsLabels, TagPoint, Start, Decide, Begin,
       Goto, End, EndMoved, grants, labels, hist, TasksOK, TypesOK
  <2> QED
    BY <2>1, LabelsKept
<1>10. ASSUME NEW p \in Proc, DropGrant(p) PROVE LabelInv'
  <2>1. KeepsLabels
    BY <1>10, MovedKeeps DEF DropGrant, KeepsLabels, TagPoint, Start, Decide, Begin, Goto,
       End, EndMoved, grants, labels, hist, TasksOK, TypesOK
  <2> QED
    BY <2>1, LabelsKept
<1>11. ASSUME NEW p \in Proc, NEW t \in Token, NEW a \in Action, CheckAccess(p, t, a) PROVE LabelInv'
  <2>1. KeepsLabels
    BY <1>11, MovedKeeps DEF CheckAccess, KeepsLabels, TagPoint, Start, Blind, Decide, Begin,
       Goto, End, EndMoved, grants, labels, hist, TasksOK, TypesOK
  <2> QED
    BY <2>1, LabelsKept
<1>12. ASSUME NEW p \in Proc, CheckDirect(p) PROVE LabelInv'
  <2>1. KeepsLabels
    BY <1>12, MovedKeeps DEF CheckDirect, KeepsLabels, TagPoint, Start, Blind, Decide, Begin,
       Goto, End, EndMoved, grants, labels, hist, TasksOK, TypesOK
  <2> QED
    BY <2>1, LabelsKept
<1>13. ASSUME NEW p \in Proc, CheckGroup(p) PROVE LabelInv'
  <2>1. KeepsLabels
    BY <1>13, MovedKeeps DEF CheckGroup, KeepsLabels, TagPoint, Start, Blind, Decide, Begin,
       Goto, End, EndMoved, grants, labels, hist, TasksOK, TypesOK
  <2> QED
    BY <2>1, LabelsKept
<1>14. ASSUME NEW p \in Proc, Answered(p) PROVE LabelInv'
  <2>1. KeepsLabels
    BY <1>14, MovedKeeps DEF Answered, KeepsLabels, TagPoint, Start, Decide, Begin, Goto,
       End, EndMoved, grants, labels, hist, TasksOK, TypesOK
  <2> QED
    BY <2>1, LabelsKept
<1>15. ASSUME NEW t \in Token, CreateTag(t) PROVE LabelInv'
  <2>1. \A i \in Tag :
         /\ tag[i].st = "live" => tag'[i].st = "live"
         /\ tag[i].st # "unborn" => tag'[i].st # "unborn"
    BY <1>15 DEF CreateTag, Add, LabelsOK, TypesOK
  <2>2. UNCHANGED <<label, raced, pc, job>>
    BY <1>15 DEF CreateTag, hist
  <2>3. \A l \in Label : label[l].tag \in Tag
    BY DEF LabelsOK, TypesOK
  <2> QED
    <3>1. Tagged'
      <4> SUFFICES ASSUME NEW q \in Proc, pc'[q] \in TagPoint
                   PROVE  job'[q].on \in Tag /\ tag'[job'[q].on].st # "unborn"
        BY DEF Tagged
      <4>1. job[q].on \in Tag /\ tag[job[q].on].st # "unborn"
        BY <2>2 DEF LabelInv, Tagged
      <4> QED
        BY <4>1, <2>1, <2>2
    <3>2. Bare'
      BY <2>2 DEF LabelInv, Bare, Live
    <3>3. LabelsAreListedUnlessRaced'
      <4> SUFFICES ASSUME NEW l \in Live(label)'
                   PROVE  l \in raced \/ tag'[label[l].tag].st = "live"
        BY <2>2 DEF LabelsAreListedUnlessRaced, ListResourceTags
      <4>1. l \in Label /\ (l \in raced \/ tag[label[l].tag].st = "live")
        BY <2>2 DEF LabelInv, LabelsAreListedUnlessRaced, ListResourceTags, Live,
           LabelsOK, TypesOK
      <4> QED
        BY <4>1, <2>1, <2>3
    <3> QED
      BY <3>1, <3>2, <3>3 DEF LabelInv
<1>16. ASSUME NEW p \in Proc, NEW t \in Token, NEW i \in Tag, DeleteTag(p, t, i) PROVE LabelInv'
  <2>1. UNCHANGED <<tag, label, raced>>
    BY <1>16 DEF DeleteTag, labels, hist
  <2>2. \A q \in Proc \ {p} : pc'[q] = pc[q] /\ job'[q] = job[q]
    BY <1>16 DEF DeleteTag, Begin, TasksOK, TypesOK
  <2>3. pc'[p] \in {"unlabel", "exists"} /\ job'[p].on = i /\ tag[i].st = "live"
    <3>1. Job(t) \in Jobs
      BY NoJobIn
    <3> QED
      BY <1>16, <3>1 DEF DeleteTag, Begin, TasksOK, TypesOK, Jobs
  <2>4. Tagged'
    BY <2>1, <2>2, <2>3 DEF LabelInv, Tagged, TagPoint
  <2>5. Bare'
    BY <2>1, <2>2, <2>3 DEF LabelInv, Bare, Live
  <2>6. LabelsAreListedUnlessRaced'
    BY <2>1 DEF LabelInv, LabelsAreListedUnlessRaced, ListResourceTags, Live
  <2> QED
    BY <2>4, <2>5, <2>6 DEF LabelInv
<1>17. ASSUME NEW p \in Proc, NEW t \in Token, NEW i \in Tag, AttachTag(p, t, i) PROVE LabelInv'
  <2>1. UNCHANGED <<tag, label, raced>>
    BY <1>17 DEF AttachTag, labels, hist
  <2>2. \A q \in Proc \ {p} : pc'[q] = pc[q] /\ job'[q] = job[q]
    BY <1>17 DEF AttachTag, Begin, TasksOK, TypesOK
  <2>3. pc'[p] \in {"unlabel", "exists"} /\ job'[p].on = i /\ tag[i].st = "live"
    <3>1. Job(t) \in Jobs
      BY NoJobIn
    <3> QED
      BY <1>17, <3>1 DEF AttachTag, Begin, TasksOK, TypesOK, Jobs
  <2>4. Tagged'
    BY <2>1, <2>2, <2>3 DEF LabelInv, Tagged, TagPoint
  <2>5. Bare'
    BY <2>1, <2>2, <2>3 DEF LabelInv, Bare, Live
  <2>6. LabelsAreListedUnlessRaced'
    BY <2>1 DEF LabelInv, LabelsAreListedUnlessRaced, ListResourceTags, Live
  <2> QED
    BY <2>4, <2>5, <2>6 DEF LabelInv
<1>18. ASSUME NEW p \in Proc, NEW t \in Token, NEW l \in Label, DetachTag(p, t, l) PROVE LabelInv'
  <2>1. KeepsLabels
    BY <1>18, MovedKeeps DEF DetachTag, KeepsLabels, TagPoint, Start, Decide, Begin, Goto,
       End, EndMoved, grants, labels, hist, TasksOK, TypesOK
  <2> QED
    BY <2>1, LabelsKept
<1>19. ASSUME NEW p \in Proc, DropLabels(p) PROVE LabelInv'
  <2>1. UNCHANGED <<tag, raced>>
    BY <1>19 DEF DropLabels, hist
  <2>2. \A q \in Proc \ {p} : pc'[q] = pc[q] /\ job'[q] = job[q]
    BY <1>19 DEF DropLabels, Goto, TasksOK, TypesOK
  <2>3. pc[p] = "unlabel" /\ pc'[p] = "untag" /\ job'[p] = job[p]
    BY <1>19 DEF DropLabels, Goto, TasksOK, TypesOK
  <2>4. \A l \in Live(label)' : l \in Live(label) /\ label'[l] = label[l] /\ label[l].tag # job[p].on
    BY <1>19 DEF DropLabels, Live, LabelsOK, TypesOK
  <2> QED
    BY <2>1, <2>2, <2>3, <2>4 DEF LabelInv, Tagged, Bare, LabelsAreListedUnlessRaced,
       ListResourceTags, TagPoint
<1>20. ASSUME NEW p \in Proc, DropTag(p) PROVE LabelInv'
  <2>1. UNCHANGED <<label, raced>>
    BY <1>20 DEF DropTag, hist
  <2>2. \A q \in Proc \ {p} : pc'[q] = pc[q] /\ job'[q] = job[q]
    BY <1>20 DEF DropTag, End, Goto, TasksOK, TypesOK
  <2>3. pc[p] = "untag" /\ pc'[p] = "idle"
    BY <1>20 DEF DropTag, End, Goto, TasksOK, TypesOK
  <2>4. \A i \in Tag :
         /\ i # job[p].on => tag'[i] = tag[i]
         /\ tag[i].st # "unborn" => tag'[i].st # "unborn"
    BY <1>20 DEF DropTag, Remove, LabelsOK, TypesOK
  <2>5. \A l \in Label : label[l].tag \in Tag
    BY DEF LabelsOK, TypesOK
  <2>6. Tagged'
    <3> SUFFICES ASSUME NEW q \in Proc, pc'[q] \in TagPoint
                 PROVE  job'[q].on \in Tag /\ tag'[job'[q].on].st # "unborn"
      BY DEF Tagged
    <3>1. q # p /\ pc'[q] = pc[q] /\ job'[q] = job[q]
      BY <2>2, <2>3 DEF TagPoint
    <3>2. job[q].on \in Tag /\ tag[job[q].on].st # "unborn"
      BY <3>1 DEF LabelInv, Tagged
    <3> QED
      BY <3>1, <3>2, <2>4
  <2>7. Bare'
    BY <2>1, <2>2, <2>3 DEF LabelInv, Bare, Live
  <2>8. LabelsAreListedUnlessRaced'
    <3> SUFFICES ASSUME NEW l \in Live(label)'
                 PROVE  l \in raced \/ tag'[label[l].tag].st = "live"
      BY <2>1 DEF LabelsAreListedUnlessRaced, ListResourceTags
    <3>1. l \in Live(label) /\ l \in Label /\ (l \in raced \/ tag[label[l].tag].st = "live")
      BY <2>1 DEF LabelInv, LabelsAreListedUnlessRaced, ListResourceTags, Live, LabelsOK,
         TypesOK
    <3>2. CASE label[l].tag = job[p].on
      BY <3>1, <3>2, <2>3 DEF LabelInv, Bare
    <3>3. CASE label[l].tag # job[p].on
      BY <3>1, <3>3, <2>4, <2>5
    <3> QED
      BY <3>2, <3>3
  <2> QED
    BY <2>6, <2>7, <2>8 DEF LabelInv
<1>21. ASSUME NEW p \in Proc, ResourceExists(p) PROVE LabelInv'
  <2>1. UNCHANGED <<tag, label, raced>>
    BY <1>21 DEF ResourceExists, labels, hist
  <2>2. \A q \in Proc \ {p} : pc'[q] = pc[q] /\ job'[q] = job[q]
    BY <1>21 DEF ResourceExists, Goto, End, TasksOK, TypesOK
  <2>3. pc[p] = "exists" /\ (pc'[p] = "idle" \/ (pc'[p] = "attach" /\ job'[p] = job[p]))
    BY <1>21 DEF ResourceExists, Goto, End, TasksOK, TypesOK
  <2> QED
    BY <2>1, <2>2, <2>3 DEF LabelInv, Tagged, Bare, LabelsAreListedUnlessRaced,
       ListResourceTags, Live, TagPoint
<1>22. ASSUME NEW p \in Proc, InsertLabel(p) PROVE LabelInv'
  <2> DEFINE i == job[p].on
             x == Min(NextId(label))
  <2>1. UNCHANGED tag
    BY <1>22 DEF InsertLabel
  <2>2. \A q \in Proc \ {p} : pc'[q] = pc[q] /\ job'[q] = job[q]
    BY <1>22 DEF InsertLabel, End, Goto, TasksOK, TypesOK
  <2>3. pc[p] = "attach" /\ pc'[p] = "idle"
    BY <1>22 DEF InsertLabel, End, Goto, TasksOK, TypesOK
  <2>4. i \in Tag /\ tag[i].st \in {"live", "gone"}
    BY <2>3 DEF LabelInv, Tagged, TagPoint, LabelsOK, TypesOK, Status
  <2>5. CASE UNCHANGED <<label, raced>>
    BY <2>1, <2>2, <2>3, <2>5 DEF LabelInv, Tagged, Bare, LabelsAreListedUnlessRaced,
       ListResourceTags, Live, TagPoint
  <2>6. CASE /\ label' = Add(label, [st |-> "live", tag |-> i])
             /\ raced' = IF tag[i].st = "gone" \/ \E q \in Proc : pc[q] = "untag" /\ job[q].on = i
                         THEN raced \cup {x} ELSE raced
    <3>1. x \in Label /\ label[x].st = "unborn"
      BY <1>22, NextIdIn, AccessAssumption DEF InsertLabel, Label, LabelsOK, TypesOK
    <3>2. /\ label'[x] = [st |-> "live", tag |-> i]
          /\ \A l \in Label \ {x} : label'[l] = label[l]
          /\ DOMAIN label' = Label /\ DOMAIN label = Label
      BY <2>6, <3>1 DEF Add, LabelsOK, TypesOK
    <3>3. raced \subseteq raced'
      BY <2>6
    <3>4. tag[i].st = "gone" \/ (\E q \in Proc : pc[q] = "untag" /\ job[q].on = i) => x \in raced'
      BY <2>6
    <3>5. Tagged'
      BY <2>1, <2>2, <2>3 DEF LabelInv, Tagged, TagPoint
    <3>6. Bare'
      <4> SUFFICES ASSUME NEW q \in Proc, pc'[q] = "untag", NEW l \in Live(label)', label'[l].tag = job'[q].on
                   PROVE  l \in raced'
        BY DEF Bare
      <4>1. pc[q] = "untag" /\ job'[q] = job[q]
        BY <2>2, <2>3
      <4>2. CASE l = x
        BY <4>1, <4>2, <3>2, <3>4
      <4>3. CASE l # x
        BY <4>1, <4>3, <3>2, <3>3 DEF LabelInv, Bare, Live
      <4> QED
        BY <4>2, <4>3
    <3>7. LabelsAreListedUnlessRaced'
      <4> SUFFICES ASSUME NEW l \in Live(label)' PROVE l \in raced' \/ tag[label'[l].tag].st = "live"
        BY <2>1 DEF LabelsAreListedUnlessRaced, ListResourceTags
      <4>1. CASE l = x
        BY <4>1, <3>2, <3>4, <2>4
      <4>2. CASE l # x
        BY <4>2, <3>2, <3>3 DEF LabelInv, LabelsAreListedUnlessRaced, ListResourceTags, Live
      <4> QED
        BY <4>1, <4>2
    <3> QED
      BY <3>5, <3>6, <3>7 DEF LabelInv
  <2> QED
    BY <1>22, <2>5, <2>6 DEF InsertLabel
<1>23. ASSUME NEW p \in Proc, DropLabel(p) PROVE LabelInv'
  <2>1. UNCHANGED <<tag, raced>>
    BY <1>23 DEF DropLabel, hist
  <2>2. \A q \in Proc : pc'[q] \in TagPoint => pc'[q] = pc[q] /\ job'[q] = job[q]
    BY <1>23 DEF DropLabel, End, Goto, TasksOK, TypesOK, TagPoint
  <2>3. \A l \in Live(label)' : l \in Live(label) /\ label'[l] = label[l]
    BY <1>23 DEF DropLabel, Remove, Live, LabelsOK, TypesOK
  <2> QED
    BY <2>1, <2>2, <2>3 DEF LabelInv, Tagged, Bare, LabelsAreListedUnlessRaced,
       ListResourceTags, TagPoint
<1>24. ASSUME NEW p \in Proc, NEW t \in Token, AddFavorite(p, t) PROVE LabelInv'
  <2>1. KeepsLabels
    BY <1>24, MovedKeeps DEF AddFavorite, KeepsLabels, TagPoint, Start, Decide, Begin,
       Goto, End, EndMoved, grants, labels, hist, TasksOK, TypesOK
  <2> QED
    BY <2>1, LabelsKept
<1>25. ASSUME NEW p \in Proc, NEW t \in Token, CreateComment(p, t) PROVE LabelInv'
  <2>1. KeepsLabels
    BY <1>25, MovedKeeps DEF CreateComment, KeepsLabels, TagPoint, Start, Decide, Begin,
       Goto, End, EndMoved, grants, labels, hist, TasksOK, TypesOK
  <2> QED
    BY <2>1, LabelsKept
<1>26. ASSUME NEW p \in Proc, NEW t \in Token, NEW f \in Favorite, RemoveFavorite(p, t, f) PROVE LabelInv'
  <2>1. KeepsLabels
    BY <1>26, MovedKeeps DEF RemoveFavorite, KeepsLabels, TagPoint, Start, Decide, Begin,
       Goto, End, EndMoved, grants, labels, hist, TasksOK, TypesOK
  <2> QED
    BY <2>1, LabelsKept
<1>27. ASSUME NEW p \in Proc, NEW t \in Token, NEW c \in Comment, DeleteComment(p, t, c) PROVE LabelInv'
  <2>1. KeepsLabels
    BY <1>27, MovedKeeps DEF DeleteComment, KeepsLabels, TagPoint, Start, Decide, Begin,
       Goto, End, EndMoved, grants, labels, hist, TasksOK, TypesOK
  <2> QED
    BY <2>1, LabelsKept
<1>28. ASSUME NEW p \in Proc, InsertFavorite(p) PROVE LabelInv'
  <2>1. KeepsLabels
    BY <1>28, MovedKeeps DEF InsertFavorite, KeepsLabels, TagPoint, Start, Decide, Begin,
       Goto, End, EndMoved, grants, labels, hist, TasksOK, TypesOK
  <2> QED
    BY <2>1, LabelsKept
<1>29. ASSUME NEW p \in Proc, DropFavorite(p) PROVE LabelInv'
  <2>1. KeepsLabels
    BY <1>29, MovedKeeps DEF DropFavorite, KeepsLabels, TagPoint, Start, Decide, Begin,
       Goto, End, EndMoved, grants, labels, hist, TasksOK, TypesOK
  <2> QED
    BY <2>1, LabelsKept
<1>30. ASSUME NEW p \in Proc, InsertComment(p) PROVE LabelInv'
  <2>1. KeepsLabels
    BY <1>30, MovedKeeps DEF InsertComment, KeepsLabels, TagPoint, Start, Decide, Begin,
       Goto, End, EndMoved, grants, labels, hist, TasksOK, TypesOK
  <2> QED
    BY <2>1, LabelsKept
<1>31. ASSUME NEW p \in Proc, DropComment(p) PROVE LabelInv'
  <2>1. KeepsLabels
    BY <1>31, MovedKeeps DEF DropComment, KeepsLabels, TagPoint, Start, Decide, Begin,
       Goto, End, EndMoved, grants, labels, hist, TasksOK, TypesOK
  <2> QED
    BY <2>1, LabelsKept
<1>32. ASSUME ResourceGoes PROVE LabelInv'
  <2>1. KeepsLabels
    BY <1>32, MovedKeeps DEF ResourceGoes, KeepsLabels, TagPoint, Start, Decide, Begin,
       Goto, End, EndMoved, grants, labels, hist, TasksOK, TypesOK
  <2> QED
    BY <2>1, LabelsKept
<1>33. ASSUME NEW p \in Proc, Stop(p) PROVE LabelInv'
  <2>1. KeepsLabels
    BY <1>33, MovedKeeps DEF Stop, KeepsLabels, TagPoint, Start, Decide, Begin, Goto, End,
       EndMoved, grants, labels, hist, TasksOK, TypesOK
  <2> QED
    BY <2>1, LabelsKept
<1>34. CASE UNCHANGED vars
  BY <1>34, LabelsKept DEF vars, KeepsLabels, grants, labels, hist
<1> QED
  BY <1>1, <1>2, <1>3, <1>4, <1>5, <1>6, <1>7, <1>8, <1>9, <1>10, <1>11, <1>12, <1>13,
     <1>14, <1>15, <1>16, <1>17, <1>18, <1>19, <1>20, <1>21, <1>22, <1>23, <1>24, <1>25,
     <1>26, <1>27, <1>28, <1>29, <1>30, <1>31, <1>32, <1>33, <1>34 DEF Next, Groups,
     Permissions, Tags, Remarks, GqlGroups, GqlDeleteGroup, GqlGrant, GqlRevoke,
     GqlCreateTag, GqlDeleteTag, GqlAttachTag, GqlDetachTag, GqlFavorite, GqlUnfavorite,
     GqlComment, GqlUncomment

-----------------------------------------------------------------------------
(***************************************************************************)
(* Grants.                                                                 *)
(***************************************************************************)
\* A grantee has one row, all the groups together one.
One == \A i, k \in Live(perm) : perm[i].to.to = perm[k].to.to => i = k

\* The row a revocation is about keeps its grantee, and is the only one of that grantee
\* unless a grant came in between.
Revoking == \A p \in Proc : pc[p] = "revoke" =>
    /\ job[p].on \in Perm /\ perm[job[p].on].st # "unborn" /\ perm[job[p].on].to = job[p].to
    /\ ~job[p].moved => \A i \in Live(perm) : perm[i].to = job[p].to => i = job[p].on

GrantInv == One /\ Revoking /\ RevokedIsEnded

\* A step that is quiet about grants.
KeepsGrants ==
    /\ UNCHANGED <<perm, ended>>
    /\ \A q \in Proc : pc'[q] = "revoke" =>
         /\ pc[q] = "revoke" /\ job'[q].on = job[q].on /\ job'[q].to = job[q].to
         /\ job[q].moved => job'[q].moved

\* A quiet step keeps the invariant of the grants.
LEMMA GrantsKept ==
    ASSUME GrantInv, KeepsGrants
    PROVE  GrantInv'
  BY DEF GrantInv, KeepsGrants, One, Revoking, RevokedIsEnded, ListPermissions, Live

\* What the statement that writes a grant does to the rows.
LEMMA StoredRows ==
    ASSUME TypesOK, One, NEW to \in Grantee, NEW lv \in Action, NextId(perm) # {}, perm' = Stored(to, lv)
    PROVE  /\ \A i \in Perm : perm[i].st # "unborn" => perm'[i].st = perm[i].st /\ perm'[i].to = perm[i].to
           /\ \A i \in Live(perm)' : i \in Live(perm) \/ (perm'[i].to = to /\ Conflict(to) = {})
           /\ One'
<1>1. CASE Conflict(to) # {}
  <2>1. \A i \in Perm : perm'[i].st = perm[i].st /\ perm'[i].to = perm[i].to
    BY <1>1 DEF Stored, GrantsOK, TypesOK
  <2>2. DOMAIN perm = Perm /\ DOMAIN perm' = Perm
    BY <1>1 DEF Stored, GrantsOK, TypesOK
  <2> QED
    BY <2>1, <2>2 DEF Live, One
<1>2. CASE Conflict(to) = {}
  <2> DEFINE x == Min(NextId(perm))
  <2>1. x \in Perm /\ perm[x].st = "unborn"
    BY NextIdIn, AccessAssumption DEF Perm, GrantsOK, TypesOK
  <2>2. /\ perm'[x] = [st |-> "live", to |-> to, level |-> lv]
        /\ \A i \in Perm \ {x} : perm'[i] = perm[i]
        /\ DOMAIN perm' = Perm /\ DOMAIN perm = Perm
    BY <1>2, <2>1 DEF Stored, Add, GrantsOK, TypesOK
  <2> HIDE DEF x
  <2>3. \A i \in Live(perm)' : i = x \/ (i \in Live(perm) /\ i # x /\ perm'[i] = perm[i])
    BY <2>2 DEF Live
  <2>4. \A i \in Live(perm) : perm[i].to.to # to.to
    BY <1>2 DEF Conflict
  <2>5. One'
    BY <2>2, <2>3, <2>4 DEF One
  <2> QED
    BY <1>2, <2>1, <2>2, <2>3, <2>5
<1> QED
  BY <1>1, <1>2

\* Every step keeps it: AskRevoke reads the only row, InsertGrant says what came in between.
LEMMA GrantStep ==
    ASSUME TypesOK, GrantInv, [Next]_vars
    PROVE  GrantInv'
<1>1. ASSUME NEW t \in Token, NEW n \in Name, CreateGroup(t, n) PROVE GrantInv'
  <2>1. KeepsGrants
    BY <1>1, MovedKeeps DEF CreateGroup, KeepsGrants, Start, Decide, Begin, Goto, End,
       EndMoved, grants, labels, hist, TasksOK, TypesOK
  <2> QED
    BY <2>1, GrantsKept
<1>2. ASSUME NEW p \in Proc, NEW t \in Token, NEW g \in Group, DeleteGroup(p, t, g) PROVE GrantInv'
  <2>1. KeepsGrants
    BY <1>2, MovedKeeps DEF DeleteGroup, KeepsGrants, Start, Decide, Begin, Goto, End,
       EndMoved, grants, labels, hist, TasksOK, TypesOK
  <2> QED
    BY <2>1, GrantsKept
<1>3. ASSUME NEW t \in Token, NEW g \in Group, NEW u \in Token, AddMember(t, g, u) PROVE GrantInv'
  <2>1. KeepsGrants
    BY <1>3, MovedKeeps DEF AddMember, KeepsGrants, Start, Decide, Begin, Goto, End,
       EndMoved, grants, labels, hist, TasksOK, TypesOK
  <2> QED
    BY <2>1, GrantsKept
<1>4. ASSUME NEW t \in Token, NEW g \in Group, NEW u \in Token, RemoveMember(t, g, u) PROVE GrantInv'
  <2>1. KeepsGrants
    BY <1>4, MovedKeeps DEF RemoveMember, KeepsGrants, Start, Decide, Begin, Goto, End,
       EndMoved, grants, labels, hist, TasksOK, TypesOK
  <2> QED
    BY <2>1, GrantsKept
<1>5. ASSUME NEW p \in Proc, DropGroup(p) PROVE GrantInv'
  <2>1. KeepsGrants
    BY <1>5, MovedKeeps DEF DropGroup, KeepsGrants, Start, Decide, Begin, Goto, End,
       EndMoved, grants, labels, hist, TasksOK, TypesOK
  <2> QED
    BY <2>1, GrantsKept
<1>6. ASSUME NEW p \in Proc, NEW t \in Token, NEW u \in Token \cup {0}, NEW n \in Name, NEW lv \in Level, AskGrant(p, t, u, n, lv) PROVE GrantInv'
  <2>1. KeepsGrants
    BY <1>6, MovedKeeps DEF AskGrant, KeepsGrants, Start, Decide, Begin, Goto, End,
       EndMoved, grants, labels, hist, TasksOK, TypesOK
  <2> QED
    BY <2>1, GrantsKept
<1>7. ASSUME NEW p \in Proc, NEW t \in Token, NEW i \in Perm, AskRevoke(p, t, i) PROVE GrantInv'
  <2>1. UNCHANGED <<perm, ended>>
    BY <1>7 DEF AskRevoke, grants, hist
  <2>2. \A q \in Proc \ {p} : pc'[q] = pc[q] /\ job'[q] = job[q]
    BY <1>7 DEF AskRevoke, Begin, TasksOK, TypesOK
  <2>3. /\ pc'[p] = "revoke" /\ job'[p].on = i /\ job'[p].to = perm[i].to
        /\ i \in Live(perm)
    <3>1. Job(t) \in Jobs
      BY NoJobIn
    <3> QED
      BY <1>7, <3>1 DEF AskRevoke, Begin, TasksOK, GrantsOK, TypesOK, Jobs, Live
  <2>4. One' /\ RevokedIsEnded'
    BY <2>1 DEF GrantInv, One, RevokedIsEnded, ListPermissions, Live
  <2>5. Revoking'
    BY <2>1, <2>2, <2>3 DEF GrantInv, Revoking, One, Live
  <2> QED
    BY <2>4, <2>5 DEF GrantInv
<1>8. ASSUME NEW p \in Proc, FindGrantee(p) PROVE GrantInv'
  <2>1. KeepsGrants
    BY <1>8, MovedKeeps DEF FindGrantee, KeepsGrants, Start, Decide, Begin, Goto, End,
       EndMoved, grants, labels, hist, TasksOK, TypesOK
  <2> QED
    BY <2>1, GrantsKept
<1>9. ASSUME NEW p \in Proc, InsertGrant(p) PROVE GrantInv'
  <2> DEFINE to == job[p].to
             lv == job[p].level
  <2>1. to \in Grantee /\ lv \in Action
    BY JobAt DEF Jobs, TypesOK
  <2>2. perm' = Stored(to, lv) /\ NextId(perm) # {} /\ EndMoved(p, to)
    BY <1>9 DEF InsertGrant
  <2>3. ended' = IF to.to = 0 /\ Conflict(to) # {} THEN ended ELSE ended \ {to}
    BY <1>9 DEF InsertGrant
  <2>4. \A q \in Proc : pc'[q] = "revoke" =>
           /\ pc[q] = "revoke" /\ job'[q].on = job[q].on /\ job'[q].to = job[q].to
           /\ job[q].moved \/ job[q].to = to => job'[q].moved
    BY <2>2, MovedKeeps DEF EndMoved, TasksOK, TypesOK
  <2> HIDE DEF to, lv
  <2>5. /\ \A i \in Perm : perm[i].st # "unborn" => perm'[i].st = perm[i].st /\ perm'[i].to = perm[i].to
        /\ \A i \in Live(perm)' : i \in Live(perm) \/ (perm'[i].to = to /\ Conflict(to) = {})
        /\ One'
    BY <2>1, <2>2, StoredRows DEF GrantInv
  <2>6. Live(perm) \subseteq Perm /\ \A i \in Live(perm) : perm[i].st # "unborn"
    BY DEF Live, GrantsOK, TypesOK
  <2>7. Revoking'
    <3> SUFFICES ASSUME NEW q \in Proc, pc'[q] = "revoke"
                 PROVE  /\ job'[q].on \in Perm /\ perm'[job'[q].on].st # "unborn"
                        /\ perm'[job'[q].on].to = job'[q].to
                        /\ ~job'[q].moved =>
                              \A i \in Live(perm)' : perm'[i].to = job'[q].to => i = job'[q].on
      BY DEF Revoking
    <3>1. /\ job[q].on \in Perm /\ perm[job[q].on].st # "unborn" /\ perm[job[q].on].to = job[q].to
          /\ ~job[q].moved => \A i \in Live(perm) : perm[i].to = job[q].to => i = job[q].on
      BY <2>4 DEF GrantInv, Revoking
    <3> QED
      BY <3>1, <2>4, <2>5, <2>6
  <2>8. RevokedIsEnded'
    BY <2>3, <2>5, <2>6 DEF GrantInv, RevokedIsEnded, ListPermissions
  <2> QED
    BY <2>5, <2>7, <2>8 DEF GrantInv
<1>10. ASSUME NEW p \in Proc, DropGrant(p) PROVE GrantInv'
  <2> DEFINE x == job[p].on
             to == job[p].to
  <2>1. pc[p] = "revoke" /\ EndMoved(p, to) /\ perm' = Remove(perm, x)
    BY <1>10 DEF DropGrant
  <2>2. ended' = IF job[p].moved THEN ended ELSE ended \cup {to}
    BY <1>10 DEF DropGrant
  <2>3. \A q \in Proc : pc'[q] = "revoke" =>
           /\ pc[q] = "revoke" /\ job'[q].on = job[q].on /\ job'[q].to = job[q].to
           /\ job[q].moved => job'[q].moved
    BY <2>1, MovedKeeps DEF EndMoved, TasksOK, TypesOK
  <2>4. x \in Perm /\ (~job[p].moved => \A i \in Live(perm) : perm[i].to = to => i = x)
    BY <2>1 DEF GrantInv, Revoking
  <2>5. \A i \in Perm : perm'[i].to = perm[i].to /\ (perm[i].st # "unborn" => perm'[i].st # "unborn")
    BY <2>1, <2>4 DEF Remove, GrantsOK, TypesOK
  <2>6. \A i \in Live(perm)' : i \in Live(perm) /\ i # x /\ i \in Perm
    BY <2>1, <2>4 DEF Remove, Live, GrantsOK, TypesOK
  <2> HIDE DEF x, to
  <2>7. One'
    BY <2>5, <2>6 DEF GrantInv, One
  <2>8. Revoking'
    BY <2>3, <2>5, <2>6 DEF GrantInv, Revoking
  <2>9. RevokedIsEnded'
    BY <2>2, <2>4, <2>5, <2>6 DEF GrantInv, RevokedIsEnded, ListPermissions
  <2> QED
    BY <2>7, <2>8, <2>9 DEF GrantInv
<1>11. ASSUME NEW p \in Proc, NEW t \in Token, NEW a \in Action, CheckAccess(p, t, a) PROVE GrantInv'
  <2>1. KeepsGrants
    BY <1>11, MovedKeeps DEF CheckAccess, KeepsGrants, Start, Blind, Decide, Begin, Goto, End,
       EndMoved, grants, labels, hist, TasksOK, TypesOK
  <2> QED
    BY <2>1, GrantsKept
<1>12. ASSUME NEW p \in Proc, CheckDirect(p) PROVE GrantInv'
  <2>1. KeepsGrants
    BY <1>12, MovedKeeps DEF CheckDirect, KeepsGrants, Start, Blind, Decide, Begin, Goto, End,
       EndMoved, grants, labels, hist, TasksOK, TypesOK
  <2> QED
    BY <2>1, GrantsKept
<1>13. ASSUME NEW p \in Proc, CheckGroup(p) PROVE GrantInv'
  <2>1. KeepsGrants
    BY <1>13, MovedKeeps DEF CheckGroup, KeepsGrants, Start, Blind, Decide, Begin, Goto, End,
       EndMoved, grants, labels, hist, TasksOK, TypesOK
  <2> QED
    BY <2>1, GrantsKept
<1>14. ASSUME NEW p \in Proc, Answered(p) PROVE GrantInv'
  <2>1. KeepsGrants
    BY <1>14, MovedKeeps DEF Answered, KeepsGrants, Start, Decide, Begin, Goto, End,
       EndMoved, grants, labels, hist, TasksOK, TypesOK
  <2> QED
    BY <2>1, GrantsKept
<1>15. ASSUME NEW t \in Token, CreateTag(t) PROVE GrantInv'
  <2>1. KeepsGrants
    BY <1>15, MovedKeeps DEF CreateTag, KeepsGrants, Start, Decide, Begin, Goto, End,
       EndMoved, grants, labels, hist, TasksOK, TypesOK
  <2> QED
    BY <2>1, GrantsKept
<1>16. ASSUME NEW p \in Proc, NEW t \in Token, NEW i \in Tag, DeleteTag(p, t, i) PROVE GrantInv'
  <2>1. KeepsGrants
    BY <1>16, MovedKeeps DEF DeleteTag, KeepsGrants, Start, Decide, Begin, Goto, End,
       EndMoved, grants, labels, hist, TasksOK, TypesOK
  <2> QED
    BY <2>1, GrantsKept
<1>17. ASSUME NEW p \in Proc, NEW t \in Token, NEW i \in Tag, AttachTag(p, t, i) PROVE GrantInv'
  <2>1. KeepsGrants
    BY <1>17, MovedKeeps DEF AttachTag, KeepsGrants, Start, Decide, Begin, Goto, End,
       EndMoved, grants, labels, hist, TasksOK, TypesOK
  <2> QED
    BY <2>1, GrantsKept
<1>18. ASSUME NEW p \in Proc, NEW t \in Token, NEW l \in Label, DetachTag(p, t, l) PROVE GrantInv'
  <2>1. KeepsGrants
    BY <1>18, MovedKeeps DEF DetachTag, KeepsGrants, Start, Decide, Begin, Goto, End,
       EndMoved, grants, labels, hist, TasksOK, TypesOK
  <2> QED
    BY <2>1, GrantsKept
<1>19. ASSUME NEW p \in Proc, DropLabels(p) PROVE GrantInv'
  <2>1. KeepsGrants
    BY <1>19, MovedKeeps DEF DropLabels, KeepsGrants, Start, Decide, Begin, Goto, End,
       EndMoved, grants, labels, hist, TasksOK, TypesOK
  <2> QED
    BY <2>1, GrantsKept
<1>20. ASSUME NEW p \in Proc, DropTag(p) PROVE GrantInv'
  <2>1. KeepsGrants
    BY <1>20, MovedKeeps DEF DropTag, KeepsGrants, Start, Decide, Begin, Goto, End,
       EndMoved, grants, labels, hist, TasksOK, TypesOK
  <2> QED
    BY <2>1, GrantsKept
<1>21. ASSUME NEW p \in Proc, ResourceExists(p) PROVE GrantInv'
  <2>1. KeepsGrants
    BY <1>21, MovedKeeps DEF ResourceExists, KeepsGrants, Start, Decide, Begin, Goto, End,
       EndMoved, grants, labels, hist, TasksOK, TypesOK
  <2> QED
    BY <2>1, GrantsKept
<1>22. ASSUME NEW p \in Proc, InsertLabel(p) PROVE GrantInv'
  <2>1. KeepsGrants
    BY <1>22, MovedKeeps DEF InsertLabel, KeepsGrants, Start, Decide, Begin, Goto, End,
       EndMoved, grants, labels, hist, TasksOK, TypesOK
  <2> QED
    BY <2>1, GrantsKept
<1>23. ASSUME NEW p \in Proc, DropLabel(p) PROVE GrantInv'
  <2>1. KeepsGrants
    BY <1>23, MovedKeeps DEF DropLabel, KeepsGrants, Start, Decide, Begin, Goto, End,
       EndMoved, grants, labels, hist, TasksOK, TypesOK
  <2> QED
    BY <2>1, GrantsKept
<1>24. ASSUME NEW p \in Proc, NEW t \in Token, AddFavorite(p, t) PROVE GrantInv'
  <2>1. KeepsGrants
    BY <1>24, MovedKeeps DEF AddFavorite, KeepsGrants, Start, Decide, Begin, Goto, End,
       EndMoved, grants, labels, hist, TasksOK, TypesOK
  <2> QED
    BY <2>1, GrantsKept
<1>25. ASSUME NEW p \in Proc, NEW t \in Token, CreateComment(p, t) PROVE GrantInv'
  <2>1. KeepsGrants
    BY <1>25, MovedKeeps DEF CreateComment, KeepsGrants, Start, Decide, Begin, Goto, End,
       EndMoved, grants, labels, hist, TasksOK, TypesOK
  <2> QED
    BY <2>1, GrantsKept
<1>26. ASSUME NEW p \in Proc, NEW t \in Token, NEW f \in Favorite, RemoveFavorite(p, t, f) PROVE GrantInv'
  <2>1. KeepsGrants
    BY <1>26, MovedKeeps DEF RemoveFavorite, KeepsGrants, Start, Decide, Begin, Goto, End,
       EndMoved, grants, labels, hist, TasksOK, TypesOK
  <2> QED
    BY <2>1, GrantsKept
<1>27. ASSUME NEW p \in Proc, NEW t \in Token, NEW c \in Comment, DeleteComment(p, t, c) PROVE GrantInv'
  <2>1. KeepsGrants
    BY <1>27, MovedKeeps DEF DeleteComment, KeepsGrants, Start, Decide, Begin, Goto, End,
       EndMoved, grants, labels, hist, TasksOK, TypesOK
  <2> QED
    BY <2>1, GrantsKept
<1>28. ASSUME NEW p \in Proc, InsertFavorite(p) PROVE GrantInv'
  <2>1. KeepsGrants
    BY <1>28, MovedKeeps DEF InsertFavorite, KeepsGrants, Start, Decide, Begin, Goto, End,
       EndMoved, grants, labels, hist, TasksOK, TypesOK
  <2> QED
    BY <2>1, GrantsKept
<1>29. ASSUME NEW p \in Proc, DropFavorite(p) PROVE GrantInv'
  <2>1. KeepsGrants
    BY <1>29, MovedKeeps DEF DropFavorite, KeepsGrants, Start, Decide, Begin, Goto, End,
       EndMoved, grants, labels, hist, TasksOK, TypesOK
  <2> QED
    BY <2>1, GrantsKept
<1>30. ASSUME NEW p \in Proc, InsertComment(p) PROVE GrantInv'
  <2>1. KeepsGrants
    BY <1>30, MovedKeeps DEF InsertComment, KeepsGrants, Start, Decide, Begin, Goto, End,
       EndMoved, grants, labels, hist, TasksOK, TypesOK
  <2> QED
    BY <2>1, GrantsKept
<1>31. ASSUME NEW p \in Proc, DropComment(p) PROVE GrantInv'
  <2>1. KeepsGrants
    BY <1>31, MovedKeeps DEF DropComment, KeepsGrants, Start, Decide, Begin, Goto, End,
       EndMoved, grants, labels, hist, TasksOK, TypesOK
  <2> QED
    BY <2>1, GrantsKept
<1>32. ASSUME ResourceGoes PROVE GrantInv'
  <2>1. KeepsGrants
    BY <1>32, MovedKeeps DEF ResourceGoes, KeepsGrants, Start, Decide, Begin, Goto, End,
       EndMoved, grants, labels, hist, TasksOK, TypesOK
  <2> QED
    BY <2>1, GrantsKept
<1>33. ASSUME NEW p \in Proc, Stop(p) PROVE GrantInv'
  <2>1. KeepsGrants
    BY <1>33, MovedKeeps DEF Stop, KeepsGrants, Start, Decide, Begin, Goto, End, EndMoved,
       grants, labels, hist, TasksOK, TypesOK
  <2> QED
    BY <2>1, GrantsKept
<1>34. CASE UNCHANGED vars
  BY <1>34, GrantsKept DEF vars, KeepsGrants, grants, labels, hist
<1> QED
  BY <1>1, <1>2, <1>3, <1>4, <1>5, <1>6, <1>7, <1>8, <1>9, <1>10, <1>11, <1>12, <1>13,
     <1>14, <1>15, <1>16, <1>17, <1>18, <1>19, <1>20, <1>21, <1>22, <1>23, <1>24, <1>25,
     <1>26, <1>27, <1>28, <1>29, <1>30, <1>31, <1>32, <1>33, <1>34 DEF Next, Groups,
     Permissions, Tags, Remarks, GqlGroups, GqlDeleteGroup, GqlGrant, GqlRevoke,
     GqlCreateTag, GqlDeleteTag, GqlAttachTag, GqlDetachTag, GqlFavorite, GqlUnfavorite,
     GqlComment, GqlUncomment

-----------------------------------------------------------------------------
(***************************************************************************)
(* Groups.                                                                 *)
(***************************************************************************)
\* A grant is to a group that was made; so is one that is about to be written.
Born == \A i \in Live(perm) : perm[i].to.group \in Group => group[perm[i].to.group].st # "unborn"
Named == \A p \in Proc :
    /\ pc[p] = "whom" => job[p].to.group = 0
    /\ pc[p] = "grant" /\ job[p].to.group \in Group => group[job[p].to.group].st # "unborn"

\* Who is in a group that is gone, or loses its members, was put in too late.
Late == \A m \in member : group[m[1]].st = "gone" => m[1] \in late
Emptied == \A p \in Proc : pc[p] = "ungroup" => \A m \in member : m[1] = job[p].on => m[1] \in late

GroupInv == Born /\ Named /\ Late /\ Emptied

\* The invariant of the groups says what is asked.
LEMMA GroupInvDead ==
    ASSUME TypesOK, GroupInv
    PROVE  DeadGroupGrantsNothingUnlessAdded
<1> SUFFICES ASSUME NEW t \in Token, NEW i \in Through(t)
             PROVE  perm[i].to.group \in ListGroups \cup late
  BY DEF DeadGroupGrantsNothingUnlessAdded
<1> DEFINE g == perm[i].to.group
<1>1. i \in Live(perm) /\ <<g, t>> \in member /\ g \in Group
  BY DEF Through, GrantsOK, TypesOK
<1>2. group[g].st \in {"live", "gone"}
  BY <1>1 DEF GroupInv, Born, GrantsOK, TypesOK, Status
<1>3. group[g].st = "gone" => g \in late
  BY <1>1 DEF GroupInv, Late
<1>4. group[g].st = "live" => g \in ListGroups
  BY <1>1 DEF ListGroups, Live, GrantsOK, TypesOK
<1> QED
  BY <1>2, <1>3, <1>4

\* A step that is quiet about groups.
KeepsGroups ==
    /\ UNCHANGED <<group, member, perm, late>>
    /\ \A q \in Proc : /\ pc'[q] = "ungroup" => pc[q] = "ungroup" /\ job'[q].on = job[q].on
                       /\ pc'[q] \in {"whom", "grant"} => pc'[q] = pc[q] /\ job'[q].to = job[q].to

\* A quiet step keeps the invariant of the groups.
LEMMA GroupsKept ==
    ASSUME GroupInv, KeepsGroups
    PROVE  GroupInv'
<1>1. Born' /\ Late'
  BY DEF GroupInv, KeepsGroups, Born, Late, Live
<1>2. Named'
  BY DEF GroupInv, KeepsGroups, Named
<1>3. Emptied'
  BY DEF GroupInv, KeepsGroups, Emptied
<1> QED
  BY <1>1, <1>2, <1>3 DEF GroupInv

\* Every step keeps it: DeleteGroup empties the group, AddMember is why late is there.
LEMMA GroupStep ==
    ASSUME TypesOK, GrantInv, GroupInv, [Next]_vars
    PROVE  GroupInv'
<1>1. ASSUME NEW t \in Token, NEW n \in Name, CreateGroup(t, n) PROVE GroupInv'
  <2>1. UNCHANGED <<member, perm, late, pc, job>>
    BY <1>1 DEF CreateGroup, hist
  <2>2. \A g \in Group : /\ group[g].st # "unborn" => group'[g] = group[g]
    <3>1. CASE group' = group
      BY <3>1
    <3>2. CASE group' = Add(group, [st |-> "live", name |-> n])
      BY <1>1, <3>2, NextIdIn, AccessAssumption DEF CreateGroup, Add, Group, GrantsOK,
         TypesOK
    <3> QED
      BY <1>1, <3>1, <3>2 DEF CreateGroup
  <2>3. \A g \in Group : group'[g].st = "gone" => group[g].st = "gone"
    <3>1. CASE group' = group
      BY <3>1
    <3>2. CASE group' = Add(group, [st |-> "live", name |-> n])
      BY <1>1, <3>2, NextIdIn, AccessAssumption DEF CreateGroup, Add, Group, GrantsOK,
         TypesOK
    <3> QED
      BY <1>1, <3>1, <3>2 DEF CreateGroup
  <2>4. \A m \in member : m[1] \in Group
    BY DEF GrantsOK, TypesOK
  <2>5. Born'
    BY <2>1, <2>2 DEF GroupInv, Born, Live
  <2>6. Named'
    BY <2>1, <2>2 DEF GroupInv, Named
  <2>7. Late'
    BY <2>1, <2>3, <2>4 DEF GroupInv, Late
  <2>8. Emptied'
    BY <2>1 DEF GroupInv, Emptied
  <2> QED
    BY <2>5, <2>6, <2>7, <2>8 DEF GroupInv
<1>2. ASSUME NEW p \in Proc, NEW t \in Token, NEW g \in Group, DeleteGroup(p, t, g) PROVE GroupInv'
  <2>1. UNCHANGED <<group, perm, late>> /\ member' = {m \in member : m[1] # g}
    BY <1>2 DEF DeleteGroup, hist
  <2>2. pc'[p] = "ungroup" /\ job'[p].on = g
    <3>1. Job(t) \in Jobs
      BY NoJobIn
    <3>2. Moved(Nobody) \in [Proc -> Jobs]
      BY MovedIn DEF TypesOK
    <3> QED
      BY <1>2, <3>1, <3>2 DEF DeleteGroup, TasksOK, TypesOK, Jobs
  <2>3. \A q \in Proc \ {p} : pc'[q] = pc[q] /\ job'[q].on = job[q].on /\ job'[q].to = job[q].to
    BY <1>2, MovedKeeps DEF DeleteGroup, TasksOK, TypesOK
  <2>4. Born' /\ Late'
    BY <2>1 DEF GroupInv, Born, Late, Live
  <2>5. Named'
    BY <2>1, <2>2, <2>3 DEF GroupInv, Named
  <2>6. Emptied'
    BY <2>1, <2>2, <2>3 DEF GroupInv, Emptied
  <2> QED
    BY <2>4, <2>5, <2>6 DEF GroupInv
<1>3. ASSUME NEW t \in Token, NEW g \in Group, NEW u \in Token, AddMember(t, g, u) PROVE GroupInv'
  <2>1. UNCHANGED <<group, perm, pc>> /\ member' = member \cup {<<g, u>>}
    BY <1>3 DEF AddMember
  <2>2. /\ late \subseteq late'
        /\ group[g].st = "gone" \/ (\E q \in Proc : pc[q] = "ungroup" /\ job[q].on = g) => g \in late'
    BY <1>3 DEF AddMember
  <2>3. \A q \in Proc : job'[q].on = job[q].on /\ job'[q].to = job[q].to
    BY <1>3, MovedKeeps DEF AddMember, TypesOK
  <2>4. \A m \in member' : m \in member \/ m[1] = g
    BY <2>1
  <2>5. Born' /\ Late'
    BY <2>1, <2>2, <2>4 DEF GroupInv, Born, Late, Live
  <2>6. Named'
    BY <2>1, <2>3 DEF GroupInv, Named
  <2>7. Emptied'
    BY <2>1, <2>2, <2>3, <2>4 DEF GroupInv, Emptied
  <2> QED
    BY <2>5, <2>6, <2>7 DEF GroupInv
<1>4. ASSUME NEW t \in Token, NEW g \in Group, NEW u \in Token, RemoveMember(t, g, u) PROVE GroupInv'
  <2>1. UNCHANGED <<group, perm, pc, late>> /\ member' \subseteq member
    BY <1>4 DEF RemoveMember, hist
  <2>2. \A q \in Proc : job'[q].on = job[q].on /\ job'[q].to = job[q].to
    BY <1>4, MovedKeeps DEF RemoveMember, TypesOK
  <2>3. Born' /\ Late'
    BY <2>1 DEF GroupInv, Born, Late, Live
  <2>4. Named'
    BY <2>1, <2>2 DEF GroupInv, Named
  <2>5. Emptied'
    BY <2>1, <2>2 DEF GroupInv, Emptied
  <2> QED
    BY <2>3, <2>4, <2>5 DEF GroupInv
<1>5. ASSUME NEW p \in Proc, DropGroup(p) PROVE GroupInv'
  <2> DEFINE x == job[p].on
  <2>1. UNCHANGED <<perm, member, late>> /\ group' = Remove(group, x) /\ pc[p] = "ungroup"
    BY <1>5 DEF DropGroup, hist
  <2>2. \A q \in Proc : pc'[q] # "idle" => pc'[q] = pc[q] /\ job'[q] = job[q]
    BY <1>5 DEF DropGroup, End, Goto, TasksOK, TypesOK
  <2>3. \A g \in Group : group[g].st # "unborn" => group'[g].st # "unborn"
    BY <2>1 DEF Remove, GrantsOK, TypesOK
  <2>4. \A g \in Group : group'[g].st = "gone" => group[g].st = "gone" \/ g = x
    BY <2>1 DEF Remove, GrantsOK, TypesOK
  <2>5. \A m \in member : m[1] \in Group
    BY DEF GrantsOK, TypesOK
  <2>6. \A m \in member : m[1] = x => m[1] \in late
    BY <2>1 DEF GroupInv, Emptied
  <2>7. Born'
    BY <2>1, <2>3 DEF GroupInv, Born, Live
  <2>8. Late'
    BY <2>1, <2>4, <2>5, <2>6 DEF GroupInv, Late
  <2>9. Named'
    BY <2>2, <2>3 DEF GroupInv, Named
  <2>10. Emptied'
    BY <2>1, <2>2 DEF GroupInv, Emptied
  <2> QED
    BY <2>7, <2>8, <2>9, <2>10 DEF GroupInv
<1>6. ASSUME NEW p \in Proc, NEW t \in Token, NEW u \in Token \cup {0}, NEW n \in Name, NEW lv \in Level, AskGrant(p, t, u, n, lv) PROVE GroupInv'
  <2>1. UNCHANGED <<group, member, perm, late>>
    BY <1>6 DEF AskGrant, grants, hist
  <2>2. pc'[p] = "whom" /\ job'[p].to.group = 0
    <3>1. Job(t) \in Jobs /\ Job(t).to = Nobody
      BY NoJobIn DEF Job, NoJob
    <3>2. [Job(t) EXCEPT !.to.to = u, !.name = n, !.level = lv].to.group = 0
      BY <3>1 DEF Jobs, Nobody
    <3> QED
      BY <1>6, <3>2 DEF AskGrant, Begin, TasksOK, TypesOK
  <2>3. \A q \in Proc \ {p} : pc'[q] = pc[q] /\ job'[q] = job[q]
    BY <1>6 DEF AskGrant, Begin, TasksOK, TypesOK
  <2>4. Born' /\ Late'
    BY <2>1 DEF GroupInv, Born, Late, Live
  <2>5. Named'
    BY <2>1, <2>2, <2>3 DEF GroupInv, Named
  <2>6. Emptied'
    BY <2>1, <2>2, <2>3 DEF GroupInv, Emptied
  <2> QED
    BY <2>4, <2>5, <2>6 DEF GroupInv
<1>7. ASSUME NEW p \in Proc, NEW t \in Token, NEW i \in Perm, AskRevoke(p, t, i) PROVE GroupInv'
  <2>1. KeepsGroups
    BY <1>7, MovedKeeps DEF AskRevoke, KeepsGroups, Start, Decide, Begin, Goto, End,
       EndMoved, grants, labels, hist, TasksOK, TypesOK
  <2> QED
    BY <2>1, GroupsKept
<1>8. ASSUME NEW p \in Proc, FindGrantee(p) PROVE GroupInv'
  <2>1. UNCHANGED <<group, member, perm, late>>
    BY <1>8 DEF FindGrantee, grants, hist
  <2>2. pc[p] = "whom" /\ job[p].to.group = 0
    BY <1>8 DEF FindGrantee, GroupInv, Named
  <2>3. \/ pc'[p] = "idle"
        \/ pc'[p] = "grant" /\ job'[p] = job[p]
        \/ pc'[p] = "grant" /\ \E g \in Live(group) : job'[p].to.group = g
    <3>1. job[p] \in Jobs
      BY JobAt DEF TypesOK
    <3>2. \A g \in Group : [job[p] EXCEPT !.to.group = g].to.group = g
      BY <3>1 DEF Jobs, Grantee
    <3>3. Live(group) \subseteq Group
      BY DEF Live, GrantsOK, TypesOK
    <3>4. CASE End(p)
      BY <3>4 DEF End, Goto, TasksOK, TypesOK
    <3>5. CASE Goto(p, "grant", job[p])
      BY <3>5 DEF Goto, TasksOK, TypesOK
    <3>6. ASSUME NEW g \in Live(group), Goto(p, "grant", [job[p] EXCEPT !.to.group = g])
          PROVE  pc'[p] = "grant" /\ job'[p].to.group = g
      BY <3>2, <3>3, <3>6 DEF Goto, TasksOK, TypesOK
    <3> QED
      BY <1>8, <3>4, <3>5, <3>6 DEF FindGrantee
  <2>4. \A q \in Proc \ {p} : pc'[q] = pc[q] /\ job'[q] = job[q]
    BY <1>8 DEF FindGrantee, Goto, End, TasksOK, TypesOK
  <2>5. Born' /\ Late'
    BY <2>1 DEF GroupInv, Born, Late, Live
  <2>6. 0 \notin Group /\ \A g \in Live(group) : group[g].st # "unborn"
    BY AccessAssumption DEF Group, Live
  <2>7. Named'
    <3> SUFFICES ASSUME NEW q \in Proc
                 PROVE  /\ pc'[q] = "whom" => job'[q].to.group = 0
                        /\ pc'[q] = "grant" /\ job'[q].to.group \in Group =>
                             group[job'[q].to.group].st # "unborn"
      BY <2>1 DEF Named
    <3>1. CASE q = p
      BY <3>1, <2>2, <2>3, <2>6
    <3>2. CASE q # p
      BY <3>2, <2>4 DEF GroupInv, Named
    <3> QED
      BY <3>1, <3>2
  <2>8. Emptied'
    BY <2>1, <2>3, <2>4 DEF GroupInv, Emptied
  <2> QED
    BY <2>5, <2>7, <2>8 DEF GroupInv
<1>9. ASSUME NEW p \in Proc, InsertGrant(p) PROVE GroupInv'
  <2> DEFINE to == job[p].to
             lv == job[p].level
  <2>1. UNCHANGED <<group, member, late>> /\ pc[p] = "grant"
    BY <1>9 DEF InsertGrant
  <2>2. perm' = Stored(to, lv) /\ NextId(perm) # {} /\ EndMoved(p, to)
    BY <1>9 DEF InsertGrant
  <2>3. to \in Grantee /\ lv \in Action
    BY JobAt DEF Jobs, TypesOK
  <2>4. to.group \in Group => group[to.group].st # "unborn"
    BY <2>1 DEF GroupInv, Named
  <2>5. \A q \in Proc : pc'[q] # "idle" => pc'[q] = pc[q] /\ job'[q].on = job[q].on /\ job'[q].to = job[q].to
    BY <2>2, MovedKeeps DEF EndMoved, TasksOK, TypesOK
  <2> HIDE DEF to, lv
  <2>6. /\ \A i \in Perm : perm[i].st # "unborn" => perm'[i].st = perm[i].st /\ perm'[i].to = perm[i].to
        /\ \A i \in Live(perm)' : i \in Live(perm) \/ (perm'[i].to = to /\ Conflict(to) = {})
    BY <2>2, <2>3, StoredRows DEF GrantInv
  <2>7. Live(perm) \subseteq Perm /\ \A i \in Live(perm) : perm[i].st # "unborn"
    BY DEF Live, GrantsOK, TypesOK
  <2>8. Born'
    BY <2>1, <2>4, <2>6, <2>7 DEF GroupInv, Born
  <2>9. Named'
    BY <2>1, <2>5 DEF GroupInv, Named
  <2>10. Late' /\ Emptied'
    BY <2>1, <2>5 DEF GroupInv, Late, Emptied
  <2> QED
    BY <2>8, <2>9, <2>10 DEF GroupInv
<1>10. ASSUME NEW p \in Proc, DropGrant(p) PROVE GroupInv'
  <2>1. UNCHANGED <<group, member, late>>
    BY <1>10 DEF DropGrant
  <2>2. \A i \in Live(perm)' : i \in Live(perm) /\ perm'[i].to = perm[i].to
    BY <1>10 DEF DropGrant, Remove, Live, GrantsOK, TypesOK
  <2>3. \A q \in Proc : pc'[q] # "idle" => pc'[q] = pc[q] /\ job'[q].on = job[q].on /\ job'[q].to = job[q].to
    BY <1>10, MovedKeeps DEF DropGrant, EndMoved, TasksOK, TypesOK
  <2>4. Born'
    BY <2>1, <2>2 DEF GroupInv, Born
  <2>5. Named'
    BY <2>1, <2>3 DEF GroupInv, Named
  <2>6. Late' /\ Emptied'
    BY <2>1, <2>3 DEF GroupInv, Late, Emptied
  <2> QED
    BY <2>4, <2>5, <2>6 DEF GroupInv
<1>11. ASSUME NEW p \in Proc, NEW t \in Token, NEW a \in Action, CheckAccess(p, t, a) PROVE GroupInv'
  <2>1. KeepsGroups
    BY <1>11, MovedKeeps DEF CheckAccess, KeepsGroups, Start, Blind, Decide, Begin, Goto, End,
       EndMoved, grants, labels, hist, TasksOK, TypesOK
  <2> QED
    BY <2>1, GroupsKept
<1>12. ASSUME NEW p \in Proc, CheckDirect(p) PROVE GroupInv'
  <2>1. KeepsGroups
    BY <1>12, MovedKeeps DEF CheckDirect, KeepsGroups, Start, Blind, Decide, Begin, Goto, End,
       EndMoved, grants, labels, hist, TasksOK, TypesOK
  <2> QED
    BY <2>1, GroupsKept
<1>13. ASSUME NEW p \in Proc, CheckGroup(p) PROVE GroupInv'
  <2>1. KeepsGroups
    BY <1>13, MovedKeeps DEF CheckGroup, KeepsGroups, Start, Blind, Decide, Begin, Goto, End,
       EndMoved, grants, labels, hist, TasksOK, TypesOK
  <2> QED
    BY <2>1, GroupsKept
<1>14. ASSUME NEW p \in Proc, Answered(p) PROVE GroupInv'
  <2>1. KeepsGroups
    BY <1>14, MovedKeeps DEF Answered, KeepsGroups, Start, Decide, Begin, Goto, End,
       EndMoved, grants, labels, hist, TasksOK, TypesOK
  <2> QED
    BY <2>1, GroupsKept
<1>15. ASSUME NEW t \in Token, CreateTag(t) PROVE GroupInv'
  <2>1. KeepsGroups
    BY <1>15, MovedKeeps DEF CreateTag, KeepsGroups, Start, Decide, Begin, Goto, End,
       EndMoved, grants, labels, hist, TasksOK, TypesOK
  <2> QED
    BY <2>1, GroupsKept
<1>16. ASSUME NEW p \in Proc, NEW t \in Token, NEW i \in Tag, DeleteTag(p, t, i) PROVE GroupInv'
  <2>1. KeepsGroups
    BY <1>16, MovedKeeps DEF DeleteTag, KeepsGroups, Start, Decide, Begin, Goto, End,
       EndMoved, grants, labels, hist, TasksOK, TypesOK
  <2> QED
    BY <2>1, GroupsKept
<1>17. ASSUME NEW p \in Proc, NEW t \in Token, NEW i \in Tag, AttachTag(p, t, i) PROVE GroupInv'
  <2>1. KeepsGroups
    BY <1>17, MovedKeeps DEF AttachTag, KeepsGroups, Start, Decide, Begin, Goto, End,
       EndMoved, grants, labels, hist, TasksOK, TypesOK
  <2> QED
    BY <2>1, GroupsKept
<1>18. ASSUME NEW p \in Proc, NEW t \in Token, NEW l \in Label, DetachTag(p, t, l) PROVE GroupInv'
  <2>1. KeepsGroups
    BY <1>18, MovedKeeps DEF DetachTag, KeepsGroups, Start, Decide, Begin, Goto, End,
       EndMoved, grants, labels, hist, TasksOK, TypesOK
  <2> QED
    BY <2>1, GroupsKept
<1>19. ASSUME NEW p \in Proc, DropLabels(p) PROVE GroupInv'
  <2>1. KeepsGroups
    BY <1>19, MovedKeeps DEF DropLabels, KeepsGroups, Start, Decide, Begin, Goto, End,
       EndMoved, grants, labels, hist, TasksOK, TypesOK
  <2> QED
    BY <2>1, GroupsKept
<1>20. ASSUME NEW p \in Proc, DropTag(p) PROVE GroupInv'
  <2>1. KeepsGroups
    BY <1>20, MovedKeeps DEF DropTag, KeepsGroups, Start, Decide, Begin, Goto, End,
       EndMoved, grants, labels, hist, TasksOK, TypesOK
  <2> QED
    BY <2>1, GroupsKept
<1>21. ASSUME NEW p \in Proc, ResourceExists(p) PROVE GroupInv'
  <2>1. KeepsGroups
    BY <1>21, MovedKeeps DEF ResourceExists, KeepsGroups, Start, Decide, Begin, Goto, End,
       EndMoved, grants, labels, hist, TasksOK, TypesOK
  <2> QED
    BY <2>1, GroupsKept
<1>22. ASSUME NEW p \in Proc, InsertLabel(p) PROVE GroupInv'
  <2>1. KeepsGroups
    BY <1>22, MovedKeeps DEF InsertLabel, KeepsGroups, Start, Decide, Begin, Goto, End,
       EndMoved, grants, labels, hist, TasksOK, TypesOK
  <2> QED
    BY <2>1, GroupsKept
<1>23. ASSUME NEW p \in Proc, DropLabel(p) PROVE GroupInv'
  <2>1. KeepsGroups
    BY <1>23, MovedKeeps DEF DropLabel, KeepsGroups, Start, Decide, Begin, Goto, End,
       EndMoved, grants, labels, hist, TasksOK, TypesOK
  <2> QED
    BY <2>1, GroupsKept
<1>24. ASSUME NEW p \in Proc, NEW t \in Token, AddFavorite(p, t) PROVE GroupInv'
  <2>1. KeepsGroups
    BY <1>24, MovedKeeps DEF AddFavorite, KeepsGroups, Start, Decide, Begin, Goto, End,
       EndMoved, grants, labels, hist, TasksOK, TypesOK
  <2> QED
    BY <2>1, GroupsKept
<1>25. ASSUME NEW p \in Proc, NEW t \in Token, CreateComment(p, t) PROVE GroupInv'
  <2>1. KeepsGroups
    BY <1>25, MovedKeeps DEF CreateComment, KeepsGroups, Start, Decide, Begin, Goto, End,
       EndMoved, grants, labels, hist, TasksOK, TypesOK
  <2> QED
    BY <2>1, GroupsKept
<1>26. ASSUME NEW p \in Proc, NEW t \in Token, NEW f \in Favorite, RemoveFavorite(p, t, f) PROVE GroupInv'
  <2>1. KeepsGroups
    BY <1>26, MovedKeeps DEF RemoveFavorite, KeepsGroups, Start, Decide, Begin, Goto, End,
       EndMoved, grants, labels, hist, TasksOK, TypesOK
  <2> QED
    BY <2>1, GroupsKept
<1>27. ASSUME NEW p \in Proc, NEW t \in Token, NEW c \in Comment, DeleteComment(p, t, c) PROVE GroupInv'
  <2>1. KeepsGroups
    BY <1>27, MovedKeeps DEF DeleteComment, KeepsGroups, Start, Decide, Begin, Goto, End,
       EndMoved, grants, labels, hist, TasksOK, TypesOK
  <2> QED
    BY <2>1, GroupsKept
<1>28. ASSUME NEW p \in Proc, InsertFavorite(p) PROVE GroupInv'
  <2>1. KeepsGroups
    BY <1>28, MovedKeeps DEF InsertFavorite, KeepsGroups, Start, Decide, Begin, Goto, End,
       EndMoved, grants, labels, hist, TasksOK, TypesOK
  <2> QED
    BY <2>1, GroupsKept
<1>29. ASSUME NEW p \in Proc, DropFavorite(p) PROVE GroupInv'
  <2>1. KeepsGroups
    BY <1>29, MovedKeeps DEF DropFavorite, KeepsGroups, Start, Decide, Begin, Goto, End,
       EndMoved, grants, labels, hist, TasksOK, TypesOK
  <2> QED
    BY <2>1, GroupsKept
<1>30. ASSUME NEW p \in Proc, InsertComment(p) PROVE GroupInv'
  <2>1. KeepsGroups
    BY <1>30, MovedKeeps DEF InsertComment, KeepsGroups, Start, Decide, Begin, Goto, End,
       EndMoved, grants, labels, hist, TasksOK, TypesOK
  <2> QED
    BY <2>1, GroupsKept
<1>31. ASSUME NEW p \in Proc, DropComment(p) PROVE GroupInv'
  <2>1. KeepsGroups
    BY <1>31, MovedKeeps DEF DropComment, KeepsGroups, Start, Decide, Begin, Goto, End,
       EndMoved, grants, labels, hist, TasksOK, TypesOK
  <2> QED
    BY <2>1, GroupsKept
<1>32. ASSUME ResourceGoes PROVE GroupInv'
  <2>1. KeepsGroups
    BY <1>32, MovedKeeps DEF ResourceGoes, KeepsGroups, Start, Decide, Begin, Goto, End,
       EndMoved, grants, labels, hist, TasksOK, TypesOK
  <2> QED
    BY <2>1, GroupsKept
<1>33. ASSUME NEW p \in Proc, Stop(p) PROVE GroupInv'
  <2>1. KeepsGroups
    BY <1>33, MovedKeeps DEF Stop, KeepsGroups, Start, Decide, Begin, Goto, End, EndMoved,
       grants, labels, hist, TasksOK, TypesOK
  <2> QED
    BY <2>1, GroupsKept
<1>34. CASE UNCHANGED vars
  BY <1>34, GroupsKept DEF vars, KeepsGroups, grants, labels, hist
<1> QED
  BY <1>1, <1>2, <1>3, <1>4, <1>5, <1>6, <1>7, <1>8, <1>9, <1>10, <1>11, <1>12, <1>13,
     <1>14, <1>15, <1>16, <1>17, <1>18, <1>19, <1>20, <1>21, <1>22, <1>23, <1>24, <1>25,
     <1>26, <1>27, <1>28, <1>29, <1>30, <1>31, <1>32, <1>33, <1>34 DEF Next, Groups,
     Permissions, Tags, Remarks, GqlGroups, GqlDeleteGroup, GqlGrant, GqlRevoke,
     GqlCreateTag, GqlDeleteTag, GqlAttachTag, GqlDetachTag, GqlFavorite, GqlUnfavorite,
     GqlComment, GqlUncomment

-----------------------------------------------------------------------------
(***************************************************************************)
(* Checks.                                                                 *)
(***************************************************************************)
CheckPoint == {"direct", "group", "answer"}

\* What a check that nothing disturbed has found so far still holds.
Checking == \A p \in Proc, t \in Token, a \in Action :
    ~job[p].moved /\ job[p].as = t /\ job[p].level = a =>
        /\ pc[p] \in {"direct", "group"} => t \notin Admins /\ res = "live" /\ t # Owner
        /\ pc[p] = "group" => job[p].blind \/ Direct(t) = {}
        /\ pc[p] = "answer" => IF job[p].blind THEN job[p].ok => Might(t, a) ELSE job[p].ok = Holds(t, a)

\* The invariant of the checks says what is asked.
LEMMA CheckingHolds == ASSUME TypesOK, Checking PROVE CheckHoldsUnlessMoved
<1>1. \A p \in Proc : job[p].as \in Token /\ job[p].level \in Action
  BY JobAt DEF Jobs, TypesOK
<1> QED
  BY <1>1 DEF Checking, CheckHoldsUnlessMoved, Right

\* A step that is quiet about what checks read.
KeepsChecks ==
    /\ UNCHANGED <<res, member, perm>>
    /\ \A q \in Proc : pc'[q] \in CheckPoint =>
         /\ pc'[q] = pc[q] /\ job'[q].as = job[q].as /\ job'[q].level = job[q].level
         /\ job'[q].ok = job[q].ok /\ job'[q].blind = job[q].blind
         /\ job[q].moved => job'[q].moved

\* A step that changes what a check reads says so to every check under way.
MovesChecks == \A q \in Proc : pc'[q] \in CheckPoint => job'[q].moved

\* Whether somebody has access is a matter of the resource, the members and the grants.
LEMMA HoldsKept ==
    ASSUME UNCHANGED <<res, member, perm>>
    PROVE  \A t, a : (Direct(t) = Direct(t)') /\ (Holds(t, a) = Holds(t, a)') /\ (Might(t, a) = Might(t, a)')
  BY DEF Holds, Might, Direct, Through, Live

\* A step that is quiet, or that says it is not, keeps the invariant of the checks.
LEMMA ChecksKept ==
    ASSUME Checking, KeepsChecks \/ MovesChecks
    PROVE  Checking'
<1>1. CASE MovesChecks
  BY <1>1 DEF MovesChecks, Checking, CheckPoint
<1>2. CASE KeepsChecks
  <2> SUFFICES ASSUME NEW q \in Proc, NEW t \in Token, NEW a \in Action,
                      ~job'[q].moved, job'[q].as = t, job'[q].level = a
               PROVE  /\ pc'[q] \in {"direct", "group"} => t \notin Admins /\ res' = "live" /\ t # Owner
                      /\ pc'[q] = "group" => job'[q].blind \/ Direct(t)' = {}
                      /\ pc'[q] = "answer" => IF job'[q].blind THEN job'[q].ok => Might(t, a)'
                                              ELSE job'[q].ok = Holds(t, a)'
    BY DEF Checking
  <2>1. CASE pc'[q] \notin CheckPoint
    BY <2>1 DEF CheckPoint
  <2>2. CASE pc'[q] \in CheckPoint
    <3>1. /\ pc'[q] = pc[q] /\ job[q].as = t /\ job[q].level = a
          /\ job'[q].ok = job[q].ok /\ job'[q].blind = job[q].blind /\ ~job[q].moved
      BY <1>2, <2>2 DEF KeepsChecks
    <3>2. res' = res /\ Direct(t) = Direct(t)' /\ Holds(t, a) = Holds(t, a)' /\ Might(t, a) = Might(t, a)'
      BY <1>2, HoldsKept DEF KeepsChecks
    <3> QED
      BY <3>1, <3>2 DEF Checking
  <2> QED
    BY <2>1, <2>2
<1> QED
  BY <1>1, <1>2

\* A statement of one check.
LEMMA CheckOne ==
    ASSUME Checking, NEW p \in Proc, UNCHANGED <<res, member, perm>>,
           \A q \in Proc \ {p} : pc'[q] = pc[q] /\ job'[q] = job[q],
           ~job'[p].moved =>
                             /\ pc'[p] \in {"direct", "group"} =>
                                   job'[p].as \notin Admins /\ res = "live" /\ job'[p].as # Owner
                             /\ pc'[p] = "group" => job'[p].blind \/ Direct(job'[p].as) = {}
                             /\ pc'[p] = "answer" => Right(job'[p])
    PROVE  Checking'
<1> SUFFICES ASSUME NEW q \in Proc, NEW t \in Token, NEW a \in Action,
                    ~job'[q].moved, job'[q].as = t, job'[q].level = a
             PROVE  /\ pc'[q] \in {"direct", "group"} => t \notin Admins /\ res' = "live" /\ t # Owner
                    /\ pc'[q] = "group" => job'[q].blind \/ Direct(t)' = {}
                    /\ pc'[q] = "answer" => IF job'[q].blind THEN job'[q].ok => Might(t, a)'
                                            ELSE job'[q].ok = Holds(t, a)'
  BY DEF Checking
<1>1. res' = res /\ Direct(t) = Direct(t)' /\ Holds(t, a) = Holds(t, a)' /\ Might(t, a) = Might(t, a)'
  BY HoldsKept
<1>2. CASE q = p
  BY <1>1, <1>2 DEF Right
<1>3. CASE q # p
  <2>1. pc'[q] = pc[q] /\ job'[q] = job[q]
    BY <1>3
  <2> QED
    BY <1>1, <2>1 DEF Checking
<1> QED
  BY <1>2, <1>3

\* Every step keeps it: what two statements read is what one would have read.
LEMMA CheckStep ==
    ASSUME TypesOK, One, Checking, [Next]_vars
    PROVE  Checking'
<1>1. ASSUME NEW t \in Token, NEW n \in Name, CreateGroup(t, n) PROVE Checking'
  <2>1. KeepsChecks
    BY <1>1, MovedKeeps DEF CreateGroup, KeepsChecks, CheckPoint, Start, Decide, Begin,
       Goto, End, EndMoved, grants, labels, hist, TasksOK, TypesOK
  <2> QED
    BY <2>1, ChecksKept
<1>2. ASSUME NEW p \in Proc, NEW t \in Token, NEW g \in Group, DeleteGroup(p, t, g) PROVE Checking'
  <2>1. MovesChecks
    BY <1>2, MovedKeeps DEF DeleteGroup, MovesChecks, CheckPoint, Start, EndMoved,
       TasksOK, TypesOK
  <2> QED
    BY <2>1, ChecksKept
<1>3. ASSUME NEW t \in Token, NEW g \in Group, NEW u \in Token, AddMember(t, g, u) PROVE Checking'
  <2>1. MovesChecks
    BY <1>3, MovedKeeps DEF AddMember, MovesChecks, CheckPoint, Start, EndMoved, TasksOK,
       TypesOK
  <2> QED
    BY <2>1, ChecksKept
<1>4. ASSUME NEW t \in Token, NEW g \in Group, NEW u \in Token, RemoveMember(t, g, u) PROVE Checking'
  <2>1. MovesChecks
    BY <1>4, MovedKeeps DEF RemoveMember, MovesChecks, CheckPoint, Start, EndMoved,
       TasksOK, TypesOK
  <2> QED
    BY <2>1, ChecksKept
<1>5. ASSUME NEW p \in Proc, DropGroup(p) PROVE Checking'
  <2>1. KeepsChecks
    BY <1>5, MovedKeeps DEF DropGroup, KeepsChecks, CheckPoint, Start, Decide, Begin,
       Goto, End, EndMoved, grants, labels, hist, TasksOK, TypesOK
  <2> QED
    BY <2>1, ChecksKept
<1>6. ASSUME NEW p \in Proc, NEW t \in Token, NEW u \in Token \cup {0}, NEW n \in Name, NEW lv \in Level, AskGrant(p, t, u, n, lv) PROVE Checking'
  <2>1. KeepsChecks
    BY <1>6, MovedKeeps DEF AskGrant, KeepsChecks, CheckPoint, Start, Decide, Begin, Goto,
       End, EndMoved, grants, labels, hist, TasksOK, TypesOK
  <2> QED
    BY <2>1, ChecksKept
<1>7. ASSUME NEW p \in Proc, NEW t \in Token, NEW i \in Perm, AskRevoke(p, t, i) PROVE Checking'
  <2>1. KeepsChecks
    BY <1>7, MovedKeeps DEF AskRevoke, KeepsChecks, CheckPoint, Start, Decide, Begin,
       Goto, End, EndMoved, grants, labels, hist, TasksOK, TypesOK
  <2> QED
    BY <2>1, ChecksKept
<1>8. ASSUME NEW p \in Proc, FindGrantee(p) PROVE Checking'
  <2>1. KeepsChecks
    BY <1>8, MovedKeeps DEF FindGrantee, KeepsChecks, CheckPoint, Start, Decide, Begin,
       Goto, End, EndMoved, grants, labels, hist, TasksOK, TypesOK
  <2> QED
    BY <2>1, ChecksKept
<1>9. ASSUME NEW p \in Proc, InsertGrant(p) PROVE Checking'
  <2>1. MovesChecks
    BY <1>9, MovedKeeps DEF InsertGrant, MovesChecks, CheckPoint, Start, EndMoved,
       TasksOK, TypesOK
  <2> QED
    BY <2>1, ChecksKept
<1>10. ASSUME NEW p \in Proc, DropGrant(p) PROVE Checking'
  <2>1. MovesChecks
    BY <1>10, MovedKeeps DEF DropGrant, MovesChecks, CheckPoint, Start, EndMoved, TasksOK,
       TypesOK
  <2> QED
    BY <2>1, ChecksKept
<1>11. ASSUME NEW p \in Proc, NEW t \in Token, NEW a \in Action, CheckAccess(p, t, a) PROVE Checking'
  <2>1. UNCHANGED <<res, member, perm>>
    BY <1>11 DEF CheckAccess, grants
  <2>2. \A q \in Proc \ {p} : pc'[q] = pc[q] /\ job'[q] = job[q]
    BY <1>11 DEF CheckAccess, Begin, Goto, Decide, Blind, TasksOK, TypesOK
  <2> DEFINE j == [Job(t) EXCEPT !.level = a]
             ok == t \in Admins \/ (res = "live" /\ t = Owner)
  <2>3. j \in Jobs /\ j.as = t /\ j.level = a /\ j.blind = FALSE /\ j.ok = FALSE
    <3>1. Job(t) \in Jobs /\ Job(t).as = t /\ Job(t).blind = FALSE /\ Job(t).ok = FALSE
      BY NoJobIn DEF Job, NoJob
    <3> QED
      BY <3>1 DEF Jobs
  <2>4. ASSUME ok \/ res # "live", Begin(p, "answer", [j EXCEPT !.ok = ok])
        PROVE  pc'[p] = "answer" /\ Right(job'[p])
    <3> DEFINE k == [j EXCEPT !.ok = ok]
    <3>1. k.as = t /\ k.level = a /\ k.ok = ok /\ k.blind = FALSE
      BY <2>3 DEF Jobs
    <3>2. pc'[p] = "answer" /\ job'[p] = k
      BY <2>4 DEF Begin, TasksOK, TypesOK
    <3>3. ok = Holds(t, a)
      BY <2>4 DEF Holds
    <3> QED
      BY <3>1, <3>2, <3>3 DEF Right
  <2>5. ASSUME ~ok /\ res = "live", Begin(p, "direct", j)
        PROVE  pc'[p] = "direct" /\ job'[p].as \notin Admins /\ res = "live" /\ job'[p].as # Owner
    <3>1. pc'[p] = "direct" /\ job'[p] = j
      BY <2>5 DEF Begin, TasksOK, TypesOK
    <3> QED
      BY <3>1, <2>3, <2>5
  <2>6. ASSUME Blind(p, "answer", j)
        PROVE  pc'[p] = "answer" /\ Right(job'[p])
    <3>1. pc'[p] = "answer" /\ job'[p] = [j EXCEPT !.blind = TRUE]
      BY <2>6 DEF Blind, TasksOK, TypesOK
    <3>2. job'[p].blind /\ job'[p].ok = FALSE
      BY <2>3, <3>1 DEF Jobs
    <3> QED
      BY <3>1, <3>2 DEF Right
  <2>9. ~job'[p].moved =>
        /\ pc'[p] \in {"direct", "group"} =>
              job'[p].as \notin Admins /\ res = "live" /\ job'[p].as # Owner
        /\ pc'[p] = "group" => job'[p].blind \/ Direct(job'[p].as) = {}
        /\ pc'[p] = "answer" => Right(job'[p])
    BY <1>11, <2>4, <2>5, <2>6 DEF CheckAccess
  <2> QED
    BY <2>1, <2>2, <2>9, CheckOne
<1>12. ASSUME NEW p \in Proc, CheckDirect(p) PROVE Checking'
  <2>1. UNCHANGED <<res, member, perm>>
    BY <1>12 DEF CheckDirect, grants
  <2>2. \A q \in Proc \ {p} : pc'[q] = pc[q] /\ job'[q] = job[q]
    BY <1>12 DEF CheckDirect, Begin, Goto, Decide, Blind, TasksOK, TypesOK
  <2>3. job[p] \in Jobs /\ pc[p] = "direct"
    BY <1>12, JobAt DEF CheckDirect, TypesOK
  <2>4. ASSUME Direct(job[p].as) = {}, Goto(p, "group", job[p]), ~job'[p].moved
        PROVE  /\ pc'[p] = "group" /\ job'[p].as \notin Admins /\ res = "live" /\ job'[p].as # Owner
               /\ Direct(job'[p].as) = {}
    <3>1. pc'[p] = "group" /\ job'[p] = job[p]
      BY <2>4 DEF Goto, TasksOK, TypesOK
    <3> QED
      BY <3>1, <2>3, <2>4 DEF Checking, Jobs
  <2>5. ASSUME NEW i \in Direct(job[p].as), Decide(p, job[p], CoveredBy(job[p].level, perm[i].level)), ~job'[p].moved
        PROVE  pc'[p] = "answer" /\ Right(job'[p])
    <3> DEFINE b == CoveredBy(job[p].level, perm[i].level)
               k == [job[p] EXCEPT !.ok = b]
    <3>1. k.ok = b /\ k.as = job[p].as /\ k.level = job[p].level /\ k.moved = job[p].moved
          /\ k.blind = job[p].blind
      BY <2>3 DEF Jobs
    <3>2. pc'[p] = "answer" /\ job'[p] = k
      BY <2>5 DEF Decide, Goto, TasksOK, TypesOK
    <3>3. \A x \in Direct(job[p].as) : x = i
      BY DEF One, Direct
    <3>4. job[p].as \notin Admins /\ res = "live" /\ job[p].as # Owner
      BY <2>3, <2>5, <3>1, <3>2 DEF Checking, Jobs
    <3>5. b \in BOOLEAN
      BY <2>3, CoveredByIn DEF Direct, Live, GrantsOK, TypesOK, Jobs
    <3>6. b = Holds(job[p].as, job[p].level) /\ (b => Might(job[p].as, job[p].level))
      BY <3>3, <3>4, <3>5 DEF Holds, Might
    <3> QED
      BY <3>1, <3>2, <3>6 DEF Right
  <2>6. ASSUME Blind(p, "group", job[p]), ~job'[p].moved
        PROVE  /\ pc'[p] = "group" /\ job'[p].as \notin Admins /\ res = "live" /\ job'[p].as # Owner
               /\ job'[p].blind
    <3>1. pc'[p] = "group" /\ job'[p] = [job[p] EXCEPT !.blind = TRUE]
      BY <2>6 DEF Blind, TasksOK, TypesOK
    <3>2. job'[p].as = job[p].as /\ job'[p].blind /\ job'[p].moved = job[p].moved
      BY <2>3, <3>1 DEF Jobs
    <3> QED
      BY <3>1, <3>2, <2>3, <2>6 DEF Checking, Jobs
  <2>9. ~job'[p].moved =>
        /\ pc'[p] \in {"direct", "group"} =>
              job'[p].as \notin Admins /\ res = "live" /\ job'[p].as # Owner
        /\ pc'[p] = "group" => job'[p].blind \/ Direct(job'[p].as) = {}
        /\ pc'[p] = "answer" => Right(job'[p])
    BY <1>12, <2>4, <2>5, <2>6 DEF CheckDirect
  <2> QED
    BY <2>1, <2>2, <2>9, CheckOne
<1>13. ASSUME NEW p \in Proc, CheckGroup(p) PROVE Checking'
  <2>1. UNCHANGED <<res, member, perm>>
    BY <1>13 DEF CheckGroup, grants
  <2>2. \A q \in Proc \ {p} : pc'[q] = pc[q] /\ job'[q] = job[q]
    BY <1>13 DEF CheckGroup, Begin, Goto, Decide, Blind, TasksOK, TypesOK
  <2>3. job[p] \in Jobs /\ pc[p] = "group"
    BY <1>13, JobAt DEF CheckGroup, TypesOK
  <2>4. ASSUME NEW b \in BOOLEAN, Decide(p, job[p], b), ~job'[p].moved,
               b = \E i \in Through(job[p].as) : CoveredBy(job[p].level, perm[i].level)
        PROVE  pc'[p] = "answer" /\ Right(job'[p])
    <3> DEFINE k == [job[p] EXCEPT !.ok = b]
    <3>1. k.ok = b /\ k.as = job[p].as /\ k.level = job[p].level /\ k.moved = job[p].moved
          /\ k.blind = job[p].blind
      BY <2>3 DEF Jobs
    <3>2. pc'[p] = "answer" /\ job'[p] = k
      BY <2>4 DEF Decide, Goto, TasksOK, TypesOK
    <3>3. /\ job[p].as \notin Admins /\ res = "live" /\ job[p].as # Owner
          /\ job[p].blind \/ Direct(job[p].as) = {}
      BY <2>3, <2>4, <3>1, <3>2 DEF Checking, Jobs
    <3>4. /\ b => Might(job[p].as, job[p].level)
          /\ ~job[p].blind => b = Holds(job[p].as, job[p].level)
      BY <2>4, <3>3 DEF Holds, Might
    <3> QED
      BY <3>1, <3>2, <3>4 DEF Right
  <2>5. \A i \in Through(job[p].as) :
           /\ CoveredBy(job[p].level, perm[i].level) \in BOOLEAN
           /\ \A x \in Through(job[p].as) : x = i
    BY <2>3, CoveredByIn DEF One, Through, Live, GrantsOK, TypesOK, Jobs
  <2>6. ASSUME Through(job[p].as) = {}, Decide(p, job[p], FALSE), ~job'[p].moved
        PROVE  pc'[p] = "answer" /\ Right(job'[p])
    BY <2>4, <2>6
  <2>7. ASSUME NEW i \in Through(job[p].as),
               Decide(p, job[p], CoveredBy(job[p].level, perm[i].level)), ~job'[p].moved
        PROVE  pc'[p] = "answer" /\ Right(job'[p])
    BY <2>4, <2>5, <2>7
  <2>8. ASSUME Blind(p, "answer", [job[p] EXCEPT !.ok = FALSE])
        PROVE  pc'[p] = "answer" /\ Right(job'[p])
    <3> DEFINE k == [job[p] EXCEPT !.ok = FALSE]
    <3>1. k \in Jobs /\ k.ok = FALSE
      BY <2>3 DEF Jobs
    <3>2. pc'[p] = "answer" /\ job'[p] = [k EXCEPT !.blind = TRUE]
      BY <2>8 DEF Blind, TasksOK, TypesOK
    <3> HIDE DEF k
    <3>3. job'[p].blind /\ job'[p].ok = FALSE
      BY <3>1, <3>2 DEF Jobs
    <3> QED
      BY <3>2, <3>3 DEF Right
  <2>9. ~job'[p].moved =>
        /\ pc'[p] \in {"direct", "group"} =>
              job'[p].as \notin Admins /\ res = "live" /\ job'[p].as # Owner
        /\ pc'[p] = "group" => job'[p].blind \/ Direct(job'[p].as) = {}
        /\ pc'[p] = "answer" => Right(job'[p])
    BY <1>13, <2>6, <2>7, <2>8 DEF CheckGroup
  <2> QED
    BY <2>1, <2>2, <2>9, CheckOne
<1>14. ASSUME NEW p \in Proc, Answered(p) PROVE Checking'
  <2>1. KeepsChecks
    BY <1>14, MovedKeeps DEF Answered, KeepsChecks, CheckPoint, Start, Decide, Begin,
       Goto, End, EndMoved, grants, labels, hist, TasksOK, TypesOK
  <2> QED
    BY <2>1, ChecksKept
<1>15. ASSUME NEW t \in Token, CreateTag(t) PROVE Checking'
  <2>1. KeepsChecks
    BY <1>15, MovedKeeps DEF CreateTag, KeepsChecks, CheckPoint, Start, Decide, Begin,
       Goto, End, EndMoved, grants, labels, hist, TasksOK, TypesOK
  <2> QED
    BY <2>1, ChecksKept
<1>16. ASSUME NEW p \in Proc, NEW t \in Token, NEW i \in Tag, DeleteTag(p, t, i) PROVE Checking'
  <2>1. KeepsChecks
    BY <1>16, MovedKeeps DEF DeleteTag, KeepsChecks, CheckPoint, Start, Decide, Begin,
       Goto, End, EndMoved, grants, labels, hist, TasksOK, TypesOK
  <2> QED
    BY <2>1, ChecksKept
<1>17. ASSUME NEW p \in Proc, NEW t \in Token, NEW i \in Tag, AttachTag(p, t, i) PROVE Checking'
  <2>1. KeepsChecks
    BY <1>17, MovedKeeps DEF AttachTag, KeepsChecks, CheckPoint, Start, Decide, Begin,
       Goto, End, EndMoved, grants, labels, hist, TasksOK, TypesOK
  <2> QED
    BY <2>1, ChecksKept
<1>18. ASSUME NEW p \in Proc, NEW t \in Token, NEW l \in Label, DetachTag(p, t, l) PROVE Checking'
  <2>1. KeepsChecks
    BY <1>18, MovedKeeps DEF DetachTag, KeepsChecks, CheckPoint, Start, Decide, Begin,
       Goto, End, EndMoved, grants, labels, hist, TasksOK, TypesOK
  <2> QED
    BY <2>1, ChecksKept
<1>19. ASSUME NEW p \in Proc, DropLabels(p) PROVE Checking'
  <2>1. KeepsChecks
    BY <1>19, MovedKeeps DEF DropLabels, KeepsChecks, CheckPoint, Start, Decide, Begin,
       Goto, End, EndMoved, grants, labels, hist, TasksOK, TypesOK
  <2> QED
    BY <2>1, ChecksKept
<1>20. ASSUME NEW p \in Proc, DropTag(p) PROVE Checking'
  <2>1. KeepsChecks
    BY <1>20, MovedKeeps DEF DropTag, KeepsChecks, CheckPoint, Start, Decide, Begin, Goto,
       End, EndMoved, grants, labels, hist, TasksOK, TypesOK
  <2> QED
    BY <2>1, ChecksKept
<1>21. ASSUME NEW p \in Proc, ResourceExists(p) PROVE Checking'
  <2>1. KeepsChecks
    BY <1>21, MovedKeeps DEF ResourceExists, KeepsChecks, CheckPoint, Start, Decide,
       Begin, Goto, End, EndMoved, grants, labels, hist, TasksOK, TypesOK
  <2> QED
    BY <2>1, ChecksKept
<1>22. ASSUME NEW p \in Proc, InsertLabel(p) PROVE Checking'
  <2>1. KeepsChecks
    BY <1>22, MovedKeeps DEF InsertLabel, KeepsChecks, CheckPoint, Start, Decide, Begin,
       Goto, End, EndMoved, grants, labels, hist, TasksOK, TypesOK
  <2> QED
    BY <2>1, ChecksKept
<1>23. ASSUME NEW p \in Proc, DropLabel(p) PROVE Checking'
  <2>1. KeepsChecks
    BY <1>23, MovedKeeps DEF DropLabel, KeepsChecks, CheckPoint, Start, Decide, Begin,
       Goto, End, EndMoved, grants, labels, hist, TasksOK, TypesOK
  <2> QED
    BY <2>1, ChecksKept
<1>24. ASSUME NEW p \in Proc, NEW t \in Token, AddFavorite(p, t) PROVE Checking'
  <2>1. KeepsChecks
    BY <1>24, MovedKeeps DEF AddFavorite, KeepsChecks, CheckPoint, Start, Decide, Begin,
       Goto, End, EndMoved, grants, labels, hist, TasksOK, TypesOK
  <2> QED
    BY <2>1, ChecksKept
<1>25. ASSUME NEW p \in Proc, NEW t \in Token, CreateComment(p, t) PROVE Checking'
  <2>1. KeepsChecks
    BY <1>25, MovedKeeps DEF CreateComment, KeepsChecks, CheckPoint, Start, Decide, Begin,
       Goto, End, EndMoved, grants, labels, hist, TasksOK, TypesOK
  <2> QED
    BY <2>1, ChecksKept
<1>26. ASSUME NEW p \in Proc, NEW t \in Token, NEW f \in Favorite, RemoveFavorite(p, t, f) PROVE Checking'
  <2>1. KeepsChecks
    BY <1>26, MovedKeeps DEF RemoveFavorite, KeepsChecks, CheckPoint, Start, Decide,
       Begin, Goto, End, EndMoved, grants, labels, hist, TasksOK, TypesOK
  <2> QED
    BY <2>1, ChecksKept
<1>27. ASSUME NEW p \in Proc, NEW t \in Token, NEW c \in Comment, DeleteComment(p, t, c) PROVE Checking'
  <2>1. KeepsChecks
    BY <1>27, MovedKeeps DEF DeleteComment, KeepsChecks, CheckPoint, Start, Decide, Begin,
       Goto, End, EndMoved, grants, labels, hist, TasksOK, TypesOK
  <2> QED
    BY <2>1, ChecksKept
<1>28. ASSUME NEW p \in Proc, InsertFavorite(p) PROVE Checking'
  <2>1. KeepsChecks
    BY <1>28, MovedKeeps DEF InsertFavorite, KeepsChecks, CheckPoint, Start, Decide,
       Begin, Goto, End, EndMoved, grants, labels, hist, TasksOK, TypesOK
  <2> QED
    BY <2>1, ChecksKept
<1>29. ASSUME NEW p \in Proc, DropFavorite(p) PROVE Checking'
  <2>1. KeepsChecks
    BY <1>29, MovedKeeps DEF DropFavorite, KeepsChecks, CheckPoint, Start, Decide, Begin,
       Goto, End, EndMoved, grants, labels, hist, TasksOK, TypesOK
  <2> QED
    BY <2>1, ChecksKept
<1>30. ASSUME NEW p \in Proc, InsertComment(p) PROVE Checking'
  <2>1. KeepsChecks
    BY <1>30, MovedKeeps DEF InsertComment, KeepsChecks, CheckPoint, Start, Decide, Begin,
       Goto, End, EndMoved, grants, labels, hist, TasksOK, TypesOK
  <2> QED
    BY <2>1, ChecksKept
<1>31. ASSUME NEW p \in Proc, DropComment(p) PROVE Checking'
  <2>1. KeepsChecks
    BY <1>31, MovedKeeps DEF DropComment, KeepsChecks, CheckPoint, Start, Decide, Begin,
       Goto, End, EndMoved, grants, labels, hist, TasksOK, TypesOK
  <2> QED
    BY <2>1, ChecksKept
<1>32. ASSUME ResourceGoes PROVE Checking'
  <2>1. MovesChecks
    BY <1>32, MovedKeeps DEF ResourceGoes, MovesChecks, CheckPoint, Start, EndMoved,
       TasksOK, TypesOK
  <2> QED
    BY <2>1, ChecksKept
<1>33. ASSUME NEW p \in Proc, Stop(p) PROVE Checking'
  <2>1. KeepsChecks
    BY <1>33, MovedKeeps DEF Stop, KeepsChecks, CheckPoint, Start, Decide, Begin, Goto,
       End, EndMoved, grants, labels, hist, TasksOK, TypesOK
  <2> QED
    BY <2>1, ChecksKept
<1>34. CASE UNCHANGED vars
  BY <1>34, ChecksKept DEF vars, KeepsChecks, grants, labels, hist
<1> QED
  BY <1>1, <1>2, <1>3, <1>4, <1>5, <1>6, <1>7, <1>8, <1>9, <1>10, <1>11, <1>12, <1>13,
     <1>14, <1>15, <1>16, <1>17, <1>18, <1>19, <1>20, <1>21, <1>22, <1>23, <1>24, <1>25,
     <1>26, <1>27, <1>28, <1>29, <1>30, <1>31, <1>32, <1>33, <1>34 DEF Next, Groups,
     Permissions, Tags, Remarks, GqlGroups, GqlDeleteGroup, GqlGrant, GqlRevoke,
     GqlCreateTag, GqlDeleteTag, GqlAttachTag, GqlDetachTag, GqlFavorite, GqlUnfavorite,
     GqlComment, GqlUncomment

-----------------------------------------------------------------------------
(***************************************************************************)
(* The theorems.                                                           *)
(***************************************************************************)
\* The inductive invariant.
IInv == TypesOK /\ LabelInv /\ GrantInv /\ GroupInv /\ Checking

\* The inductive invariant holds of a file with its group, grant, tag and label.
LEMMA IInvInit == Init => IInv
<1> SUFFICES ASSUME Init PROVE IInv
  OBVIOUS
<1>1. PICK n \in Name, m \in SUBSET Token, lv \in Level, t \in Token,
          to \in {[to |-> 0, group |-> 1]} \cup {[to |-> u, group |-> 0] : u \in Token} :
         /\ group = [g \in Group |-> [st |-> IF g = 1 THEN "live" ELSE "unborn", name |-> n]]
         /\ member = {1} \X (m \ (Admins \cup {Owner}))
         /\ perm = [i \in Perm |-> [st |-> IF i = 1 THEN "live" ELSE "unborn",
                                    to |-> to, level |-> lv]]
         /\ tag = [i \in Tag |-> [st |-> IF i = 1 THEN "live" ELSE "unborn", owner |-> t]]
         /\ favorite = [f \in Favorite |-> [st |-> IF f = 1 THEN "live" ELSE "unborn", owner |-> t]]
         /\ comment = [c \in Comment |-> [st |-> IF c = 1 THEN "live" ELSE "unborn", owner |-> t]]
  BY DEF Init
<1>2. 1 \in Group /\ 1 \in Perm /\ 1 \in Tag /\ lv \in Action
  BY AccessAssumption DEF Group, Perm, Tag, Action
<1>3. to \in Grantee
  BY <1>2 DEF Grantee
<1>4. TasksOK
  BY NoJobIn, AccessAssumption DEF Init, TasksOK, Point
<1>5. GrantsOK
  <2>1. group \in [Group -> [st : Status, name : Name]]
    BY <1>1 DEF Status
  <2>2. member \subseteq Group \X Token
    BY <1>1, <1>2
  <2>3. perm \in [Perm -> [st : Status, to : Grantee, level : Action]]
    BY <1>1, <1>2, <1>3 DEF Status
  <2> QED
    BY <2>1, <2>2, <2>3 DEF Init, GrantsOK
<1>6. LabelsOK
  BY <1>1, <1>2 DEF Init, LabelsOK, Status
<1>7. HistOK
  BY DEF Init, HistOK
<1>8. TypesOK
  BY <1>4, <1>5, <1>6, <1>7 DEF TypesOK
<1>9. \A p \in Proc : pc[p] = "idle"
  BY DEF Init
<1>10. LabelInv
  BY <1>1, <1>2, <1>9 DEF Init, LabelInv, Tagged, Bare, TagPoint,
     LabelsAreListedUnlessRaced,
                          ListResourceTags, Live
<1>11. GrantInv
  BY <1>1, <1>9 DEF Init, GrantInv, One, Revoking, RevokedIsEnded, ListPermissions, Live
<1>12. GroupInv
  <2>1. Born
    <3>1. to.group \in Group => to.group = 1
      BY AccessAssumption DEF Group
    <3> QED
      BY <1>1, <1>2, <3>1 DEF Born, Live
  <2>2. Late
    BY <1>1, <1>2 DEF Late
  <2> QED
    BY <1>9, <2>1, <2>2 DEF GroupInv, Named, Emptied
<1>13. Checking
  BY <1>9 DEF Checking
<1> QED
  BY <1>8, <1>10, <1>11, <1>12, <1>13 DEF IInv

\* Every step keeps it.
LEMMA IInvStep == IInv /\ [Next]_vars => IInv'
<1> SUFFICES ASSUME IInv, [Next]_vars PROVE IInv'
  OBVIOUS
<1>1. TypesOK'
  BY TypesStep DEF IInv, LabelInv
<1>2. LabelInv'
  BY LabelStep DEF IInv
<1>3. GrantInv'
  BY GrantStep DEF IInv
<1>4. GroupInv'
  BY GroupStep DEF IInv
<1>5. Checking'
  BY CheckStep DEF IInv, GrantInv
<1> QED
  BY <1>1, <1>2, <1>3, <1>4, <1>5 DEF IInv

\* What is asked of the module follows from it.
LEMMA IInvMeans ==
    IInv => /\ TypeOK /\ LabelsAreListedUnlessRaced /\ RevokedIsEnded
            /\ DeadGroupGrantsNothingUnlessAdded /\ CheckHoldsUnlessMoved
  BY Parts, GroupInvDead, CheckingHolds DEF IInv, TypesOK, LabelInv, GrantInv

\* So it always holds.
LEMMA IInvAlways == Spec => []IInv
  BY IInvInit, IInvStep, PTL DEF Spec

\* Whatever is asked, in whatever order, the rows of this module have their types.
THEOREM TypesHold == Spec => []TypeOK
  BY IInvAlways, IInvMeans, PTL

\* delete_tag, attach_tag: only an attach between the two DELETEs of delete_tag, or
\* after them, leaves a label nobody can see or take off.
THEOREM LabelsListed == Spec => []LabelsAreListedUnlessRaced
  BY IInvAlways, IInvMeans, PTL

\* revoke_permission: it ends the access of its grantee, because no two live rows have
\* the same grantee and the row it read keeps its own.
THEOREM Revoked == Spec => []RevokedIsEnded
  BY IInvAlways, IInvMeans, PTL

\* delete_group: the permissions it leaves behind are of use to nobody, but to who is
\* put in the group during its deletion or later.
THEOREM DeadGroups == Spec => []DeadGroupGrantsNothingUnlessAdded
  BY IInvAlways, IInvMeans, PTL

\* check_access: its three statements answer as one would, for any number of groups,
\* grants and requests, unless what they read changed meanwhile; and grant nothing
\* that no grant gives where one of them failed and nobody heard of it.
THEOREM Checked == Spec => []CheckHoldsUnlessMoved
  BY IInvAlways, IInvMeans, PTL
=============================================================================
