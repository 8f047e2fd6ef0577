------------------------------- MODULE Access -------------------------------
(***************************************************************************)
(* Who may read a file, and what hangs on it: permissions and groups       *)
(* (sharing.rs, groups.rs, acl.rs), tags, favorites and comments (tags.rs, *)
(* comments.rs), and their GraphQL counterparts, statement by statement.   *)
(*                                                                         *)
(* There is one resource.  Rows are numbered in the order of their ids,    *)
(* which AUTOINCREMENT never gives twice.  Each owner gives one name to    *)
(* tags; which of "file" and "files" a label is stored under is left out.  *)
(***************************************************************************)
EXTENDS Integers, FiniteSetsExt

CONSTANTS
    Token,            \* ids of tokens
    Admins, Owner,    \* those of administrators, that of the resource's owner
    Name,             \* names of groups
    Level,            \* permissions that are asked for
    NGroups, NPerms, NTags, NLabels, NFavorites, NComments,
    Proc,
    MaxOps, MaxFaults \* bounds: requests, interrupted requests

Group    == 1 .. NGroups
Perm     == 1 .. NPerms
Tag      == 1 .. NTags
Label    == 1 .. NLabels
Favorite == 1 .. NFavorites
Comment  == 1 .. NComments

ASSUME AccessAssumption ==
    /\ Token \subseteq Nat \ {0} /\ Admins \subseteq Token /\ Owner \in Token
    /\ Name # {} /\ Level \subseteq {"read", "comment", "write"}
    /\ {NGroups, NPerms, NTags, NLabels, NFavorites, NComments} \subseteq Nat \ {0}
    /\ {MaxOps, MaxFaults} \subseteq Nat

VARIABLES
    res,                 \* the resource
    group, member, perm, \* rows of groups, group_members, permissions
    tag, label, favorite, comment,
    pc, job,             \* per request: its next statement and its locals
    ops, faults,
    (***** history, never read by the code *****)
    late,    \* groups somebody was put in during or after their deletion
    ended,   \* grantees whose grant was revoked, and not given again since
    raced    \* labels put on after the labels of their tag were removed

grants == <<res, group, member, perm>>
labels == <<tag, label, favorite, comment>>
hist   == <<late, ended, raced>>
vars   == <<grants, labels, pc, job, ops, faults, hist>>

Status  == {"unborn", "live", "gone"}
Action  == {"read", "comment", "write"}
Grantee == [to : Token \cup {0}, group : Group \cup {0}]
Nobody  == [to |-> 0, group |-> 0]
NoJob   == [as |-> Owner, on |-> 0, to |-> Nobody, name |-> CHOOSE n \in Name : TRUE,
            level |-> "read", ok |-> FALSE, moved |-> FALSE, blind |-> FALSE]

TypeOK ==
    /\ res \in {"live", "trash", "gone"}
    /\ group \in [Group -> [st : Status, name : Name]]
    /\ member \subseteq Group \X Token
    /\ perm \in [Perm -> [st : Status, to : Grantee, level : Action]]
    /\ tag \in [Tag -> [st : Status, owner : Token]]
    /\ label \in [Label -> [st : Status, tag : Tag]]
    /\ favorite \in [Favorite -> [st : Status, owner : Token]]
    /\ comment \in [Comment -> [st : Status, owner : Token]]
    /\ pc \in [Proc -> {"idle", "ungroup", "whom", "grant", "revoke", "direct", "group", "answer",
                        "unlabel", "untag", "exists", "attach", "detach",
                        "favorite", "unfavorite", "comment", "uncomment"}]
    /\ job \in [Proc -> [as : Token, on : Nat, to : Grantee, name : Name, level : Action,
                         ok : BOOLEAN, moved : BOOLEAN, blind : BOOLEAN]]
    /\ ops \in 0 .. MaxOps /\ faults \in 0 .. MaxFaults
    /\ late \subseteq Group /\ ended \subseteq Grantee /\ raced \subseteq Label

Live(table) == {i \in DOMAIN table : table[i].st = "live"}

\* INTEGER PRIMARY KEY AUTOINCREMENT: ids that were never given.
NextId(table) == {i \in DOMAIN table : table[i].st = "unborn"}

Add(table, row) == [table EXCEPT ![Min(NextId(table))] = row]

\* Mutant: nothing is left of the row.
RemoveBare(table, i) == [table EXCEPT ![i] = [st |-> "gone"]]

Remove(table, i) == [table EXCEPT ![i].st = IF @ = "live" THEN "gone" ELSE @]

\* What a request may have read has changed: a check under way, and a revocation of to.
Moved(to) ==
    [p \in Proc |-> [job[p] EXCEPT !.moved =
        @ \/ pc[p] \in {"direct", "group", "answer"} \/ (pc[p] = "revoke" /\ job[p].to = to)]]

Start == ops < MaxOps /\ ops' = ops + 1 /\ UNCHANGED faults
Begin(p, l, j) ==
    /\ pc[p] = "idle" /\ Start
    /\ pc'  = [pc EXCEPT ![p] = l]
    /\ job' = [job EXCEPT ![p] = j]
Goto(p, l, j) ==
    /\ pc'  = [pc EXCEPT ![p] = l]
    /\ job' = [job EXCEPT ![p] = j]
    /\ UNCHANGED <<ops, faults>>
\* The end of a request that changed what others read.
EndMoved(p, to) ==
    /\ pc'  = [pc EXCEPT ![p] = "idle"]
    /\ job' = [Moved(to) EXCEPT ![p] = NoJob]
    /\ UNCHANGED <<ops, faults>>
End(p) == Goto(p, "idle", NoJob)
Job(t) == [NoJob EXCEPT !.as = t]

\* The resource is there, with a group, a grant, a tag, a label, a favorite, a comment.
Init ==
    /\ res = "live"
    /\ \E n \in Name, m \in SUBSET Token, lv \in Level, t \in Token,
          to \in {[to |-> 0, group |-> 1]} \cup {[to |-> u, group |-> 0] : u \in Token} :
         /\ group = [g \in Group |-> [st |-> IF g = 1 THEN "live" ELSE "unborn", name |-> n]]
         /\ member = {1} \X (m \ (Admins \cup {Owner}))
         /\ perm = [i \in Perm |-> [st |-> IF i = 1 THEN "live" ELSE "unborn",
                                    to |-> to, level |-> lv]]
         /\ tag = [i \in Tag |-> [st |-> IF i = 1 THEN "live" ELSE "unborn", owner |-> t]]
         /\ favorite = [f \in Favorite |-> [st |-> IF f = 1 THEN "live" ELSE "unborn", owner |-> t]]
         /\ comment = [c \in Comment |-> [st |-> IF c = 1 THEN "live" ELSE "unborn", owner |-> t]]
    /\ label = [l \in Label |-> [st |-> IF l = 1 THEN "live" ELSE "unborn", tag |-> 1]]
    /\ pc = [p \in Proc |-> "idle"] /\ job = [p \in Proc |-> NoJob]
    /\ ops = 0 /\ faults = 0
    /\ late = {} /\ ended = {} /\ raced = {}

-----------------------------------------------------------------------------
(***************************************************************************)
(* Groups.                                                                 *)
(***************************************************************************)
ListGroups == Live(group)

\* create_group: the name is UNIQUE.
CreateGroup(t, n) ==
    /\ t \in Admins /\ Start /\ NextId(group) # {}
    /\ group' = IF \E g \in Live(group) : group[g].name = n THEN group
                ELSE Add(group, [st |-> "live", name |-> n])
    /\ UNCHANGED <<res, member, perm, labels, pc, job, hist>>

\* Mutant: the members are left in.
DeleteGroupAlone(p, t, g) ==
    /\ t \in Admins /\ Begin(p, "ungroup", [Job(t) EXCEPT !.on = g])
    /\ UNCHANGED <<grants, labels, hist>>

\* delete_group: DELETE of the members.
DeleteGroup(p, t, g) ==
    /\ t \in Admins /\ pc[p] = "idle" /\ Start
    /\ member' = {m \in member : m[1] # g}
    /\ pc'  = [pc EXCEPT ![p] = "ungroup"]
    /\ job' = [Moved(Nobody) EXCEPT ![p] = [Job(t) EXCEPT !.on = g]]
    /\ UNCHANGED <<res, group, perm, labels, hist>>

\* delete_group: DELETE of the group.  Its permissions stay.
DropGroup(p) ==
    /\ pc[p] = "ungroup" /\ End(p)
    /\ group' = Remove(group, job[p].on)
    /\ UNCHANGED <<res, member, perm, labels, hist>>

\* add_member: whether or not there are such a group and such a token.
AddMember(t, g, u) ==
    /\ t \in Admins /\ Start
    /\ member' = member \cup {<<g, u>>}
    /\ late' = late \cup {h \in {g} : group[h].st = "gone"
                                      \/ \E q \in Proc : pc[q] = "ungroup" /\ job[q].on = h}
    /\ job' = Moved(Nobody)
    /\ UNCHANGED <<res, group, perm, labels, pc, ended, raced>>

RemoveMember(t, g, u) ==
    /\ t \in Admins /\ Start
    /\ member' = member \ {<<g, u>>}
    /\ job' = Moved(Nobody)
    /\ UNCHANGED <<res, group, perm, labels, pc, hist>>

-----------------------------------------------------------------------------
(***************************************************************************)
(* Permissions.                                                            *)
(***************************************************************************)
\* resource_owner, check_owner_or_admin.
MayShare(t) == res = "live" /\ (t = Owner \/ t \in Admins)

ListPermissions == Live(perm)

\* create_permission, to a person or to a group by its name.
AskGrant(p, t, u, n, lv) ==
    /\ MayShare(t)
    /\ Begin(p, "whom", [Job(t) EXCEPT !.to.to = u, !.name = n, !.level = lv])
    /\ UNCHANGED <<grants, labels, hist>>

\* create_permission: SELECT of the group.
FindGrantee(p) ==
    LET named == {g \in Live(group) : group[g].name = job[p].name}
    IN  /\ pc[p] = "whom"
        /\ IF job[p].to.to # 0 THEN Goto(p, "grant", job[p])
           ELSE IF named = {} THEN End(p)
           ELSE \E g \in named : Goto(p, "grant", [job[p] EXCEPT !.to.group = g])
        /\ UNCHANGED <<grants, labels, hist>>

\* idx_permissions_resource_grantee: every group counts as grantee 0.
Conflict(to) == {i \in Live(perm) : perm[i].to.to = to.to}

\* Mutant: a grant is one more row.
StoredTwice(to, lv) == Add(perm, [st |-> "live", to |-> to, level |-> lv])

\* create_permission: INSERT; of a person ON CONFLICT DO UPDATE, of a group it fails.
Stored(to, lv) ==
    IF Conflict(to) = {} THEN Add(perm, [st |-> "live", to |-> to, level |-> lv])
    ELSE IF to.to = 0 THEN perm
    ELSE [i \in Perm |-> IF i \in Conflict(to) THEN [perm[i] EXCEPT !.level = lv] ELSE perm[i]]

InsertGrant(p) ==
    LET to == job[p].to
    IN  /\ pc[p] = "grant" /\ NextId(perm) # {}
        /\ perm' = Stored(to, job[p].level)
        /\ ended' = IF to.to = 0 /\ Conflict(to) # {} THEN ended ELSE ended \ {to}
        /\ EndMoved(p, to)
        /\ UNCHANGED <<res, group, member, labels, late, raced>>

\* revoke_permission: SELECT, and the owner of what it is about.
AskRevoke(p, t, i) ==
    /\ perm[i].st = "live" /\ MayShare(t)
    /\ Begin(p, "revoke", [Job(t) EXCEPT !.on = i, !.to = perm[i].to])
    /\ UNCHANGED <<grants, labels, hist>>

\* revoke_permission: DELETE.
DropGrant(p) ==
    /\ pc[p] = "revoke"
    /\ perm' = Remove(perm, job[p].on)
    /\ ended' = IF job[p].moved THEN ended ELSE ended \cup {job[p].to}
    /\ EndMoved(p, job[p].to)
    /\ UNCHANGED <<res, group, member, labels, late, raced>>

-----------------------------------------------------------------------------
(***************************************************************************)
(* check_access.                                                           *)
(***************************************************************************)
\* Action::covered_by.
CoveredBy(action, granted) ==
    CASE granted = "write" -> TRUE
      [] granted = "read" -> action = "read"
      [] granted = "comment" -> action \in {"read", "comment"}

Direct(t) == {i \in Live(perm) : perm[i].to.to = t}
Through(t) == {i \in Live(perm) : perm[i].to.to = 0 /\ <<perm[i].to.group, t>> \in member}

Decide(p, j, ok) == Goto(p, "answer", [j EXCEPT !.ok = ok])

\* A SELECT of a check fails, and nobody hears of it: .ok().flatten() takes it for no
\* row.  Where there is none the answer is the same, and the failure is left out.
Blind(p, l, j) ==
    /\ faults < MaxFaults /\ faults' = faults + 1
    /\ pc'  = [pc EXCEPT ![p] = l]
    /\ job' = [job EXCEPT ![p] = [j EXCEPT !.blind = TRUE]]

\* check_access: the administrator; SELECT of the owner, without whom it is denied.
CheckAccess(p, t, a) ==
    LET j  == [Job(t) EXCEPT !.level = a]
        ok == t \in Admins \/ (res = "live" /\ t = Owner)
    IN  /\ \/ /\ ok \/ res # "live"
              /\ Begin(p, "answer", [j EXCEPT !.ok = ok])
           \/ /\ ~ok /\ res = "live"
              /\ Begin(p, "direct", j)
           \/ /\ t \notin Admins /\ res = "live" /\ pc[p] = "idle"
              /\ ops < MaxOps /\ ops' = ops + 1
              /\ Blind(p, "answer", j)
        /\ UNCHANGED <<grants, labels, hist>>

\* check_access: SELECT of the direct grant; without one, the groups' are looked for.
CheckDirect(p) ==
    /\ pc[p] = "direct"
    /\ \/ /\ Direct(job[p].as) = {}
          /\ Goto(p, "group", job[p])
       \/ \E i \in Direct(job[p].as) : Decide(p, job[p], CoveredBy(job[p].level, perm[i].level))
       \/ /\ Direct(job[p].as) # {}
          /\ Blind(p, "group", job[p]) /\ UNCHANGED ops
    /\ UNCHANGED <<grants, labels, hist>>

\* Mutant: groups are not asked.
CheckGroupNone(p) ==
    /\ pc[p] = "group" /\ Decide(p, job[p], FALSE)
    /\ UNCHANGED <<grants, labels, hist>>

\* check_access: SELECT of a group's grant; without one it is denied.
CheckGroup(p) ==
    /\ pc[p] = "group"
    /\ \/ /\ Through(job[p].as) = {}
          /\ Decide(p, job[p], FALSE)
       \/ \E i \in Through(job[p].as) : Decide(p, job[p], CoveredBy(job[p].level, perm[i].level))
       \/ /\ Through(job[p].as) # {}
          /\ Blind(p, "answer", [job[p] EXCEPT !.ok = FALSE]) /\ UNCHANGED ops
    /\ UNCHANGED <<grants, labels, hist>>

\* What the handler does with the answer is in the other modules.
Answered(p) == pc[p] = "answer" /\ End(p) /\ UNCHANGED <<grants, labels, hist>>

-----------------------------------------------------------------------------
(***************************************************************************)
(* Tags.                                                                   *)
(***************************************************************************)
\* create_tag: INSERT, or the one of that name.
CreateTag(t) ==
    /\ Start /\ NextId(tag) # {}
    /\ tag' = IF \E i \in Live(tag) : tag[i].owner = t THEN tag
              ELSE Add(tag, [st |-> "live", owner |-> t])
    /\ UNCHANGED <<grants, label, favorite, comment, pc, job, hist>>

\* delete_tag: SELECT.
DeleteTag(p, t, i) ==
    /\ tag[i].st = "live" /\ tag[i].owner = t
    /\ Begin(p, "unlabel", [Job(t) EXCEPT !.on = i])
    /\ UNCHANGED <<grants, labels, hist>>

\* Mutant: the labels stay.
DropLabelsNone(p) == pc[p] = "unlabel" /\ Goto(p, "untag", job[p]) /\ UNCHANGED <<grants, labels, hist>>

\* delete_tag: DELETE of the labels.
DropLabels(p) ==
    /\ pc[p] = "unlabel" /\ Goto(p, "untag", job[p])
    /\ label' = [l \in Label |-> IF label[l].st = "live" /\ label[l].tag = job[p].on
                                 THEN [label[l] EXCEPT !.st = "gone"] ELSE label[l]]
    /\ UNCHANGED <<grants, tag, favorite, comment, hist>>

\* delete_tag: DELETE of the tag.
DropTag(p) ==
    /\ pc[p] = "untag" /\ End(p)
    /\ tag' = Remove(tag, job[p].on)
    /\ UNCHANGED <<grants, label, favorite, comment, hist>>

\* attach_tag: SELECT of the tag.
AttachTag(p, t, i) ==
    /\ tag[i].st = "live" /\ tag[i].owner = t
    /\ Begin(p, "exists", [Job(t) EXCEPT !.on = i])
    /\ UNCHANGED <<grants, labels, hist>>

\* attach_tag: resource_exists.
ResourceExists(p) ==
    /\ pc[p] = "exists"
    /\ IF res = "live" THEN Goto(p, "attach", job[p]) ELSE End(p)
    /\ UNCHANGED <<grants, labels, hist>>

\* attach_tag: INSERT, or the one that is there.
InsertLabel(p) ==
    LET i == job[p].on
    IN  /\ pc[p] = "attach" /\ NextId(label) # {} /\ End(p)
        /\ IF \E l \in Live(label) : label[l].tag = i THEN UNCHANGED <<label, raced>>
           ELSE /\ label' = Add(label, [st |-> "live", tag |-> i])
                /\ raced' = IF tag[i].st = "gone" \/ \E q \in Proc : pc[q] = "untag" /\ job[q].on = i
                            THEN raced \cup {Min(NextId(label))} ELSE raced
        /\ UNCHANGED <<grants, tag, favorite, comment, late, ended>>

\* list_resource_tags: JOIN of the labels and their tags.
ListResourceTags == {l \in Live(label) : tag[label[l].tag].st = "live"}

\* detach_tag: SELECT, the same JOIN.
DetachTag(p, t, l) ==
    /\ l \in ListResourceTags /\ tag[label[l].tag].owner = t
    /\ Begin(p, "detach", [Job(t) EXCEPT !.on = l])
    /\ UNCHANGED <<grants, labels, hist>>

\* detach_tag: DELETE.
DropLabel(p) ==
    /\ pc[p] = "detach" /\ End(p)
    /\ label' = Remove(label, job[p].on)
    /\ UNCHANGED <<grants, tag, favorite, comment, hist>>

-----------------------------------------------------------------------------
(***************************************************************************)
(* Favorites and comments.                                                 *)
(***************************************************************************)
\* add_favorite: resource_exists.
AddFavorite(p, t) ==
    /\ res = "live" /\ Begin(p, "favorite", Job(t))
    /\ UNCHANGED <<grants, labels, hist>>

ListFavorites(t) == {f \in Live(favorite) : favorite[f].owner = t}

\* add_favorite: INSERT, or the one that is there.
InsertFavorite(p) ==
    /\ pc[p] = "favorite" /\ NextId(favorite) # {} /\ End(p)
    /\ favorite' = IF ListFavorites(job[p].as) # {} THEN favorite
                   ELSE Add(favorite, [st |-> "live", owner |-> job[p].as])
    /\ UNCHANGED <<grants, tag, label, comment, hist>>

\* remove_favorite: SELECT.
RemoveFavorite(p, t, f) ==
    /\ f \in ListFavorites(t)
    /\ Begin(p, "unfavorite", [Job(t) EXCEPT !.on = f])
    /\ UNCHANGED <<grants, labels, hist>>

\* remove_favorite: DELETE.
DropFavorite(p) ==
    /\ pc[p] = "unfavorite" /\ End(p)
    /\ favorite' = Remove(favorite, job[p].on)
    /\ UNCHANGED <<grants, tag, label, comment, hist>>

\* create_comment: resource_exists; no permission is asked for.
CreateComment(p, t) ==
    /\ res = "live" /\ Begin(p, "comment", Job(t))
    /\ UNCHANGED <<grants, labels, hist>>

\* create_comment: INSERT.
InsertComment(p) ==
    /\ pc[p] = "comment" /\ NextId(comment) # {} /\ End(p)
    /\ comment' = Add(comment, [st |-> "live", owner |-> job[p].as])
    /\ UNCHANGED <<grants, tag, label, favorite, hist>>

\* delete_comment: SELECT.
DeleteComment(p, t, c) ==
    /\ comment[c].st = "live" /\ (comment[c].owner = t \/ t \in Admins)
    /\ Begin(p, "uncomment", [Job(t) EXCEPT !.on = c])
    /\ UNCHANGED <<grants, labels, hist>>

\* delete_comment: UPDATE.
DropComment(p) ==
    /\ pc[p] = "uncomment" /\ End(p)
    /\ comment' = Remove(comment, job[p].on)
    /\ UNCHANGED <<grants, tag, label, favorite, hist>>

-----------------------------------------------------------------------------
\* The resource goes to the trash, comes back, or is purged (FolderTree).
ResourceGoes ==
    /\ Start
    /\ \/ res = "live" /\ res' = "trash"
       \/ res = "trash" /\ res' \in {"live", "gone"}
    /\ job' = Moved(Nobody)
    /\ UNCHANGED <<group, member, perm, labels, pc, hist>>

\* A statement fails, the client goes away or the program dies: the request ends there.
Stop(p) ==
    /\ pc[p] # "idle" /\ faults < MaxFaults /\ faults' = faults + 1
    /\ pc' = [pc EXCEPT ![p] = "idle"] /\ job' = [job EXCEPT ![p] = NoJob]
    /\ UNCHANGED <<grants, labels, ops, hist>>

\* The GraphQL operations, which do the same.
GqlGroups ==
    \/ \E t \in Token, n \in Name : CreateGroup(t, n)
    \/ \E t, u \in Token, g \in Group : AddMember(t, g, u) \/ RemoveMember(t, g, u)
GqlDeleteGroup(p) == \E t \in Token, g \in Group : DeleteGroup(p, t, g)
GqlGrant(p, t, u, n, lv) == AskGrant(p, t, u, n, lv)
GqlRevoke(p, t, i) == AskRevoke(p, t, i)
GqlCreateTag(t) == CreateTag(t)
GqlDeleteTag(p, t, i) == DeleteTag(p, t, i)
GqlAttachTag(p, t, i) == AttachTag(p, t, i)
GqlDetachTag(p, t, l) == DetachTag(p, t, l)
GqlFavorite(p, t) == AddFavorite(p, t)
GqlUnfavorite(p, t, f) == RemoveFavorite(p, t, f)
GqlComment(p, t) == CreateComment(p, t)
GqlUncomment(p, t, c) == DeleteComment(p, t, c)

Groups(p) ==
    \/ \E t \in Token, n \in Name : CreateGroup(t, n)
    \/ \E t \in Token, g \in Group : DeleteGroup(p, t, g)
    \/ \E t, u \in Token, g \in Group : AddMember(t, g, u) \/ RemoveMember(t, g, u)
    \/ DropGroup(p) \/ GqlGroups \/ GqlDeleteGroup(p)

Permissions(p) ==
    \/ \E t \in Token, u \in Token \cup {0}, n \in Name, lv \in Level :
         AskGrant(p, t, u, n, lv) \/ GqlGrant(p, t, u, n, lv)
    \/ \E t \in Token, i \in Perm : AskRevoke(p, t, i) \/ GqlRevoke(p, t, i)
    \/ FindGrantee(p) \/ InsertGrant(p) \/ DropGrant(p)
    \/ \E t \in Token, a \in Action : CheckAccess(p, t, a)
    \/ CheckDirect(p) \/ CheckGroup(p) \/ Answered(p)

Tags(p) ==
    \/ \E t \in Token : CreateTag(t) \/ GqlCreateTag(t)
    \/ \E t \in Token, i \in Tag : DeleteTag(p, t, i) \/ GqlDeleteTag(p, t, i)
                                   \/ AttachTag(p, t, i) \/ GqlAttachTag(p, t, i)
    \/ \E t \in Token, l \in Label : DetachTag(p, t, l) \/ GqlDetachTag(p, t, l)
    \/ DropLabels(p) \/ DropTag(p) \/ ResourceExists(p) \/ InsertLabel(p) \/ DropLabel(p)

Remarks(p) ==
    \/ \E t \in Token : AddFavorite(p, t) \/ GqlFavorite(p, t) \/ CreateComment(p, t) \/ GqlComment(p, t)
    \/ \E t \in Token, f \in Favorite : RemoveFavorite(p, t, f) \/ GqlUnfavorite(p, t, f)
    \/ \E t \in Token, c \in Comment : DeleteComment(p, t, c) \/ GqlUncomment(p, t, c)
    \/ InsertFavorite(p) \/ DropFavorite(p) \/ InsertComment(p) \/ DropComment(p)

Next ==
    \/ \E p \in Proc : Groups(p) \/ Permissions(p) \/ Tags(p) \/ Remarks(p) \/ Stop(p)
    \/ ResourceGoes

Spec == Init /\ [][Next]_vars

-----------------------------------------------------------------------------
(***************************************************************************)
(* Properties.                                                             *)
(***************************************************************************)
\* groups.rs 101-118: nobody gets at a resource through a group that is no longer
\* listed, unless somebody was put in it while or after it was deleted: the
\* permissions of a deleted group stay.
DeadGroupGrantsNothingUnlessAdded ==
    \A t \in Token : \A i \in Through(t) :
        perm[i].to.group \in ListGroups \cup late

\* sharing.rs 979-998, 1095-1120: when a revocation is done, no other row gives its
\* grantee access, unless a grant came in between or after.
RevokedIsEnded == \A i \in ListPermissions : perm[i].to \notin ended

\* What check_access is for: the administrator, the owner of a live resource, and
\* whoever a grant of their own, or else one of their groups', covers.
Holds(t, a) ==
    \/ t \in Admins
    \/ /\ res = "live"
       /\ \/ t = Owner
          \/ \E i \in Direct(t) : CoveredBy(a, perm[i].level)
          \/ Direct(t) = {} /\ \E i \in Through(t) : CoveredBy(a, perm[i].level)

\* Somebody may do it, or one of two grants would let them, whichever goes first.
Might(t, a) ==
    \/ t \in Admins
    \/ res = "live" /\ (t = Owner \/ \E i \in Direct(t) \cup Through(t) : CoveredBy(a, perm[i].level))

\* acl.rs 46-105: the three statements of a check answer as one look would have,
\* unless the resource, a grant or a membership changed meanwhile.  Where one of
\* them failed it still grants no more than some grant that is there, though it may
\* deny the owner, or let a group's grant go before the person's own.
Right(j) == IF j.blind THEN j.ok => Might(j.as, j.level) ELSE j.ok = Holds(j.as, j.level)
CheckHoldsUnlessMoved == \A p \in Proc : pc[p] = "answer" /\ ~job[p].moved => Right(job[p])

\* tags.rs 298-325, 329-378: a label can be seen, and taken off, unless it was put on
\* while its tag was being deleted: then it stays for ever.
LabelsAreListedUnlessRaced == Live(label) \subseteq ListResourceTags \cup raced

-----------------------------------------------------------------------------
(***************************************************************************)
(* What the comments say, whatever fails.                                  *)
(***************************************************************************)
\* acl.rs 1, "owner-or-admin always wins": a check of theirs is answered yes, unless
\* the resource went to the trash or came back meanwhile.
OwnerAlwaysWins ==
    \A p \in Proc : pc[p] = "answer" /\ ~job[p].moved =>
        (job[p].as \in Admins \/ (res = "live" /\ job[p].as = Owner) => job[p].ok)
=============================================================================
