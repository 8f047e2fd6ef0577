---------------------------- MODULE Credentials -----------------------------
(***************************************************************************)
(* What lets a request in: API tokens, browser sessions made by the        *)
(* KonnectID login, and public share links with their passwords, download  *)
(* tickets and attempt budget (auth.rs, admin.rs, konnect.rs, sharing.rs,  *)
(* share_page.rs, and their GraphQL counterparts).                         *)
(*                                                                         *)
(* Rows are numbered in the order of their ids, which AUTOINCREMENT never  *)
(* gives twice; a secret, a session id or a link is the row it leads to    *)
(* and, for a token, the number of its rotations.  One resource, a file,   *)
(* is shared; who else may read it is in Access.                           *)
(***************************************************************************)
EXTENDS Integers, Sequences, FiniteSetsExt

CONSTANTS
    NTokens, NSessions, NLogins, NShares,
    Proc, Person,
    Never,                           \* an expiry that is not set
    Garbled,                         \* an expiry that does not parse
    TokenTtls, ShareTtls,            \* lifetimes that are asked for
    SessionTtl, LoginTtl, TicketTtl, \* SESSION_DAYS, STATE_MINUTES, TICKET_TTL_SECS
    DayLen,                          \* moments of a day
    Burst, Period,                   \* PASSWORD_ATTEMPTS: attempts, and moments per attempt
    MaxNow, MaxOps, MaxKeys, MaxFaults  \* bounds: time, requests, rotations, restarts and failures

Token   == 1 .. NTokens
Session == 1 .. NSessions
Login   == 1 .. NLogins
Share   == 1 .. NShares

ASSUME CredentialsAssumption ==
    /\ {NTokens, NSessions, NShares, MaxNow, MaxOps, MaxFaults} \subseteq Nat
    /\ {SessionTtl, LoginTtl, TicketTtl} \subseteq Nat
    /\ TokenTtls \subseteq Nat /\ ShareTtls \subseteq Nat
    /\ {NLogins, MaxKeys, DayLen, Burst, Period} \subseteq Nat \ {0}
    /\ Never \notin Nat /\ Garbled \notin Nat /\ Never # Garbled
    /\ NTokens >= 2 /\ Person # {}

VARIABLES
    token, session, login, share, file,  \* the rows
    key,           \* number of the master key the ticket key derives from
    cell,          \* PASSWORD_ATTEMPTS: when each link's budget is full again
    now,
    pc, job,       \* per request: its next step and its locals
    tickets,       \* the download tickets minted so far
    ops, faults,
    (***** history, never read by the code *****)
    crossed,       \* logins that two callbacks handled at a time
    who,           \* who logged in: the person, per session
    from,          \* the login a session comes from
    tried          \* when passwords were verified, since the last start

rows == <<token, session, login, share, file>>
hist == <<crossed, who, from, tried>>
vars == <<rows, key, cell, now, pc, job, tickets, ops, faults, hist>>

Status == {"unborn", "live", "gone"}
NoJob  == [as |-> 0, admin |-> FALSE, front |-> "rest", on |-> 0, kind |-> "none",
           proof |-> "none", lock |-> "open", ends |-> Never, ok |-> TRUE, due |-> TRUE]

TypeOK ==
    /\ token \in [Token -> [st : Status, owner : Person, admin : BOOLEAN,
                            gen : 1 .. MaxOps + 1, ends : Nat \cup {Never}]]
    /\ session \in [Session -> [st : Status, token : Token, ends : Nat]]
    /\ login \in [Login -> [st : Status, at : 0 .. MaxNow]]
    /\ share \in [Share -> [st : Status, owner : Token, lock : {"open", "argon", "bare"},
                            ends : Nat \cup {Never, Garbled}]]
    /\ file \in [st : {"live", "trash", "gone"}, owner : Token]
    /\ key \in 1 .. MaxKeys /\ now \in 0 .. MaxNow
    /\ cell \in [Share -> Nat]
    /\ pc \in [Proc -> {"idle", "act", "taken", "found", "cookie",
                        "share", "revoke", "look", "count"}]
    /\ job \in [Proc -> [as : Token \cup {0}, admin : BOOLEAN, front : {"rest", "gql"},
                         on : Login \cup Share \cup {0},
                         kind : Person \cup {"none", "page", "content"},
                         proof : {"none", "right", "wrong"},
                         lock : {"open", "argon", "bare"},
                         ends : Nat \cup {Never, Garbled}, ok : BOOLEAN, due : BOOLEAN]]
    /\ tickets \subseteq [share : Share, ends : Nat, key : 1 .. MaxKeys, earned : BOOLEAN]
    /\ ops \in 0 .. MaxOps /\ faults \in 0 .. MaxFaults
    /\ crossed \subseteq Login /\ who \in [Session -> Person] /\ from \in [Session -> Login]
    /\ tried \in [Share -> Seq(0 .. MaxNow)]

\* Mutant: an id is free again once its row is gone.
NextIdReused(table) == {i \in DOMAIN table : table[i].st # "live"}

\* INTEGER PRIMARY KEY AUTOINCREMENT: ids that were never given.
NextId(table) == {i \in DOMAIN table : table[i].st = "unborn"}

\* auth.rs is_expired: an expiry that does not parse never comes.
IsExpired(ends) == ends \in Nat /\ ends < now

Go(p, l, j) ==
    /\ pc'  = [pc EXCEPT ![p] = l]
    /\ job' = [job EXCEPT ![p] = IF l = "idle" THEN NoJob ELSE j]
Begin(p, l, j) == pc[p] = "idle" /\ ops < MaxOps /\ ops' = ops + 1 /\ Go(p, l, j)
End(p) == Go(p, "idle", NoJob)

\* An administrator and a user, each with a token; a login that is under way; a
\* file of one of them, which its owner has shared.
Init ==
    /\ \E u, a \in Person, o \in 1 .. 2 :
         /\ token = [t \in Token |-> [st |-> IF t <= 2 THEN "live" ELSE "unborn",
                                      owner |-> IF t = 1 THEN a ELSE u,
                                      admin |-> t = 1, gen |-> 1, ends |-> Never]]
         /\ file = [st |-> "live", owner |-> o]
         /\ \E l \in {"open", "argon"}, e \in {Never} \cup ShareTtls :
              share = [s \in Share |-> [st |-> IF s = 1 THEN "live" ELSE "unborn",
                                        owner |-> o, lock |-> l, ends |-> e]]
         /\ who = [s \in Session |-> u]
    /\ session = [s \in Session |-> [st |-> "unborn", token |-> 1, ends |-> 0]]
    /\ login = [l \in Login |-> [st |-> IF l = 1 THEN "live" ELSE "unborn", at |-> 0]]
    /\ key = 1 /\ cell = [s \in Share |-> 0] /\ now = 0
    /\ pc = [p \in Proc |-> "idle"] /\ job = [p \in Proc |-> NoJob]
    /\ tickets = {} /\ ops = 0 /\ faults = 0
    /\ crossed = {} /\ from = [s \in Session |-> 1]
    /\ tried = [s \in Share |-> <<>>]

Calm == UNCHANGED <<key, cell, now, tickets, faults, hist>>

-----------------------------------------------------------------------------
(***************************************************************************)
(* Tokens and sessions.                                                    *)
(***************************************************************************)
\* from_request_parts, of a Bearer: what it reads is what the request goes by.
Bearer(p, t, gen) ==
    /\ token[t].st = "live" /\ token[t].gen = gen /\ ~IsExpired(token[t].ends)
    /\ Begin(p, "act", [NoJob EXCEPT !.as = t, !.admin = token[t].admin])
    /\ UNCHANGED rows /\ Calm

\* expires_at has a 'T' where datetime() has a space: a session lasts until the day
\* it expires on is over.
Lasts(s) == session[s].ends \div DayLen >= now \div DayLen

\* from_request_parts, of a cookie.
Cookie(p, s) ==
    LET t == session[s].token
    IN  /\ session[s].st = "live" /\ Lasts(s)
        /\ token[t].st = "live" /\ ~IsExpired(token[t].ends)
        /\ Begin(p, "act", [NoJob EXCEPT !.as = t, !.admin = token[t].admin])
        /\ UNCHANGED rows /\ Calm

\* graphql_handler: a Bearer, whatever its expiry.
GqlBearer(p, t, gen) ==
    /\ token[t].st = "live" /\ token[t].gen = gen
    /\ Begin(p, "act", [NoJob EXCEPT !.as = t, !.admin = token[t].admin, !.front = "gql"])
    /\ UNCHANGED rows /\ Calm

Admin(p) == pc[p] = "act" /\ job[p].admin

CreateToken(p, u, admin, ttl) ==
    /\ Admin(p) /\ NextId(token) # {}
    /\ token' = [token EXCEPT ![Min(NextId(token))] =
                   [st |-> "live", owner |-> u, admin |-> admin, gen |-> 1, ends |-> now + ttl]]
    /\ End(p)
    /\ UNCHANGED <<session, login, share, file, ops>> /\ Calm

\* renew_token: of a token that is not there, an UPDATE of nothing.
RenewToken(p, t, ttl) ==
    /\ Admin(p)
    /\ token' = IF token[t].st = "live" THEN [token EXCEPT ![t].ends = now + ttl] ELSE token
    /\ End(p)
    /\ UNCHANGED <<session, login, share, file, ops>> /\ Calm

\* rotate_token: the row keeps its id.
RotateToken(p, t) ==
    /\ Admin(p) /\ job[p].front = "rest"
    /\ token' = IF token[t].st = "live" THEN [token EXCEPT ![t].gen = @ + 1] ELSE token
    /\ End(p)
    /\ UNCHANGED <<session, login, share, file, ops>> /\ Calm

\* The rows whose foreign key names a token.
Named(t) ==
    \/ \E s \in Session : session[s].st = "live" /\ session[s].token = t
    \/ \E s \in Share : share[s].st = "live" /\ share[s].owner = t
    \/ file.st # "gone" /\ file.owner = t

DeleteToken(p, t) ==
    /\ Admin(p)
    /\ token' = IF token[t].st = "live" /\ ~Named(t)
                THEN [token EXCEPT ![t].st = "gone"] ELSE token
    /\ End(p)
    /\ UNCHANGED <<session, login, share, file, ops>> /\ Calm

\* logout: all the sessions of the token.
Logout(p) ==
    /\ pc[p] = "act" /\ job[p].front = "rest"
    /\ session' = [s \in Session |->
                     IF session[s].st = "live" /\ session[s].token = job[p].as
                     THEN [session[s] EXCEPT !.st = "gone"] ELSE session[s]]
    /\ End(p)
    /\ UNCHANGED <<token, login, share, file, ops>> /\ Calm

-----------------------------------------------------------------------------
(***************************************************************************)
(* The KonnectID login.                                                    *)
(***************************************************************************)
\* Mutant: the row tells when it expires.
StartLoginEnd(p) ==
    /\ pc[p] = "idle" /\ ops < MaxOps /\ ops' = ops + 1
    /\ NextId(login) # {}
    /\ login' = [login EXCEPT ![Min(NextId(login))] = [st |-> "live", at |-> now + LoginTtl]]
    /\ UNCHANGED <<pc, job, token, session, share, file>> /\ Calm

\* login: the state, kept in a row until the browser comes back.
StartLogin(p) ==
    /\ pc[p] = "idle" /\ ops < MaxOps /\ ops' = ops + 1
    /\ NextId(login) # {}
    /\ login' = [login EXCEPT ![Min(NextId(login))] = [st |-> "live", at |-> now]]
    /\ UNCHANGED <<pc, job, token, session, share, file>> /\ Calm

\* callback: SELECT of the state, unless it is too old.
TakeState(p, l) ==
    /\ Begin(p, "taken", [NoJob EXCEPT !.on = l, !.ok = login[l].st = "live" /\ login[l].at > now - LoginTtl])
    /\ crossed' = crossed \cup {i \in {l} : \E q \in Proc : pc[q] = "taken" /\ job[q].on = i}
    /\ UNCHANGED <<rows, key, cell, now, tickets, faults, who, from, tried>>

AfterTake(p) == IF job[p].ok THEN Go(p, "found", job[p]) ELSE End(p)

\* Mutant: the row stays.
DropStateNever(p) ==
    /\ pc[p] = "taken" /\ AfterTake(p)
    /\ UNCHANGED <<rows, ops>> /\ Calm

\* callback: DELETE, whether or not the row was good.
DropState(p) ==
    /\ pc[p] = "taken" /\ AfterTake(p)
    /\ login' = [login EXCEPT ![job[p].on].st = IF @ = "live" THEN "gone" ELSE @]
    /\ UNCHANGED <<token, session, share, file, ops>> /\ Calm

\* The DELETE fails: nobody looks.
DropStateFails(p) ==
    /\ pc[p] = "taken" /\ AfterTake(p)
    /\ faults < MaxFaults /\ faults' = faults + 1
    /\ crossed' = crossed \cup {job[p].on}
    /\ UNCHANGED <<rows, ops, key, cell, now, tickets, who, from, tried>>

\* callback: KonnectID tells who it is, or refuses; the token of that person, the
\* oldest if there are several.
FindToken(p, u) ==
    LET mine == {t \in Token : token[t].st = "live" /\ token[t].owner = u}
    IN  /\ pc[p] = "found"
        /\ IF mine = {} THEN End(p)
           ELSE Go(p, "cookie", [job[p] EXCEPT !.as = Min(mine), !.kind = u])
        /\ UNCHANGED <<rows, ops>> /\ Calm
Refused(p) == pc[p] = "found" /\ End(p) /\ UNCHANGED <<rows, ops>> /\ Calm

\* callback: INSERT; the foreign key wants the token to be there.
InsertSession(p) ==
    /\ pc[p] = "cookie" /\ NextId(session) # {}
    /\ LET s == Min(NextId(session))
       IN  IF token[job[p].as].st = "live"
           THEN /\ session' = [session EXCEPT ![s] = [st |-> "live", token |-> job[p].as,
                                                      ends |-> now + SessionTtl]]
                /\ who'  = [who EXCEPT ![s] = job[p].kind]
                /\ from' = [from EXCEPT ![s] = job[p].on]
           ELSE UNCHANGED <<session, who, from>>
    /\ End(p)
    /\ UNCHANGED <<token, login, share, file, ops, key, cell, now, tickets, faults,
                   crossed, tried>>

-----------------------------------------------------------------------------
(***************************************************************************)
(* Share links.                                                            *)
(***************************************************************************)
\* create_share: resource_owner, check_owner_or_admin.
AskShare(p, lock, ends) ==
    /\ pc[p] = "act" /\ file.st = "live" /\ (job[p].admin \/ job[p].as = file.owner)
    /\ Go(p, "share", [job[p] EXCEPT !.lock = lock, !.ends = ends])
    /\ UNCHANGED <<rows, ops>> /\ Calm

\* An expiry that does not parse is refused, a password is hashed with Argon2.
CreateShare(p, ends, pw) ==
    /\ job[p].front = "rest" /\ ends # Garbled
    /\ AskShare(p, IF pw THEN "argon" ELSE "open", ends)

\* GraphQL looks at no expiry, and its hash is a bare digest.
GqlCreateShare(p, ends, pw) ==
    /\ job[p].front = "gql"
    /\ AskShare(p, IF pw THEN "bare" ELSE "open", ends)

\* create_share: INSERT.  The link is the caller's, who need not own the file.
InsertShare(p) ==
    /\ pc[p] = "share" /\ NextId(share) # {}
    /\ share' = IF token[job[p].as].st # "live" THEN share
                ELSE [share EXCEPT ![Min(NextId(share))] =
                        [st |-> "live", owner |-> job[p].as, lock |-> job[p].lock, ends |-> job[p].ends]]
    /\ End(p)
    /\ UNCHANGED <<token, session, login, file, ops>> /\ Calm

\* revoke_share: SELECT, check_owner_or_admin.
AskRevoke(p, s) ==
    /\ pc[p] = "act" /\ share[s].st = "live" /\ (job[p].admin \/ job[p].as = share[s].owner)
    /\ Go(p, "revoke", [job[p] EXCEPT !.on = s])
    /\ UNCHANGED <<rows, ops>> /\ Calm

\* revoke_share: DELETE.
Revoke(p) ==
    /\ pc[p] = "revoke"
    /\ share' = [share EXCEPT ![job[p].on].st = "gone"]
    /\ End(p)
    /\ UNCHANGED <<token, session, login, file, ops>> /\ Calm

-----------------------------------------------------------------------------
(***************************************************************************)
(* The public routes.                                                      *)
(***************************************************************************)
\* An expiry that does not parse has passed.
ShareExpired(ends) == ends = Garbled \/ IsExpired(ends)
InForce(s) == share[s].st = "live" /\ ~ShareExpired(share[s].ends)

\* verify_password: a bare digest is no PHC string, so it matches nothing.
VerifyPassword(lock, proof) == lock = "argon" /\ proof = "right"

\* verify_download_ticket.
VerifyTicket(t, s) == t.share = s /\ t.key = key /\ now <= t.ends

\* PASSWORD_ATTEMPTS.check_key, of governor: Burst at once, then one per Period.
Allows(s) == cell[s] <= now + (Burst - 1) * Period

\* Mutant: time without an attempt is saved up.
NextCellSaved(s) == cell[s] + Period

NextCell(s) == (IF cell[s] > now THEN cell[s] ELSE now) + Period
Spend(s) ==
    /\ cell'  = [cell EXCEPT ![s] = NextCell(s)]
    /\ tried' = [tried EXCEPT ![s] = Append(@, now)]

\* What is due: a request that came in for a link in force, by somebody who gave its password.
Due(s, knows) == InForce(s) /\ (share[s].lock = "open" \/ knows)
Answer(p, ok, s, kind, proof, knows) ==
    Begin(p, IF ok THEN "look" ELSE "idle",
          [NoJob EXCEPT !.on = s, !.kind = kind, !.due = Due(s, knows),
                        !.proof = IF kind = "page" THEN proof ELSE "none"])
Public == UNCHANGED <<rows, key, now, tickets, faults, crossed, who, from>>

\* load_valid_share: the row and its expiry, then the budget, then the password.
WithPassword(p, s, kind, proof) ==
    /\ IF InForce(s) /\ share[s].lock # "open" /\ Allows(s)
       THEN Spend(s) ELSE UNCHANGED <<cell, tried>>
    /\ Answer(p, InForce(s) /\ (share[s].lock = "open"
                                  \/ (Allows(s) /\ VerifyPassword(share[s].lock, proof))),
              s, kind, proof, proof = "right")
    /\ Public

\* Mutant: the ticket is looked at first.
WithTicketAlone(p, s, t) ==
    /\ Answer(p, VerifyTicket(t, s), s, "content", "none", t.earned)
    /\ UNCHANGED <<cell, tried>> /\ Public

\* load_valid_share_inner: a ticket stands for the password, and for nothing else.
WithTicket(p, s, t) ==
    /\ Answer(p, InForce(s) /\ (share[s].lock = "open" \/ VerifyTicket(t, s)),
              s, "content", "none", t.earned)
    /\ UNCHANGED <<cell, tried>> /\ Public

\* render_share: SELECT of the file.  The page carries a ticket if a password came with
\* the request.
ShowPage(p) ==
    /\ pc[p] = "look" /\ job[p].kind = "page" /\ End(p)
    /\ tickets' = IF file.st = "live" /\ job[p].proof # "none"
                  THEN tickets \cup {[share |-> job[p].on, ends |-> now + TicketTtl, key |-> key,
                                      earned |-> job[p].proof = "right"]}
                  ELSE tickets
    /\ UNCHANGED <<rows, ops, key, cell, now, faults, hist>>

\* serve_public_file: SELECT of the file.
ServeFile(p) ==
    /\ pc[p] = "look" /\ job[p].kind = "content"
    /\ IF file.st # "live" THEN End(p) ELSE Go(p, "count", job[p])
    /\ UNCHANGED <<rows, ops>> /\ Calm

\* resolve_public_share, which describes what it does not send: the same steps.
ResolveShare(p) == ServeFile(p)

\* record_access, whose failure nobody sees; then the answer.
Count(p) ==
    /\ pc[p] = "count"
    /\ End(p)
    /\ UNCHANGED <<rows, ops>> /\ Calm

-----------------------------------------------------------------------------
\* The file goes to the trash, comes back, or is purged (FolderTree).
FileGoes ==
    /\ ops < MaxOps /\ ops' = ops + 1
    /\ file' \in {[file EXCEPT !.st = st] : st \in
                    CASE file.st = "live" -> {"trash"} [] file.st = "trash" -> {"live", "gone"}
                      [] OTHER -> {}}
    /\ UNCHANGED <<pc, job, token, session, login, share>> /\ Calm

\* rotate_key: the current master key is another one.
RotateKey ==
    /\ key < MaxKeys /\ key' = key + 1
    /\ UNCHANGED <<rows, cell, now, pc, job, tickets, ops, faults, hist>>

\* bootstrap_admin: a table without a token gets one.
Bootstrap(table) ==
    IF (\E t \in Token : table[t].st = "live") \/ NextId(table) = {} THEN {table}
    ELSE {[table EXCEPT ![Min(NextId(table))] =
             [st |-> "live", owner |-> u, admin |-> TRUE, gen |-> 1, ends |-> Never]] : u \in Person}

\* A restart ends every request, and forgets the attempts.
Restart ==
    /\ faults < MaxFaults /\ faults' = faults + 1
    /\ pc' = [p \in Proc |-> "idle"] /\ job' = [p \in Proc |-> NoJob]
    /\ cell' = [s \in Share |-> 0]
    /\ tried' = [s \in Share |-> <<>>]
    /\ token' \in Bootstrap(token)
    /\ UNCHANGED <<session, login, share, file, key, now, tickets, ops, crossed, who, from>>

Tick ==
    /\ now < MaxNow /\ now' = now + 1
    /\ UNCHANGED <<rows, key, cell, pc, job, tickets, ops, faults, hist>>

\* The GraphQL operations on tokens and links that differ in nothing.
GqlCreateToken(p, u, admin, ttl) == CreateToken(p, u, admin, ttl)
GqlRenewToken(p, t, ttl) == RenewToken(p, t, ttl)
GqlDeleteToken(p, t) == DeleteToken(p, t)
GqlRevokeShare(p, s) == AskRevoke(p, s)

Accounts(p) ==
    \/ \E t \in Token, gen \in 1 .. MaxOps + 1 : Bearer(p, t, gen) \/ GqlBearer(p, t, gen)
    \/ \E s \in Session : Cookie(p, s)
    \/ \E u \in Person, a \in BOOLEAN, d \in TokenTtls : CreateToken(p, u, a, d) \/ GqlCreateToken(p, u, a, d)
    \/ \E t \in Token, d \in TokenTtls : RenewToken(p, t, d) \/ GqlRenewToken(p, t, d)
    \/ \E t \in Token : RotateToken(p, t) \/ DeleteToken(p, t) \/ GqlDeleteToken(p, t)
    \/ Logout(p)

KonnectId(p) ==
    \/ StartLogin(p)
    \/ \E l \in Login : login[l].st # "unborn" /\ TakeState(p, l)
    \/ DropState(p) \/ DropStateFails(p)
    \/ \E u \in Person : FindToken(p, u)
    \/ Refused(p) \/ InsertSession(p)

Links(p) ==
    \/ \E e \in {Never, Garbled} \cup {now + d : d \in ShareTtls}, pw \in BOOLEAN :
         CreateShare(p, e, pw) \/ GqlCreateShare(p, e, pw)
    \/ \E s \in Share : AskRevoke(p, s) \/ GqlRevokeShare(p, s)
    \/ InsertShare(p) \/ Revoke(p)

Visit(p) ==
    \/ \E s \in Share, k \in {"page", "content"}, pr \in {"none", "right", "wrong"} :
         share[s].st # "unborn" /\ WithPassword(p, s, k, pr)
    \/ \E s \in Share, t \in tickets : share[s].st # "unborn" /\ WithTicket(p, s, t)
    \/ ShowPage(p) \/ ServeFile(p) \/ ResolveShare(p) \/ Count(p)

Next ==
    \/ \E p \in Proc : Accounts(p) \/ KonnectId(p) \/ Links(p) \/ Visit(p)
    \/ FileGoes \/ RotateKey \/ Restart \/ Tick

Spec == Init /\ [][Next]_vars

-----------------------------------------------------------------------------
(***************************************************************************)
(* Properties.                                                             *)
(***************************************************************************)
\* konnect.rs 269-300: a session opens the account of who logged in, although the
\* token is looked up one statement before, and may be deleted and others made.
SessionIsOfPerson ==
    \A s \in Session : session[s].st = "live" =>
        token[session[s].token].st = "live" /\ token[session[s].token].owner = who[s]

\* konnect.rs 195-196, db.rs 118-119: a state serves once, unless two callbacks came
\* with it at a time, or the error of its DELETE was ignored.
OneSessionPerLoginUnlessCrossed ==
    \A s1, s2 \in Session :
        session[s1].st # "unborn" /\ session[s2].st # "unborn" /\ from[s1] = from[s2]
          => s1 = s2 \/ from[s1] \in crossed

\* sharing.rs 222-244: over any stretch of time, a link's password is not tried more
\* than its budget allows, whichever route the tries come by.
BudgetHolds ==
    \A s \in Share : \A i, j \in DOMAIN tried[s] :
        i <= j => j - i < Burst + (tried[s][j] - tried[s][i]) \div Period

\* sharing.rs 525-532, 567-588: whoever gets to the content of a link asked for it
\* while it was in force, and gave its password, then or for a ticket: no ticket
\* outlives a revocation or an expiry, or comes without a password.
ServedIsDue == \A p \in Proc : pc[p] \in {"look", "count"} => job[p].due

-----------------------------------------------------------------------------
(***************************************************************************)
(* What the documentation says, without the exemptions above.              *)
(***************************************************************************)
\* konnect.rs 195-196, "un code d'autorisation ne doit pas pouvoir etre rejoue": the
\* row of a login serves as a token of one use, so it opens one session.
OneSessionPerLogin ==
    \A s1, s2 \in Session :
        session[s1].st # "unborn" /\ session[s2].st # "unborn" /\ from[s1] = from[s2]
          => s1 = s2
=============================================================================
