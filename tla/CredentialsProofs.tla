-------------------------- MODULE CredentialsProofs --------------------------
(***************************************************************************)
(* Credentials, proved for any tokens, logins, links, requests and times:  *)
(* a session is of who logged in, a login's state serves once unless two   *)
(* callbacks crossed, a link's budget holds, and what is served is due;    *)
(* and its types, with their bounds.                                       *)
(*                                                                         *)
(* The invariant has one part per property.  Each part comes with a Keeps  *)
(* formula: what a step must leave alone, or may at most do, to keep it.   *)
(***************************************************************************)
EXTENDS Credentials, FiniteSetTheorems, SequenceTheorems, WellFoundedInduction, TLAPS

-----------------------------------------------------------------------------
(***************************************************************************)
(* Types: the sets that TypeOK has, without its bounds.                    *)
(***************************************************************************)
Point == {"idle", "act", "taken", "found", "cookie", "share", "revoke", "look", "count"}
Lock  == {"open", "argon", "bare"}
End4  == Nat \cup {Never, Garbled}
Jobs  == [as : Token \cup {0}, admin : BOOLEAN, front : {"rest", "gql"}, on : Nat,
          kind : Person \cup {"none", "page", "content"}, proof : {"none", "right", "wrong"},
          lock : Lock, ends : End4, ok : BOOLEAN, due : BOOLEAN]

Tasks ==
    /\ pc \in [Proc -> Point] /\ job \in [Proc -> Jobs]
    /\ \A p \in Proc : pc[p] = "cookie" => job[p].as \in Token
TokenRow   == [st : Status, owner : Person, admin : BOOLEAN, gen : Nat, ends : Nat \cup {Never}]
SessionRow == [st : Status, token : Token, ends : Nat]
LoginRow   == [st : Status, at : Nat]
ShareRow   == [st : Status, owner : Token \cup {0}, lock : Lock, ends : End4]
Rows ==
    /\ token \in [Token -> TokenRow] /\ session \in [Session -> SessionRow]
    /\ login \in [Login -> LoginRow] /\ share \in [Share -> ShareRow]
    /\ now \in Nat
Notes == key \in Nat /\ tickets \subseteq [share : Nat, ends : Nat, key : Nat, earned : BOOLEAN]
Types == Tasks /\ Rows /\ Notes

\* The id an INSERT takes is one that was never given.
LEMMA MinIn ==
    ASSUME NEW S \in SUBSET Nat, S # {}
    PROVE  Min(S) \in S
<1>1. PICK x \in S : \A y \in S : <<y, x>> \notin OpToRel(<, Nat)
  BY NatLessThanWellFounded, WFMin
<1>2. \A y \in S : y < x => <<y, x>> \in OpToRel(<, Nat)
  BY DEF OpToRel
<1>3. x \in Nat /\ \A y \in S : y \in Nat
  OBVIOUS
<1>4. \A y \in S : ~(y < x)
  BY <1>1, <1>2
<1>5. \A y \in S : x =< y
  BY <1>3, <1>4
<1> QED
  BY <1>5 DEF Min

LEMMA NextIdIn ==
    ASSUME NEW n \in Nat, NEW table, DOMAIN table = 1 .. n, NextId(table) # {}
    PROVE  Min(NextId(table)) \in 1 .. n /\ table[Min(NextId(table))].st = "unborn"
<1>1. NextId(table) \in SUBSET Nat
  BY DEF NextId
<1> QED
  BY <1>1, MinIn DEF NextId

LEMMA NoJobIn == NoJob \in Jobs
  BY DEF NoJob, Jobs, Lock, End4

\* A request goes on or ends; the others do not move.
Others(p) == \A q \in Proc \ {p} : pc'[q] = pc[q] /\ job'[q] = job[q]
LEMMA GoIs ==
    ASSUME Tasks, NEW p \in Proc, NEW l \in Point, NEW j \in Jobs, Go(p, l, j),
           l = "cookie" => j.as \in Token
    PROVE  /\ Tasks' /\ Others(p)
           /\ pc'[p] = l /\ (l # "idle" => job'[p] = j)
  BY NoJobIn DEF Go, Tasks, Others

LEMMA EndIs ==
    ASSUME Tasks, NEW p \in Proc, End(p)
    PROVE  Tasks' /\ Others(p) /\ pc'[p] = "idle"
  BY NoJobIn, GoIs DEF End, Point

\* What is due to be true of any step of a request.
LEMMA AnswerIs ==
    ASSUME Tasks, NEW p \in Proc, NEW ok \in BOOLEAN, NEW s \in Share,
           NEW kind \in {"page", "content"}, NEW proof \in {"none", "right", "wrong"}, NEW knows \in BOOLEAN,
           Answer(p, ok, s, kind, proof, knows)
    PROVE  /\ Tasks' /\ Others(p) /\ pc[p] = "idle"
           /\ pc'[p] = IF ok THEN "look" ELSE "idle"
           /\ ok => /\ job'[p].on = s /\ job'[p].kind = kind /\ job'[p].due = Due(s, knows)
                    /\ job'[p].proof = IF kind = "page" THEN proof ELSE "none"
<1> DEFINE j == [NoJob EXCEPT !.on = s, !.kind = kind, !.due = Due(s, knows),
                              !.proof = IF kind = "page" THEN proof ELSE "none"]
<1>1. Due(s, knows) \in BOOLEAN
  BY DEF Due, InForce, ShareExpired, IsExpired
<1>2. s \in Nat
  BY CredentialsAssumption DEF Share
<1>3. /\ j \in Jobs /\ j.on = s /\ j.kind = kind /\ j.due = Due(s, knows)
      /\ j.proof = IF kind = "page" THEN proof ELSE "none"
  BY <1>1, <1>2 DEF NoJob, Jobs, Lock, End4
<1>4. Go(p, IF ok THEN "look" ELSE "idle", j) /\ pc[p] = "idle"
  BY DEF Answer, Begin
<1>5. (IF ok THEN "look" ELSE "idle") \in Point
  BY DEF Point
<1> HIDE DEF j
<1> QED
  BY <1>3, <1>4, <1>5, GoIs

Visitors(p) ==
    \/ \E s \in Share, k \in {"page", "content"}, pr \in {"none", "right", "wrong"} : WithPassword(p, s, k, pr)
    \/ \E s \in Share, t \in tickets : WithTicket(p, s, t)

LEMMA VisitorsDo ==
    ASSUME Tasks, NEW p \in Proc, Notes,
           Visitors(p)
    PROVE  Tasks' /\ Others(p) /\ pc[p] = "idle" /\ pc'[p] \in {"idle", "look"}
<1>1. ASSUME NEW s \in Share, NEW k \in {"page", "content"}, NEW pr \in {"none", "right", "wrong"},
             WithPassword(p, s, k, pr)
      PROVE  Tasks' /\ Others(p) /\ pc[p] = "idle" /\ pc'[p] \in {"idle", "look"}
  <2> DEFINE ok == InForce(s) /\ (share[s].lock = "open" \/ (Allows(s) /\ VerifyPassword(share[s].lock, pr)))
  <2> DEFINE knows == pr = "right"
  <2>1. ok \in BOOLEAN /\ knows \in BOOLEAN
    BY DEF InForce, ShareExpired, IsExpired, VerifyPassword, Allows
  <2>2. Answer(p, ok, s, k, pr, knows)
    BY <1>1 DEF WithPassword
  <2> HIDE DEF ok, knows
  <2> QED
    BY <2>1, <2>2, AnswerIs
<1>2. ASSUME NEW s \in Share, NEW t \in tickets, WithTicket(p, s, t)
      PROVE  Tasks' /\ Others(p) /\ pc[p] = "idle" /\ pc'[p] \in {"idle", "look"}
  <2> DEFINE ok == InForce(s) /\ (share[s].lock = "open" \/ VerifyTicket(t, s))
  <2>1. ok \in BOOLEAN /\ t.earned \in BOOLEAN
    BY DEF Notes, InForce, ShareExpired, IsExpired, VerifyTicket
  <2>2. Answer(p, ok, s, "content", "none", t.earned)
    BY <1>2 DEF WithTicket
  <2> HIDE DEF ok
  <2> QED
    BY <2>1, <2>2, AnswerIs
<1> QED
  BY <1>1, <1>2 DEF Visitors

-----------------------------------------------------------------------------
(***************************************************************************)
(* Every step keeps the types, and moves one request at most.              *)
(***************************************************************************)
Fine(p) == Types' /\ Others(p)

LEMMA AccountsType ==
    ASSUME Types, NEW p \in Proc, Accounts(p)
    PROVE  Fine(p)
<1> USE DEF Types, Fine
<1>1. ASSUME NEW t \in Token, NEW gen, Bearer(p, t, gen) \/ GqlBearer(p, t, gen)
      PROVE  Fine(p)
  <2> DEFINE j == [NoJob EXCEPT !.as = t, !.admin = token[t].admin]
             k == [NoJob EXCEPT !.as = t, !.admin = token[t].admin, !.front = "gql"]
  <2>1. Go(p, "act", j) \/ Go(p, "act", k)
    BY <1>1 DEF Bearer, GqlBearer, Begin
  <2>2. j \in Jobs /\ k \in Jobs
    BY DEF Rows, TokenRow, NoJob, Jobs, Lock, End4
  <2>3. UNCHANGED <<rows, now, key, tickets>>
    BY <1>1 DEF Bearer, GqlBearer, Calm
  <2> HIDE DEF j, k
  <2> QED
    BY <2>1, <2>2, <2>3, GoIs DEF Point, Rows, rows, Notes
<1>2. ASSUME NEW s \in Session, Cookie(p, s)
      PROVE  Fine(p)
  <2> DEFINE j == [NoJob EXCEPT !.as = session[s].token, !.admin = token[session[s].token].admin]
  <2>1. Go(p, "act", j)
    BY <1>2 DEF Cookie, Begin
  <2>2. j \in Jobs
    BY DEF Rows, SessionRow, TokenRow, NoJob, Jobs, Lock, End4
  <2>3. UNCHANGED <<rows, now, key, tickets>>
    BY <1>2 DEF Cookie, Calm
  <2> HIDE DEF j
  <2> QED
    BY <2>1, <2>2, <2>3, GoIs DEF Point, Rows, rows, Notes
<1>3. ASSUME NEW u \in Person, NEW a \in BOOLEAN, NEW d \in TokenTtls, CreateToken(p, u, a, d)
      PROVE  Fine(p)
  <2>1. End(p) /\ UNCHANGED <<session, login, share, now, key, tickets>>
    BY <1>3 DEF CreateToken, Calm
  <2>2. now + d \in Nat
    BY CredentialsAssumption DEF Rows
  <2>3. token' \in [Token -> TokenRow]
    BY <1>3, <2>2 DEF CreateToken, Rows, TokenRow, Status
  <2> QED
    BY <2>1, <2>3, EndIs DEF Rows, Notes
<1>4. ASSUME NEW t \in Token, NEW d \in TokenTtls, RenewToken(p, t, d)
      PROVE  Fine(p)
  <2>1. End(p) /\ UNCHANGED <<session, login, share, now, key, tickets>>
    BY <1>4 DEF RenewToken, Calm
  <2>2. now + d \in Nat
    BY CredentialsAssumption DEF Rows
  <2>3. token' \in [Token -> TokenRow]
    BY <1>4, <2>2 DEF RenewToken, Rows, TokenRow
  <2> QED
    BY <2>1, <2>3, EndIs DEF Rows, Notes
<1>5. ASSUME NEW t \in Token, RotateToken(p, t) \/ DeleteToken(p, t)
      PROVE  Fine(p)
  <2>1. End(p) /\ UNCHANGED <<session, login, share, now, key, tickets>>
    BY <1>5 DEF RotateToken, DeleteToken, Calm
  <2>2. token' \in [Token -> TokenRow]
    <3>1. CASE RotateToken(p, t)
      BY <3>1 DEF RotateToken, Rows, TokenRow
    <3>2. CASE DeleteToken(p, t)
      BY <3>2 DEF DeleteToken, Rows, TokenRow, Status
    <3> QED
      BY <1>5, <3>1, <3>2
  <2> QED
    BY <2>1, <2>2, EndIs DEF Rows, Notes
<1>6. CASE Logout(p)
  <2>1. End(p) /\ UNCHANGED <<token, login, share, now, key, tickets>>
    BY <1>6 DEF Logout, Calm
  <2>2. session' \in [Session -> SessionRow]
    BY <1>6 DEF Logout, Rows, SessionRow, Status
  <2> QED
    BY <2>1, <2>2, EndIs DEF Rows, Notes
<1> QED
  BY <1>1, <1>2, <1>3, <1>4, <1>5, <1>6 DEF Accounts, GqlCreateToken, GqlRenewToken, GqlDeleteToken

\* A local of a request takes a new value.
LEMMA JobIn ==
    ASSUME NEW j \in Jobs
    PROVE  /\ \A t \in Token, k \in Person : [j EXCEPT !.as = t, !.kind = k] \in Jobs
           /\ \A n \in Nat : [j EXCEPT !.on = n] \in Jobs
           /\ \A l \in Lock, e \in End4 : [j EXCEPT !.lock = l, !.ends = e] \in Jobs
           /\ \A n \in Nat, b \in BOOLEAN : [j EXCEPT !.on = n, !.ok = b] \in Jobs
  BY DEF Jobs

LEMMA KonnectIdTypes ==
    ASSUME Types, NEW p \in Proc, KonnectId(p)
    PROVE  Fine(p)
<1> USE DEF Types, Fine
<1>1. CASE StartLogin(p)
  <2>1. UNCHANGED <<pc, job, token, session, share, now, key, tickets>>
    BY <1>1 DEF StartLogin, Calm
  <2>2. login' \in [Login -> LoginRow]
    BY <1>1 DEF StartLogin, Rows, LoginRow, Status
  <2> QED
    BY <2>1, <2>2 DEF Tasks, Others, Rows, Notes
<1>2. ASSUME NEW l \in Login, TakeState(p, l)
      PROVE  Fine(p)
  <2> DEFINE ok == login[l].st = "live" /\ login[l].at > now - LoginTtl
             j == [NoJob EXCEPT !.on = l, !.ok = ok]
  <2>1. Go(p, "taken", j)
    BY <1>2 DEF TakeState, Begin
  <2>2. j \in Jobs
    <3> HIDE DEF ok
    <3>1. l \in Nat /\ ok \in BOOLEAN
      BY CredentialsAssumption DEF Login, ok
    <3> QED
      BY <3>1, NoJobIn, JobIn
  <2>3. UNCHANGED <<rows, now, key, tickets>>
    BY <1>2 DEF TakeState
  <2> HIDE DEF j
  <2> QED
    BY <2>1, <2>2, <2>3, GoIs DEF Point, Rows, rows, Notes
<1>3. CASE DropState(p) \/ DropStateFails(p)
  <2>1. Go(p, "found", job[p]) \/ End(p)
    BY <1>3 DEF DropState, DropStateFails, AfterTake
  <2>2. UNCHANGED <<token, session, share, now, key, tickets>>
    BY <1>3 DEF DropState, DropStateFails, Calm, rows
  <2>3. login' \in [Login -> LoginRow]
    <3>1. CASE DropState(p)
      BY <3>1 DEF DropState, Rows, LoginRow, Status
    <3>2. CASE DropStateFails(p)
      BY <3>2 DEF DropStateFails, rows, Rows
    <3> QED
      BY <1>3, <3>1, <3>2
  <2>4. job[p] \in Jobs
    BY DEF Tasks
  <2> QED
    BY <2>1, <2>2, <2>3, <2>4, GoIs, EndIs DEF Point, Rows, Notes
<1>4. ASSUME NEW u \in Person, FindToken(p, u)
      PROVE  Fine(p)
  <2> DEFINE mine == {t \in Token : token[t].st = "live" /\ token[t].owner = u}
             j == [job[p] EXCEPT !.as = Min(mine), !.kind = u]
  <2>1. End(p) \/ (mine # {} /\ Go(p, "cookie", j))
    BY <1>4 DEF FindToken
  <2>2. ASSUME mine # {} PROVE j \in Jobs /\ j.as \in Token
    <3>1. mine \in SUBSET Nat
      BY DEF Token
    <3> HIDE DEF mine
    <3>2. Min(mine) \in mine
      BY <2>2, <3>1, MinIn
    <3>3. Min(mine) \in Token
      BY <3>2 DEF mine
    <3>4. job[p] \in Jobs
      BY DEF Tasks
    <3>5. u \in Person /\ j = [job[p] EXCEPT !.as = Min(mine), !.kind = u]
      OBVIOUS
    <3> HIDE DEF j
    <3>6. j \in Jobs
      BY <3>3, <3>4, <3>5, JobIn
    <3>7. j.as = Min(mine)
      BY <3>4, <3>5 DEF Jobs
    <3> QED
      BY <3>3, <3>6, <3>7
  <2>3. UNCHANGED <<rows, now, key, tickets>>
    BY <1>4 DEF FindToken, Calm
  <2> HIDE DEF j, mine
  <2> QED
    BY <2>1, <2>2, <2>3, GoIs, EndIs DEF Point, Rows, rows, Notes
<1>5. CASE Refused(p)
  BY <1>5, EndIs DEF Refused, Rows, rows, Calm, Notes
<1>6. CASE InsertSession(p) /\ job[p].as \in Token
  <2>1. End(p) /\ UNCHANGED <<token, login, share, now, key, tickets>>
    BY <1>6 DEF InsertSession
  <2>2. now + SessionTtl \in Nat
    BY CredentialsAssumption DEF Rows
  <2>3. session' \in [Session -> SessionRow]
    BY <1>6, <2>2 DEF InsertSession, Rows, SessionRow, Status
  <2> QED
    BY <2>1, <2>3, EndIs DEF Rows, Notes
<1>7. ASSUME InsertSession(p)
      PROVE  job[p].as \in Token
  BY <1>7 DEF InsertSession, Tasks
<1> QED
  BY <1>1, <1>2, <1>3, <1>4, <1>5, <1>6, <1>7 DEF KonnectId

LEMMA LinksType ==
    ASSUME Types, NEW p \in Proc, Links(p)
    PROVE  Fine(p)
<1> USE DEF Types, Fine
<1>1. ASSUME NEW e \in {Never, Garbled} \cup {now + d : d \in ShareTtls}, NEW pw \in BOOLEAN,
             CreateShare(p, e, pw) \/ GqlCreateShare(p, e, pw)
      PROVE  Fine(p)
  <2>1. PICK l \in Lock : AskShare(p, l, e)
    BY <1>1 DEF CreateShare, GqlCreateShare, Lock
  <2>2. e \in End4
    BY CredentialsAssumption DEF Rows, End4
  <2>3. job[p] \in Jobs
    BY DEF Tasks
  <2>4. [job[p] EXCEPT !.lock = l, !.ends = e] \in Jobs
    BY <2>2, <2>3, JobIn
  <2> QED
    BY <2>1, <2>4, GoIs DEF AskShare, Calm, Point, Rows, rows, Notes
<1>2. ASSUME NEW s \in Share, AskRevoke(p, s)
      PROVE  Fine(p)
  <2>1. s \in Nat /\ job[p] \in Jobs
    BY CredentialsAssumption DEF Share, Tasks
  <2>2. [job[p] EXCEPT !.on = s] \in Jobs
    BY <2>1, JobIn
  <2> QED
    BY <1>2, <2>2, GoIs DEF AskRevoke, Calm, Point, Rows, rows, Notes
<1>3. CASE InsertShare(p)
  <2>1. End(p) /\ UNCHANGED <<token, session, login, now, key, tickets>>
    BY <1>3 DEF InsertShare, Calm
  <2>2. job[p] \in Jobs
    BY DEF Tasks
  <2>3. [st |-> "live", owner |-> job[p].as, lock |-> job[p].lock, ends |-> job[p].ends] \in ShareRow
    BY <2>2 DEF Jobs, ShareRow, Status
  <2>4. share' \in [Share -> ShareRow]
    BY <1>3, <2>3 DEF InsertShare, Rows
  <2> QED
    BY <2>1, <2>4, EndIs DEF Rows, Notes
<1>4. CASE Revoke(p)
  <2>1. End(p) /\ UNCHANGED <<token, session, login, now, key, tickets>>
    BY <1>4 DEF Revoke, Calm
  <2>2. share' \in [Share -> ShareRow]
    BY <1>4 DEF Revoke, Rows, ShareRow, Status
  <2> QED
    BY <2>1, <2>2, EndIs DEF Rows, Notes
<1> QED
  BY <1>1, <1>2, <1>3, <1>4 DEF Links, GqlRevokeShare

LEMMA VisitTypes ==
    ASSUME Types, NEW p \in Proc, Visit(p)
    PROVE  Fine(p)
<1> USE DEF Types, Fine
<1>1. CASE Visitors(p)
  <2>1. UNCHANGED <<rows, now, key, tickets>>
    BY <1>1 DEF Visitors, WithPassword, WithTicket, Public
  <2> QED
    BY <1>1, <2>1, VisitorsDo DEF Rows, rows, Notes
<1>2. CASE ShowPage(p)
  <2>1. End(p) /\ UNCHANGED <<rows, now, key>>
    BY <1>2 DEF ShowPage
  <2>2. job[p].on \in Nat /\ now + TicketTtl \in Nat /\ (job[p].proof = "right") \in BOOLEAN
    BY CredentialsAssumption DEF Tasks, Jobs, Rows
  <2>3. [share |-> job[p].on, ends |-> now + TicketTtl, key |-> key, earned |-> job[p].proof = "right"]
          \in [share : Nat, ends : Nat, key : Nat, earned : BOOLEAN]
    BY <2>2 DEF Notes
  <2>4. tickets' \subseteq [share : Nat, ends : Nat, key : Nat, earned : BOOLEAN]
    BY <1>2, <2>3 DEF ShowPage, Notes
  <2> QED
    BY <2>1, <2>4, EndIs DEF Rows, rows, Notes
<1>3. CASE ServeFile(p)
  <2>1. End(p) \/ Go(p, "count", job[p])
    BY <1>3 DEF ServeFile
  <2>2. job[p] \in Jobs
    BY DEF Tasks
  <2> QED
    BY <1>3, <2>1, <2>2, GoIs, EndIs DEF ServeFile, Calm, Point, Rows, rows, Notes
<1>4. CASE Count(p)
  BY <1>4, EndIs DEF Count, Calm, Rows, rows, Notes
<1> QED
  BY <1>1, <1>2, <1>3, <1>4 DEF Visit, Visitors, ResolveShare

LEMMA RestartTypes ==
    ASSUME Types, Restart
    PROVE  Types' /\ \A p \in Proc : pc'[p] = "idle"
<1>1. Tasks' /\ \A p \in Proc : pc'[p] = "idle"
  BY NoJobIn DEF Restart, Tasks, Point
<1>2. token' \in [Token -> TokenRow]
  <2>1. token' = token \/ \E t \in Token, u \in Person :
          token' = [token EXCEPT ![t] = [st |-> "live", owner |-> u, admin |-> TRUE, gen |-> 1, ends |-> Never]]
    <3>1. CASE NextId(token) # {}
      <4>1. DOMAIN token = 1 .. NTokens /\ NTokens \in Nat
        BY CredentialsAssumption DEF Types, Rows, Token
      <4>2. Min(NextId(token)) \in Token
        BY <3>1, <4>1, NextIdIn DEF Token
      <4> QED
        BY <4>2 DEF Restart, Bootstrap
    <3>2. CASE NextId(token) = {}
      BY <3>2 DEF Restart, Bootstrap
    <3> QED
      BY <3>1, <3>2
  <2>2. \A u \in Person : [st |-> "live", owner |-> u, admin |-> TRUE, gen |-> 1, ends |-> Never] \in TokenRow
    BY DEF TokenRow, Status
  <2> QED
    BY <2>1, <2>2 DEF Types, Rows
<1> QED
  BY <1>1, <1>2 DEF Types, Rows, Restart, Notes

Requests(p) == Accounts(p) \/ KonnectId(p) \/ Links(p) \/ Visit(p)

LEMMA RequestsType ==
    ASSUME Types, NEW p \in Proc, Requests(p)
    PROVE  Fine(p)
  BY AccountsType, KonnectIdTypes, LinksType, VisitTypes DEF Requests

LEMMA StaysTyped == Types /\ [Next]_vars => Types'
<1> SUFFICES ASSUME Types, [Next]_vars PROVE Types'
  OBVIOUS
<1>1. ASSUME NEW p \in Proc, Requests(p) PROVE Types'
  BY <1>1, RequestsType DEF Fine
<1>2. CASE FileGoes \/ RotateKey \/ Tick \/ UNCHANGED vars
  <2>1. UNCHANGED <<pc, job, token, session, login, share>>
    BY <1>2 DEF FileGoes, RotateKey, Tick, vars, rows
  <2>2. now' \in Nat /\ key' \in Nat /\ tickets' = tickets
    BY <1>2 DEF FileGoes, RotateKey, Tick, vars, Calm, Types, Rows, Notes
  <2> QED
    BY <2>1, <2>2 DEF Types, Tasks, Rows, Notes
<1> QED
  BY <1>1, <1>2, RestartTypes DEF Next, Requests

LEMMA StartsTyped == Init => Types
<1> SUFFICES ASSUME Init PROVE Types
  OBVIOUS
<1>1. 1 \in Token /\ 2 \in Token
  BY CredentialsAssumption DEF Token
<1>2. token \in [Token -> TokenRow]
  BY DEF Init, TokenRow, Status
<1>3. session \in [Session -> SessionRow] /\ login \in [Login -> LoginRow]
  BY <1>1 DEF Init, SessionRow, LoginRow, Status
<1>4. share \in [Share -> ShareRow]
  <2>1. PICK o \in 1 .. 2, l \in {"open", "argon"}, e \in {Never} \cup ShareTtls :
          share = [s \in Share |-> [st |-> IF s = 1 THEN "live" ELSE "unborn", owner |-> o, lock |-> l, ends |-> e]]
    BY DEF Init
  <2>2. o \in Token \cup {0} /\ l \in Lock /\ e \in End4
    <3>1. o = 1 \/ o = 2
      OBVIOUS
    <3>2. e \in End4
      BY CredentialsAssumption DEF End4
    <3> QED
      BY <1>1, <3>1, <3>2 DEF Lock
  <2> QED
    BY <2>1, <2>2 DEF ShareRow, Status
<1>5. Tasks
  BY NoJobIn DEF Init, Tasks, Point
<1> QED
  BY <1>2, <1>3, <1>4, <1>5 DEF Init, Types, Rows, Notes

\* What a request goes on to, of the steps that write no token and no session.
LEMMA GoTo ==
    ASSUME Tasks, NEW p \in Proc, NEW l, NEW j, Go(p, l, j)
    PROVE  pc'[p] = l
  BY DEF Go, Tasks

-----------------------------------------------------------------------------
(***************************************************************************)
(* A session is of who logged in.                                          *)
(***************************************************************************)
\* A token that was looked up for somebody is theirs, or was, and nobody else's.
Found ==
    \A p \in Proc : pc[p] = "cookie" =>
        token[job[p].as].st # "unborn" /\ token[job[p].as].owner = job[p].kind
Persons == who \in [Session -> Person] /\ Found /\ SessionIsOfPerson

\* A row keeps its owner, and one that a session names is not deleted.
OwnersStay ==
    \A t \in Token : token[t].st # "unborn" =>
        /\ token'[t].st # "unborn" /\ token'[t].owner = token[t].owner
        /\ token[t].st = "live" => token'[t].st = "live" \/ ~Named(t)

\* No session is made, and no token looked up.
KeepsPersons ==
    /\ OwnersStay /\ who' = who
    /\ \A s \in Session : session'[s].st = "live" => session'[s] = session[s]
    /\ \A q \in Proc : pc'[q] = "cookie" => pc[q] = "cookie" /\ job'[q] = job[q]

LEMMA PersonsKept ==
    ASSUME Types, Persons, KeepsPersons
    PROVE  Persons'
<1>1. Found'
  BY DEF Types, Tasks, Persons, Found, KeepsPersons, OwnersStay
<1>2. SessionIsOfPerson'
  <2> SUFFICES ASSUME NEW s \in Session, session'[s].st = "live"
               PROVE  /\ token'[session'[s].token].st = "live"
                      /\ token'[session'[s].token].owner = who'[s]
    BY DEF SessionIsOfPerson
  <2> DEFINE t == session[s].token
  <2>1. session'[s] = session[s] /\ who'[s] = who[s] /\ t \in Token
    BY DEF KeepsPersons, Types, Rows, SessionRow
  <2>2. token[t].st = "live" /\ token[t].owner = who[s] /\ Named(t)
    BY <2>1 DEF Persons, SessionIsOfPerson, Named
  <2> QED
    BY <2>1, <2>2 DEF KeepsPersons, OwnersStay
<1> QED
  BY <1>1, <1>2 DEF Persons, KeepsPersons

\* The steps that write no token and no session.
Apart(p) ==
    \/ \E t \in Token, gen \in 1 .. MaxOps + 1 : Bearer(p, t, gen) \/ GqlBearer(p, t, gen)
    \/ \E s \in Session : Cookie(p, s)
    \/ StartLogin(p) \/ \E l \in Login : TakeState(p, l)
    \/ DropState(p) \/ DropStateFails(p) \/ Refused(p)
    \/ Links(p) \/ Visit(p)

LEMMA ApartIs ==
    ASSUME Types, NEW p \in Proc, Apart(p)
    PROVE  UNCHANGED <<token, session, who>> /\ (pc'[p] = "cookie" => UNCHANGED <<pc, job>>)
<1> USE DEF Types
<1>1. ASSUME NEW t \in Token, NEW gen, Bearer(p, t, gen) \/ GqlBearer(p, t, gen)
      PROVE  UNCHANGED <<token, session, who>> /\ pc'[p] # "cookie"
  BY <1>1, GoTo DEF Bearer, GqlBearer, Begin, rows, Calm, hist
<1>2. ASSUME NEW s \in Session, Cookie(p, s)
      PROVE  UNCHANGED <<token, session, who>> /\ pc'[p] # "cookie"
  BY <1>2, GoTo DEF Cookie, Begin, rows, Calm, hist
<1>3. ASSUME NEW l \in Login, TakeState(p, l)
      PROVE  UNCHANGED <<token, session, who>> /\ pc'[p] # "cookie"
  BY <1>3, GoTo DEF TakeState, Begin, rows
<1>4. CASE StartLogin(p)
  BY <1>4 DEF StartLogin, Calm, hist
<1>5. CASE DropState(p) \/ DropStateFails(p) \/ Refused(p)
  BY <1>5, GoTo DEF DropState, DropStateFails, Refused, AfterTake, End, rows, Calm, hist
<1>6. CASE Links(p)
  <2>1. \E l \in {"idle", "share", "revoke"} : \E j : Go(p, l, j)
    BY <1>6 DEF Links, CreateShare, GqlCreateShare, AskShare, AskRevoke, GqlRevokeShare, InsertShare, Revoke, End
  <2>2. UNCHANGED <<token, session, who>>
    BY <1>6 DEF Links, CreateShare, GqlCreateShare, AskShare, AskRevoke, GqlRevokeShare, InsertShare, Revoke,
                rows, Calm, hist
  <2> QED
    BY <2>1, <2>2, GoTo
<1>7. CASE Visit(p)
  <2>1. Visitors(p) \/ ShowPage(p) \/ ServeFile(p) \/ Count(p)
    BY <1>7 DEF Visit, Visitors, ResolveShare
  <2>2. pc'[p] # "cookie"
    BY <2>1, VisitorsDo, GoTo DEF ShowPage, ServeFile, Count, End
  <2>3. UNCHANGED <<token, session, who>>
    BY <2>1 DEF Visitors, WithPassword, WithTicket, Public, ShowPage, ServeFile, Count, rows, Calm, hist
  <2> QED
    BY <2>2, <2>3
<1> QED
  BY <1>1, <1>2, <1>3, <1>4, <1>5, <1>6, <1>7 DEF Apart

\* A token is written where there was none, or keeps its owner.
LEMMA TokensKeepPersons ==
    ASSUME Types, Persons, NEW p \in Proc,
           \/ \E u \in Person, a \in BOOLEAN, d \in TokenTtls : CreateToken(p, u, a, d)
           \/ \E t \in Token, d \in TokenTtls : RenewToken(p, t, d)
           \/ \E t \in Token : RotateToken(p, t) \/ DeleteToken(p, t)
           \/ Logout(p)
    PROVE  KeepsPersons
<1> USE DEF Types
<1>1. End(p) /\ who' = who
  BY DEF CreateToken, RenewToken, RotateToken, DeleteToken, Logout, Calm, hist
<1>2. Others(p) /\ pc'[p] = "idle"
  BY <1>1, EndIs
<1>3. \A s \in Session : session'[s].st = "live" => session'[s] = session[s]
  BY DEF CreateToken, RenewToken, RotateToken, DeleteToken, Logout, Rows, SessionRow
<1>4. OwnersStay
  <2>1. ASSUME NEW u \in Person, NEW a \in BOOLEAN, NEW d \in TokenTtls, CreateToken(p, u, a, d)
        PROVE  OwnersStay
    <3>1. DOMAIN token = 1 .. NTokens /\ NTokens \in Nat
      BY CredentialsAssumption DEF Rows, Token
    <3>2. token[Min(NextId(token))].st = "unborn"
      BY <2>1, <3>1, NextIdIn DEF CreateToken
    <3>3. \A t \in Token : token[t].st # "unborn" => token'[t] = token[t]
      BY <2>1, <3>2 DEF CreateToken, Rows
    <3> QED
      BY <3>3 DEF OwnersStay
  <2>2. ASSUME NEW t \in Token, NEW d \in TokenTtls, RenewToken(p, t, d)
        PROVE  OwnersStay
    BY <2>2 DEF RenewToken, OwnersStay, Rows, TokenRow
  <2>3. ASSUME NEW t \in Token, RotateToken(p, t)
        PROVE  OwnersStay
    BY <2>3 DEF RotateToken, OwnersStay, Rows, TokenRow
  <2>4. ASSUME NEW t \in Token, DeleteToken(p, t)
        PROVE  OwnersStay
    <3>1. \A i \in Token : token'[i] = token[i] \/ (i = t /\ ~Named(t) /\ token'[i] = [token[i] EXCEPT !.st = "gone"])
      BY <2>4 DEF DeleteToken, Rows
    <3> QED
      BY <3>1 DEF OwnersStay, Rows, TokenRow
  <2>5. CASE Logout(p)
    BY <2>5 DEF Logout, OwnersStay
  <2> QED
    BY <2>1, <2>2, <2>3, <2>4, <2>5
<1> QED
  BY <1>1, <1>2, <1>3, <1>4 DEF KeepsPersons, Others

LEMMA FindsTheirs ==
    ASSUME Types, Persons, NEW p \in Proc, NEW u \in Person, FindToken(p, u)
    PROVE  Persons'
<1> DEFINE mine == {t \in Token : token[t].st = "live" /\ token[t].owner = u}
<1>1. UNCHANGED <<token, session, who>>
  BY DEF FindToken, rows, Calm, hist
<1>2. CASE mine = {}
  BY <1>1, <1>2, EndIs, PersonsKept DEF FindToken, Types, KeepsPersons, OwnersStay, Others
<1>3. CASE mine # {}
  <2>1. Min(mine) \in mine
    <3>1. mine \in SUBSET Nat
      BY DEF Token
    <3> HIDE DEF mine
    <3> QED
      BY <1>3, <3>1, MinIn
  <2>2. pc' = [pc EXCEPT ![p] = "cookie"] /\ job' = [job EXCEPT ![p] = [@ EXCEPT !.as = Min(mine), !.kind = u]]
    BY <1>3 DEF FindToken, Go
  <2>3. token[Min(mine)].st = "live" /\ token[Min(mine)].owner = u
    BY <2>1
  <2> HIDE DEF mine
  <2>4. job'[p].as = Min(mine) /\ job'[p].kind = u
    BY <2>2 DEF Types, Tasks, Jobs
  <2>5. Found'
    BY <1>1, <2>2, <2>3, <2>4 DEF Found, Persons, Types, Tasks
  <2> QED
    BY <1>1, <2>5 DEF Persons, SessionIsOfPerson
<1> QED
  BY <1>2, <1>3

LEMMA SessionsAreTheirs ==
    ASSUME Types, Persons, NEW p \in Proc, InsertSession(p)
    PROVE  Persons'
<1> USE DEF Types
<1>1. End(p) /\ token' = token /\ pc[p] = "cookie"
  BY DEF InsertSession
<1>2. Others(p) /\ pc'[p] = "idle"
  BY <1>1, EndIs
<1>3. Found'
  BY <1>1, <1>2 DEF Found, Persons, Others
<1>4. CASE token[job[p].as].st # "live"
  BY <1>3, <1>4 DEF InsertSession, Persons, SessionIsOfPerson
<1>5. CASE token[job[p].as].st = "live"
  <2> DEFINE s == Min(NextId(session))
  <2>1. DOMAIN session = 1 .. NSessions /\ NSessions \in Nat
    BY CredentialsAssumption DEF Rows, Session
  <2>2. s \in Session
    BY <2>1, NextIdIn DEF InsertSession, Session
  <2>3. /\ session' = [session EXCEPT ![s] = [st |-> "live", token |-> job[p].as, ends |-> now + SessionTtl]]
        /\ who' = [who EXCEPT ![s] = job[p].kind]
    BY <1>5 DEF InsertSession
  <2>4. token[job[p].as].owner = job[p].kind /\ job[p].as \in Token
    BY <1>1 DEF Persons, Found, Tasks
  <2>5. job[p].kind \in Person
    BY <2>4 DEF Rows, TokenRow
  <2> HIDE DEF s
  <2>6. \A i \in Session :
          /\ session'[i].token = IF i = s THEN job[p].as ELSE session[i].token
          /\ session'[i].st = IF i = s THEN "live" ELSE session[i].st
          /\ who'[i] = IF i = s THEN job[p].kind ELSE who[i]
    BY <2>3 DEF Rows, Persons
  <2>7. SessionIsOfPerson'
    BY <1>1, <1>5, <2>4, <2>6 DEF Persons, SessionIsOfPerson
  <2> QED
    BY <1>3, <2>3, <2>5, <2>7 DEF Persons
<1> QED
  BY <1>4, <1>5

LEMMA RestartKeepsOwners ==
    ASSUME Types, Restart
    PROVE  OwnersStay
<1>1. CASE NextId(token) = {}
  BY <1>1 DEF Restart, Bootstrap, OwnersStay
<1>2. CASE NextId(token) # {}
  <2>1. DOMAIN token = 1 .. NTokens /\ NTokens \in Nat
    BY CredentialsAssumption DEF Types, Rows, Token
  <2>2. token[Min(NextId(token))].st = "unborn"
    BY <1>2, <2>1, NextIdIn
  <2>3. \A t \in Token : token[t].st # "unborn" => token'[t] = token[t]
    BY <2>2 DEF Restart, Bootstrap, Types, Rows
  <2> QED
    BY <2>3 DEF OwnersStay
<1> QED
  BY <1>1, <1>2

LEMMA PersonsStay == Types /\ Persons /\ [Next]_vars => Persons'
<1> SUFFICES ASSUME Types, Persons, [Next]_vars PROVE Persons'
  OBVIOUS
<1>1. ASSUME NEW p \in Proc, Requests(p) PROVE Persons'
  <2>1. CASE Apart(p)
    <3>1. Others(p)
      BY <1>1, RequestsType DEF Fine
    <3>2. KeepsPersons
      BY <2>1, <3>1, ApartIs DEF KeepsPersons, OwnersStay, Others
    <3> QED
      BY <3>2, PersonsKept
  <2>2. CASE ~Apart(p)
    BY <1>1, <2>2, TokensKeepPersons, PersonsKept, FindsTheirs, SessionsAreTheirs
       DEF Requests, Accounts, KonnectId, Apart, GqlCreateToken, GqlRenewToken, GqlDeleteToken
  <2> QED
    BY <2>1, <2>2
<1>2. CASE FileGoes \/ RotateKey \/ Tick \/ UNCHANGED vars
  <2>1. UNCHANGED <<pc, job, token, session, who>>
    BY <1>2 DEF FileGoes, RotateKey, Tick, vars, rows, hist, Calm
  <2> QED
    BY <2>1 DEF Persons, Found, SessionIsOfPerson
<1>3. CASE Restart
  BY <1>3, RestartTypes, RestartKeepsOwners, PersonsKept DEF KeepsPersons, Restart
<1> QED
  BY <1>1, <1>2, <1>3 DEF Next, Requests

\* konnect.rs 269-300: whatever tokens are deleted, made or rotated between the lookup and
\* the INSERT, a session is of the account of who logged in.
THEOREM SessionsOfPersons == Spec => []SessionIsOfPerson
<1>1. Init => Persons
  BY DEF Init, Persons, Found, SessionIsOfPerson
<1>2. Persons => SessionIsOfPerson
  BY DEF Persons
<1> QED
  BY <1>1, <1>2, StartsTyped, StaysTyped, PersonsStay, PTL DEF Spec

-----------------------------------------------------------------------------
(***************************************************************************)
(* A login's state serves once.                                            *)
(***************************************************************************)
\* A callback that has read the row of a state, and one that has found it good.
Reading(p, l) == pc[p] = "taken" /\ job[p].on = l
Passing(p, l) == pc[p] \in {"taken", "found", "cookie"} /\ job[p].on = l /\ (pc[p] = "taken" => job[p].ok)
Past(p, l)    == pc[p] \in {"found", "cookie"} /\ job[p].on = l
Opened(s, l)  == session[s].st # "unborn" /\ from[s] = l

\* Once a callback is past a state, the state is gone, and one callback alone goes on with
\* it, or one session alone came of it.
Alone(l) ==
    /\ \A p \in Proc : Past(p, l) => login[l].st = "gone"
    /\ \A s \in Session : Opened(s, l) => login[l].st = "gone"
    /\ \A p, q \in Proc : Reading(p, l) /\ Reading(q, l) => p = q
    /\ \A p, q \in Proc : Passing(p, l) /\ Passing(q, l) => p = q
    /\ \A p \in Proc, s \in Session : ~(Passing(p, l) /\ Opened(s, l))
    /\ \A s, t \in Session : Opened(s, l) /\ Opened(t, l) => s = t
Logins ==
    /\ \A p \in Proc : pc[p] \in {"taken", "found", "cookie"} =>
         job[p].on \in Login /\ login[job[p].on].st # "unborn"
    /\ from \in [Session -> Nat]
    /\ \A s \in Session : session[s].st # "unborn" => from[s] \in Login
    /\ \A l \in Login \ crossed : Alone(l)

\* No callback takes a state, gets past one, or ends with a session.
StatesStay ==
    /\ crossed \subseteq crossed'
    /\ \A l \in Login : /\ login[l].st # "unborn" => login'[l].st # "unborn"
                        /\ login[l].st = "gone" => login'[l].st = "gone"
KeepsLogins ==
    /\ StatesStay /\ from' = from
    /\ \A s \in Session : session'[s].st # "unborn" => session[s].st # "unborn"
    /\ \A q \in Proc : /\ pc'[q] = "taken" => pc[q] = "taken" /\ job'[q] = job[q]
                       /\ pc'[q] \in {"found", "cookie"} =>
                            pc[q] \in {"found", "cookie"} /\ job'[q].on = job[q].on

LEMMA LoginsKept ==
    ASSUME Types, Logins, KeepsLogins
    PROVE  Logins'
<1>1. ASSUME NEW p \in Proc, pc'[p] \in {"taken", "found", "cookie"}
      PROVE  job'[p].on \in Login /\ login'[job'[p].on].st # "unborn"
  BY <1>1 DEF Logins, KeepsLogins, StatesStay
<1>2. ASSUME NEW l \in Login \ crossed'
      PROVE  Alone(l)'
  <2>1. Alone(l) /\ l \notin crossed
    BY DEF Logins, KeepsLogins, StatesStay
  <2>2. \A p \in Proc : /\ Past(p, l)' => Past(p, l)
                        /\ Reading(p, l)' => Reading(p, l)
                        /\ Passing(p, l)' => Passing(p, l)
    BY DEF KeepsLogins, Past, Reading, Passing
  <2>3. \A s \in Session : Opened(s, l)' => Opened(s, l)
    BY DEF KeepsLogins, Opened
  <2>4. login[l].st = "gone" => login'[l].st = "gone"
    BY DEF KeepsLogins, StatesStay
  <2> QED
    BY <2>1, <2>2, <2>3, <2>4 DEF Alone
<1> QED
  BY <1>1, <1>2 DEF Logins, KeepsLogins

\* The steps of requests that are not callbacks, or end one.
Elsewhere(p) == Accounts(p) \/ StartLogin(p) \/ Refused(p) \/ Links(p) \/ Visit(p)

LEMMA ElsewhereKeeps ==
    ASSUME Types, NEW p \in Proc, Elsewhere(p), Others(p)
    PROVE  KeepsLogins
<1> USE DEF Types
<1>1. CASE Accounts(p)
  <2>1. \E l \in {"idle", "act"} : \E j : Go(p, l, j)
    BY <1>1 DEF Accounts, Bearer, GqlBearer, Cookie, CreateToken, RenewToken, RotateToken, DeleteToken, Logout,
                GqlCreateToken, GqlRenewToken, GqlDeleteToken, Begin, End
  <2>2. UNCHANGED <<login, from, crossed>>
    BY <1>1 DEF Accounts, Bearer, GqlBearer, Cookie, CreateToken, RenewToken, RotateToken, DeleteToken, Logout,
                GqlCreateToken, GqlRenewToken, GqlDeleteToken, rows, Calm, hist
  <2>3. \A s \in Session : session'[s].st # "unborn" => session[s].st # "unborn"
    <3>1. Logout(p) \/ session' = session
      BY <1>1 DEF Accounts, Bearer, GqlBearer, Cookie, CreateToken, RenewToken, RotateToken, DeleteToken,
                  GqlCreateToken, GqlRenewToken, GqlDeleteToken, rows
    <3> QED
      BY <3>1 DEF Logout, Rows, SessionRow
  <2> QED
    BY <2>1, <2>2, <2>3, GoTo DEF KeepsLogins, StatesStay, Others
<1>2. CASE StartLogin(p)
  <2>1. DOMAIN login = 1 .. NLogins /\ NLogins \in Nat
    BY CredentialsAssumption DEF Rows, Login
  <2>2. login[Min(NextId(login))].st = "unborn"
    BY <1>2, <2>1, NextIdIn DEF StartLogin
  <2>3. \A l \in Login : login[l].st # "unborn" => login'[l] = login[l]
    BY <1>2, <2>2 DEF StartLogin, Rows
  <2> QED
    BY <1>2, <2>3 DEF StartLogin, Calm, hist, KeepsLogins, StatesStay
<1>3. CASE Refused(p)
  BY <1>3, EndIs DEF Refused, rows, Calm, hist, KeepsLogins, StatesStay, Others
<1>4. CASE Links(p)
  <2>1. \E l \in {"idle", "share", "revoke"} : \E j : Go(p, l, j)
    BY <1>4 DEF Links, CreateShare, GqlCreateShare, AskShare, AskRevoke, GqlRevokeShare, InsertShare, Revoke, End
  <2>2. UNCHANGED <<session, login, from, crossed>>
    BY <1>4 DEF Links, CreateShare, GqlCreateShare, AskShare, AskRevoke, GqlRevokeShare, InsertShare, Revoke,
                rows, Calm, hist
  <2> QED
    BY <2>1, <2>2, GoTo DEF KeepsLogins, StatesStay, Others
<1>5. CASE Visit(p)
  <2>1. Visitors(p) \/ ShowPage(p) \/ ServeFile(p) \/ Count(p)
    BY <1>5 DEF Visit, Visitors, ResolveShare
  <2>2. pc'[p] \in {"idle", "look", "count"}
    BY <2>1, VisitorsDo, GoTo DEF ShowPage, ServeFile, Count, End
  <2>3. UNCHANGED <<session, login, from, crossed>>
    BY <2>1 DEF Visitors, WithPassword, WithTicket, Public, ShowPage, ServeFile, Count, rows, Calm, hist
  <2> QED
    BY <2>2, <2>3 DEF KeepsLogins, StatesStay, Others
<1> QED
  BY <1>1, <1>2, <1>3, <1>4, <1>5 DEF Elsewhere

LEMMA FindKeepsLogins ==
    ASSUME Types, NEW p \in Proc, NEW u \in Person, FindToken(p, u), Others(p)
    PROVE  KeepsLogins
<1>1. UNCHANGED <<session, login, from, crossed>> /\ pc[p] = "found"
  BY DEF FindToken, rows, Calm, hist
<1>2. pc'[p] = "idle" \/ (pc'[p] = "cookie" /\ job'[p].on = job[p].on)
  <2> DEFINE mine == {t \in Token : token[t].st = "live" /\ token[t].owner = u}
  <2> DEFINE j == [job[p] EXCEPT !.as = Min(mine), !.kind = u]
  <2>1. pc \in [Proc -> Point] /\ job \in [Proc -> Jobs]
    BY DEF Types, Tasks
  <2>2. j.on = job[p].on
    <3>1. job[p] \in Jobs
      BY <2>1
    <3> QED
      BY <3>1 DEF Jobs
  <2>3. End(p) \/ Go(p, "cookie", j)
    BY DEF FindToken
  <2> HIDE DEF j
  <2>4. CASE End(p)
    BY <2>4, EndIs DEF Types
  <2>5. CASE Go(p, "cookie", j)
    BY <2>1, <2>2, <2>5 DEF Go
  <2> QED
    BY <2>3, <2>4, <2>5
<1> QED
  BY <1>1, <1>2 DEF KeepsLogins, StatesStay, Others

\* Two callbacks that read one row at a time have crossed.
LEMMA TakesAlone ==
    ASSUME Types, Logins, NEW p \in Proc, NEW l \in Login, TakeState(p, l),
           login[l].st # "unborn", Others(p)
    PROVE  Logins'
<1> DEFINE ok == login[l].st = "live" /\ login[l].at > now - LoginTtl
<1>1. /\ UNCHANGED <<session, login, from>> /\ pc[p] = "idle"
      /\ crossed' = crossed \cup {i \in {l} : \E q \in Proc : Reading(q, i)}
  BY DEF TakeState, Begin, rows, Reading
<1>2. pc'[p] = "taken" /\ job'[p].on = l /\ job'[p].ok = ok
  <2> DEFINE j == [NoJob EXCEPT !.on = l, !.ok = ok]
  <2>1. j.on = l /\ j.ok = ok
    BY DEF NoJob
  <2>2. pc' = [pc EXCEPT ![p] = "taken"] /\ job' = [job EXCEPT ![p] = j]
    BY DEF TakeState, Begin, Go
  <2> HIDE DEF j, ok
  <2> QED
    BY <2>1, <2>2 DEF Types, Tasks
<1> HIDE DEF ok
<1>3. ASSUME NEW i \in Login \ crossed'
      PROVE  Alone(i)'
  <2>1. Alone(i)
    BY <1>1 DEF Logins
  <2>2. \A s \in Session : Opened(s, i)' <=> Opened(s, i)
    BY <1>1 DEF Opened
  <2>3. \A q \in Proc \ {p} : /\ Past(q, i)' <=> Past(q, i)
                              /\ Reading(q, i)' <=> Reading(q, i)
                              /\ Passing(q, i)' <=> Passing(q, i)
    BY DEF Others, Past, Reading, Passing
  <2>4. ~Past(p, i)' /\ (Reading(p, i)' <=> i = l) /\ (Passing(p, i)' <=> i = l /\ ok)
    BY <1>2 DEF Past, Reading, Passing
  <2>5. CASE i # l
    BY <1>1, <2>1, <2>2, <2>3, <2>4, <2>5 DEF Alone
  <2>6. CASE i = l
    <3>1. \A q \in Proc : ~Reading(q, l)
      BY <1>1, <2>6
    <3>2. ASSUME ok PROVE (\A q \in Proc : ~Passing(q, l)) /\ (\A s \in Session : ~Opened(s, l))
      <4>1. login[l].st # "gone"
        BY <3>2 DEF ok
      <4> QED
        BY <2>1, <2>6, <3>1, <4>1 DEF Alone, Past, Passing, Reading
    <3> QED
      BY <1>1, <2>1, <2>2, <2>3, <2>4, <2>6, <3>1, <3>2 DEF Alone
  <2> QED
    BY <2>5, <2>6
<1>4. ASSUME NEW q \in Proc, pc'[q] \in {"taken", "found", "cookie"}
      PROVE  job'[q].on \in Login /\ login'[job'[q].on].st # "unborn"
  BY <1>1, <1>2, <1>4 DEF Logins, Others
<1> QED
  BY <1>1, <1>3, <1>4 DEF Logins

LEMMA PassesAlone ==
    ASSUME Types, Logins, NEW p \in Proc, DropState(p) \/ DropStateFails(p), Others(p)
    PROVE  Logins'
<1> DEFINE l == job[p].on
<1>1. pc[p] = "taken" /\ UNCHANGED <<session, from>> /\ crossed \subseteq crossed'
  BY DEF DropState, DropStateFails, Calm, hist, rows
<1>2. /\ pc'[p] \in {"idle", "found"}
      /\ pc'[p] = "found" => job[p].ok /\ job'[p] = job[p]
  BY DEF DropState, DropStateFails, AfterTake, Go, End, Types, Tasks
<1>3. l \in Login /\ login[l].st # "unborn"
  BY <1>1 DEF Logins
<1>4. /\ \A i \in Login : login'[i].st = IF i = l /\ l \notin crossed' THEN "gone" ELSE login'[i].st
      /\ \A i \in Login \ {l} : login'[i] = login[i]
      /\ login'[l].st \in {"gone", login[l].st}
  <2>1. CASE DropState(p)
    <3>1. login' = [login EXCEPT ![l].st = IF @ = "live" THEN "gone" ELSE @]
      BY <2>1 DEF DropState
    <3>2. login[l].st \in {"live", "gone"}
      BY <1>3 DEF Types, Rows, LoginRow, Status
    <3> HIDE DEF l
    <3>3. login'[l].st = "gone" /\ \A i \in Login \ {l} : login'[i] = login[i]
      BY <1>3, <3>1, <3>2 DEF Types, Rows, LoginRow
    <3> QED
      BY <3>3
  <2>2. CASE DropStateFails(p)
    BY <2>2 DEF DropStateFails, rows
  <2> QED
    BY <2>1, <2>2
<1> HIDE DEF l
<1>5. ASSUME NEW i \in Login \ crossed'
      PROVE  Alone(i)'
  <2>1. Alone(i)
    BY <1>1 DEF Logins
  <2>2. \A s \in Session : Opened(s, i)' <=> Opened(s, i)
    BY <1>1 DEF Opened
  <2>3. \A q \in Proc \ {p} : /\ Past(q, i)' <=> Past(q, i)
                              /\ Reading(q, i)' <=> Reading(q, i)
                              /\ Passing(q, i)' <=> Passing(q, i)
    BY DEF Others, Past, Reading, Passing
  <2>4. /\ ~Reading(p, i)'
        /\ Past(p, i)' => i = l /\ Passing(p, i)
        /\ Passing(p, i)' => i = l /\ Passing(p, i)
    BY <1>1, <1>2 DEF Past, Reading, Passing, l
  <2>5. CASE i # l
    BY <1>4, <2>1, <2>2, <2>3, <2>4, <2>5 DEF Alone
  <2>6. CASE i = l
    <3>1. login'[i].st = "gone"
      BY <1>4, <2>6
    <3> QED
      BY <2>1, <2>2, <2>3, <2>4, <3>1 DEF Alone
  <2> QED
    BY <2>5, <2>6
<1>6. ASSUME NEW q \in Proc, pc'[q] \in {"taken", "found", "cookie"}
      PROVE  job'[q].on \in Login /\ login'[job'[q].on].st # "unborn"
  <2>1. pc[q] \in {"taken", "found", "cookie"} /\ job'[q].on = job[q].on
    BY <1>1, <1>2, <1>6 DEF Others
  <2> QED
    BY <1>3, <1>4, <2>1 DEF Logins
<1> QED
  BY <1>1, <1>5, <1>6 DEF Logins

LEMMA OpensAlone ==
    ASSUME Types, Logins, NEW p \in Proc, InsertSession(p), Others(p)
    PROVE  Logins'
<1>1. pc[p] = "cookie" /\ pc'[p] = "idle" /\ UNCHANGED <<login, crossed>>
  BY EndIs DEF InsertSession, Types
<1>2. CASE UNCHANGED <<session, from>>
  BY <1>1, <1>2, LoginsKept DEF KeepsLogins, StatesStay, Others
<1>3. CASE ~UNCHANGED <<session, from>>
  <2>1. DOMAIN session = 1 .. NSessions /\ NSessions \in Nat
    BY CredentialsAssumption DEF Types, Rows, Session
  <2>2. PICK s \in Session : s = Min(NextId(session)) /\ session[s].st = "unborn"
    BY <2>1, NextIdIn DEF InsertSession, Session
  <2>3. PICK l \in Login : l = job[p].on /\ Past(p, l)
    BY <1>1 DEF Logins, Past
  <2>4. /\ session' = [session EXCEPT ![s] = [st |-> "live", token |-> job[p].as, ends |-> now + SessionTtl]]
        /\ from' = [from EXCEPT ![s] = l]
    BY <1>3, <2>2, <2>3 DEF InsertSession
  <2>5. /\ from' \in [Session -> Nat] /\ from'[s] = l /\ session'[s].st = "live"
        /\ \A i \in Session \ {s} : session'[i] = session[i] /\ from'[i] = from[i]
    <3>1. l \in Nat
      BY DEF Login
    <3>2. session \in [Session -> SessionRow] /\ from \in [Session -> Nat]
      BY DEF Logins, Types, Rows
    <3> QED
      BY <2>4, <3>1, <3>2
  <2>6. ASSUME NEW i \in Login \ crossed'
        PROVE  Alone(i)'
    <3>1. Alone(i)
      BY <1>1 DEF Logins
    <3>2. \A q \in Proc \ {p} : /\ Past(q, i)' <=> Past(q, i)
                                /\ Reading(q, i)' <=> Reading(q, i)
                                /\ Passing(q, i)' <=> Passing(q, i)
      BY DEF Others, Past, Reading, Passing
    <3>3. ~Past(p, i)' /\ ~Reading(p, i)' /\ ~Passing(p, i)'
      BY <1>1 DEF Past, Reading, Passing
    <3>4. \A t \in Session \ {s} : Opened(t, i)' <=> Opened(t, i)
      BY <2>5 DEF Opened
    <3>5. Opened(s, i)' <=> i = l
      BY <2>2, <2>5 DEF Opened
    <3>6. i = l => /\ Past(p, i) /\ Passing(p, i) /\ login[i].st = "gone"
                   /\ \A t \in Session : ~Opened(t, i)
      BY <2>3, <3>1 DEF Alone, Past, Passing
    <3>7. CASE i # l
      BY <1>1, <3>1, <3>2, <3>3, <3>4, <3>5, <3>7 DEF Alone
    <3>8. CASE i = l
      <4>1. \A q \in Proc : ~Past(q, i)' /\ ~Passing(q, i)' /\ (Reading(q, i)' => Reading(q, i))
        BY <3>1, <3>2, <3>3, <3>6, <3>8 DEF Alone, Past, Passing
      <4>2. \A t \in Session : Opened(t, i)' <=> t = s
        BY <3>4, <3>5, <3>6, <3>8
      <4> QED
        BY <1>1, <3>1, <3>6, <3>8, <4>1, <4>2 DEF Alone
    <3> QED
      BY <3>7, <3>8
  <2>7. ASSUME NEW q \in Proc, pc'[q] \in {"taken", "found", "cookie"}
        PROVE  job'[q].on \in Login /\ login'[job'[q].on].st # "unborn"
    BY <1>1, <2>7 DEF Logins, Others
  <2>8. \A i \in Session : session'[i].st # "unborn" => from'[i] \in Login
    BY <2>3, <2>5 DEF Logins
  <2> QED
    BY <2>5, <2>6, <2>7, <2>8 DEF Logins
<1> QED
  BY <1>2, <1>3

LEMMA LoginsStay == Types /\ Logins /\ [Next]_vars => Logins'
<1> SUFFICES ASSUME Types, Logins, [Next]_vars PROVE Logins'
  OBVIOUS
<1>1. ASSUME NEW p \in Proc, Requests(p) PROVE Logins'
  <2>1. Others(p)
    BY <1>1, RequestsType DEF Fine
  <2>2. CASE Elsewhere(p)
    BY <2>1, <2>2, ElsewhereKeeps, LoginsKept
  <2>3. ASSUME NEW u \in Person, FindToken(p, u) PROVE Logins'
    BY <2>1, <2>3, FindKeepsLogins, LoginsKept
  <2>4. ASSUME NEW l \in Login, login[l].st # "unborn", TakeState(p, l) PROVE Logins'
    BY <2>1, <2>4, TakesAlone
  <2> QED
    BY <1>1, <2>1, <2>2, <2>3, <2>4, PassesAlone, OpensAlone DEF Requests, KonnectId, Elsewhere
<1>2. CASE FileGoes \/ RotateKey \/ Tick \/ UNCHANGED vars
  <2>1. UNCHANGED <<pc, job, login, session, from, crossed>>
    BY <1>2 DEF FileGoes, RotateKey, Tick, vars, rows, hist, Calm
  <2> QED
    BY <2>1, LoginsKept DEF KeepsLogins, StatesStay
<1>3. CASE Restart
  BY <1>3, RestartTypes, LoginsKept DEF KeepsLogins, StatesStay, Restart
<1> QED
  BY <1>1, <1>2, <1>3 DEF Next, Requests

\* konnect.rs 195-196: a login's state makes one session at most, unless two callbacks
\* came with it at a time, or the error of its DELETE was ignored.
THEOREM StatesServeOnce == Spec => []OneSessionPerLoginUnlessCrossed
<1>1. Init => Logins
  <2> SUFFICES ASSUME Init PROVE Logins
    OBVIOUS
  <2>1. from \in [Session -> Nat] /\ \A p \in Proc : pc[p] = "idle"
    BY DEF Init
  <2>2. \A s \in Session : session[s].st = "unborn"
    BY DEF Init
  <2> QED
    BY <2>1, <2>2 DEF Logins, Alone, Past, Reading, Passing, Opened
<1>2. Logins => OneSessionPerLoginUnlessCrossed
  BY DEF Logins, Alone, Opened, OneSessionPerLoginUnlessCrossed
<1> QED
  BY <1>1, <1>2, StartsTyped, StaysTyped, LoginsStay, PTL DEF Spec

-----------------------------------------------------------------------------
(***************************************************************************)
(* What is served is due.                                                  *)
(***************************************************************************)
\* A link somebody has visited, if only for a page, stays as open as it was.
Known(s) == s \in Share /\ share[s].st # "unborn"
Earned(s, with) == with \/ share[s].lock = "open"
Dues ==
    /\ \A t \in tickets : Known(t.share) /\ Earned(t.share, t.earned)
    /\ \A p \in Proc : pc[p] = "look" /\ job[p].kind = "page" /\ job[p].proof # "none" =>
         Known(job[p].on) /\ Earned(job[p].on, job[p].proof = "right")
    /\ ServedIsDue

\* No ticket is made, and nobody let in.
LocksStay ==
    \A s \in Share : share[s].st # "unborn" => share'[s].st # "unborn" /\ share'[s].lock = share[s].lock
KeepsDues ==
    /\ LocksStay /\ tickets' = tickets
    /\ \A q \in Proc :
         /\ pc'[q] = "look" => pc[q] = "look" /\ job'[q] = job[q]
         /\ pc'[q] = "count" => pc[q] \in {"look", "count"} /\ job'[q] = job[q]

LEMMA DuesKept ==
    ASSUME Dues, KeepsDues
    PROVE  Dues'
  BY DEF Dues, KeepsDues, LocksStay, Known, Earned, ServedIsDue

\* The steps that let nobody in.
Within(p) == Accounts(p) \/ KonnectId(p) \/ Links(p) \/ ServeFile(p) \/ Count(p)

LEMMA WithinKeeps ==
    ASSUME Types, NEW p \in Proc, Within(p), Others(p)
    PROVE  KeepsDues
<1> USE DEF Types
<1>1. CASE Accounts(p)
  <2>1. \E l \in {"idle", "act"} : \E j : Go(p, l, j)
    BY <1>1 DEF Accounts, Bearer, GqlBearer, Cookie, CreateToken, RenewToken, RotateToken, DeleteToken, Logout,
                GqlCreateToken, GqlRenewToken, GqlDeleteToken, Begin, End
  <2>2. UNCHANGED <<share, tickets>>
    BY <1>1 DEF Accounts, Bearer, GqlBearer, Cookie, CreateToken, RenewToken, RotateToken, DeleteToken, Logout,
                GqlCreateToken, GqlRenewToken, GqlDeleteToken, rows, Calm
  <2> QED
    BY <2>1, <2>2, GoTo DEF KeepsDues, LocksStay, Others
<1>2. CASE KonnectId(p)
  <2>1. UNCHANGED <<pc, job>> \/ \E l \in {"idle", "taken", "found", "cookie"} : \E j : Go(p, l, j)
    BY <1>2 DEF KonnectId, StartLogin, TakeState, DropState, DropStateFails, AfterTake, FindToken, Refused,
                InsertSession, Begin, End
  <2>2. UNCHANGED <<share, tickets>>
    BY <1>2 DEF KonnectId, StartLogin, TakeState, DropState, DropStateFails, FindToken, Refused, InsertSession,
                rows, Calm
  <2> QED
    BY <2>1, <2>2, GoTo DEF KeepsDues, LocksStay, Others
<1>3. CASE Links(p)
  <2>1. \E l \in {"idle", "share", "revoke"} : \E j : Go(p, l, j)
    BY <1>3 DEF Links, CreateShare, GqlCreateShare, AskShare, AskRevoke, GqlRevokeShare, InsertShare, Revoke, End
  <2>2. tickets' = tickets
    BY <1>3 DEF Links, CreateShare, GqlCreateShare, AskShare, AskRevoke, GqlRevokeShare, InsertShare, Revoke, Calm
  <2>3. LocksStay
    <3>1. CASE share' = share
      BY <3>1 DEF LocksStay
    <3>2. CASE Revoke(p)
      BY <3>2 DEF Revoke, LocksStay, Rows, ShareRow
    <3>3. CASE InsertShare(p) /\ share' # share
      <4>1. DOMAIN share = 1 .. NShares /\ NShares \in Nat
        BY CredentialsAssumption DEF Rows, Share
      <4>2. share[Min(NextId(share))].st = "unborn"
        BY <3>3, <4>1, NextIdIn DEF InsertShare
      <4>3. \A s \in Share : share[s].st # "unborn" => share'[s] = share[s]
        BY <3>3, <4>2 DEF InsertShare, Rows
      <4> QED
        BY <4>3 DEF LocksStay
    <3> QED
      BY <1>3, <3>1, <3>2, <3>3 DEF Links, CreateShare, GqlCreateShare, AskShare, AskRevoke, GqlRevokeShare, rows
  <2> QED
    BY <2>1, <2>2, <2>3, GoTo DEF KeepsDues, Others
<1>4. CASE ServeFile(p)
  <2>1. pc'[p] = "idle" \/ (pc[p] = "look" /\ pc'[p] = "count" /\ job'[p] = job[p])
    BY <1>4 DEF ServeFile, Go, End, Tasks
  <2> QED
    BY <1>4, <2>1 DEF ServeFile, rows, Calm, KeepsDues, LocksStay, Others
<1>5. CASE Count(p)
  BY <1>5, EndIs DEF Count, rows, Calm, KeepsDues, LocksStay, Others
<1> QED
  BY <1>1, <1>2, <1>3, <1>4, <1>5 DEF Within

\* Who is let in gave the password, or there is none, or has a ticket of who gave it.
LEMMA VisitorsAreDue ==
    ASSUME Types, Dues, NEW p \in Proc, Visitors(p), Others(p)
    PROVE  Dues'
<1>1. UNCHANGED <<share, tickets>>
  BY DEF Visitors, WithPassword, WithTicket, Public, rows
<1> DEFINE LetIn ==
             /\ pc'[p] # "count"
             /\ pc'[p] = "look" =>
                  /\ job'[p].due
                  /\ job'[p].kind = "page" /\ job'[p].proof # "none" =>
                       Known(job'[p].on) /\ Earned(job'[p].on, job'[p].proof = "right")
<1>2. LetIn
  <2>1. ASSUME NEW s \in Share, NEW k \in {"page", "content"}, NEW pr \in {"none", "right", "wrong"},
               WithPassword(p, s, k, pr)
        PROVE  LetIn
    <3> DEFINE ok == InForce(s) /\ (share[s].lock = "open" \/ (Allows(s) /\ VerifyPassword(share[s].lock, pr)))
               knows == pr = "right"
    <3>1. ok \in BOOLEAN /\ knows \in BOOLEAN
      BY DEF InForce, ShareExpired, IsExpired, VerifyPassword, Allows
    <3>2. Answer(p, ok, s, k, pr, knows)
      BY <2>1 DEF WithPassword
    <3>3. ok => Due(s, knows) /\ Known(s) /\ Earned(s, pr = "right")
      BY DEF Due, InForce, VerifyPassword, Known, Earned
    <3> HIDE DEF ok, knows
    <3> QED
      BY <3>1, <3>2, <3>3, AnswerIs DEF Types
  <2>2. ASSUME NEW s \in Share, NEW t \in tickets, WithTicket(p, s, t)
        PROVE  LetIn
    <3> DEFINE ok == InForce(s) /\ (share[s].lock = "open" \/ VerifyTicket(t, s))
    <3>1. ok \in BOOLEAN /\ t.earned \in BOOLEAN
      BY DEF Types, Notes, InForce, ShareExpired, IsExpired, VerifyTicket
    <3>2. Answer(p, ok, s, "content", "none", t.earned)
      BY <2>2 DEF WithTicket
    <3>3. ok => Due(s, t.earned)
      BY DEF Due, InForce, VerifyTicket, Dues, Earned
    <3> HIDE DEF ok
    <3> QED
      BY <3>1, <3>2, <3>3, AnswerIs DEF Types
  <2> QED
    BY <2>1, <2>2 DEF Visitors
<1> QED
  BY <1>1, <1>2 DEF Dues, Known, Earned, ServedIsDue, Others

\* A ticket is for a link somebody has just visited with a password.
LEMMA TicketsAreEarned ==
    ASSUME Types, Dues, NEW p \in Proc, ShowPage(p), Others(p)
    PROVE  Dues'
<1>1. share' = share /\ pc'[p] = "idle" /\ pc[p] = "look" /\ job[p].kind = "page"
  BY EndIs DEF ShowPage, rows, Types
<1>2. \/ tickets' = tickets
      \/ /\ job[p].proof # "none"
         /\ tickets' = tickets \cup {[share |-> job[p].on, ends |-> now + TicketTtl, key |-> key,
                                      earned |-> job[p].proof = "right"]}
  BY DEF ShowPage
<1>3. \A t \in tickets' : Known(t.share) /\ Earned(t.share, t.earned)
  BY <1>1, <1>2 DEF Dues
<1> QED
  BY <1>1, <1>3 DEF Dues, Known, Earned, ServedIsDue, Others

LEMMA DuesStay == Types /\ Dues /\ [Next]_vars => Dues'
<1> SUFFICES ASSUME Types, Dues, [Next]_vars PROVE Dues'
  OBVIOUS
<1>1. ASSUME NEW p \in Proc, Requests(p) PROVE Dues'
  <2>1. Others(p)
    BY <1>1, RequestsType DEF Fine
  <2>2. Within(p) \/ Visitors(p) \/ ShowPage(p)
    BY <1>1 DEF Requests, Within, Visit, Visitors, ResolveShare
  <2> QED
    BY <2>1, <2>2, WithinKeeps, DuesKept, VisitorsAreDue, TicketsAreEarned
<1>2. CASE FileGoes \/ RotateKey \/ Tick \/ UNCHANGED vars
  <2>1. UNCHANGED <<pc, job, share, tickets>>
    BY <1>2 DEF FileGoes, RotateKey, Tick, vars, rows, Calm
  <2> QED
    BY <2>1, DuesKept DEF KeepsDues, LocksStay
<1>3. CASE Restart
  BY <1>3, RestartTypes, DuesKept DEF KeepsDues, LocksStay, Restart
<1> QED
  BY <1>1, <1>2, <1>3 DEF Next, Requests

\* sharing.rs 525-532, 567-588: no ticket, rotation, revocation, expiry or order of requests
\* lets anybody to a link's content who did not ask while it was in force, with its password.
THEOREM ServedAreDue == Spec => []ServedIsDue
<1>1. Init => Dues
  BY DEF Init, Dues, ServedIsDue
<1>2. Dues => ServedIsDue
  BY DEF Dues
<1> QED
  BY <1>1, <1>2, StartsTyped, StaysTyped, DuesStay, PTL DEF Spec

-----------------------------------------------------------------------------
(***************************************************************************)
(* The budget of a link.                                                   *)
(***************************************************************************)
\* n attempts take n periods, except that Burst of them may come at once.
LEMMA Periods ==
    ASSUME NEW k \in Int, NEW d \in Nat, NEW P \in Nat \ {0}, NEW B \in Int,
           (k + 1) * P <= d + B * P
    PROVE  k < B + d \div P
<1> DEFINE q == d \div P
<1>1. q \in Int /\ d < (q + 1) * P
  OBVIOUS
<1> HIDE DEF q
<1>2. (k + 1 - B) * P < (q + 1) * P
  BY <1>1
<1>3. k + 1 - B < q + 1
  BY <1>1, <1>2
<1> QED
  BY <1>3 DEF q

\* The cell is where a period per attempt since any of them has led, or further on.
Budgets ==
    /\ cell \in [Share -> Nat] /\ tried \in [Share -> Seq(Nat)]
    /\ \A s \in Share : \A i \in 1 .. Len(tried[s]) :
         /\ tried[s][i] <= now
         /\ tried[s][i] + (Len(tried[s]) - i + 1) * Period <= cell[s]
    /\ BudgetHolds

\* A linear fact, stated apart so that the provers see nothing else.
LEMMA StillBefore ==
    \A a, x, d, e, f \in Int : a + x <= e /\ e + d <= f => a + (x + d) <= f
  OBVIOUS

LEMMA BudgetsKept ==
    ASSUME Types, Budgets, UNCHANGED <<cell, tried>>, now' \in Nat, now <= now'
    PROVE  Budgets'
  BY DEF Budgets, BudgetHolds, Types, Rows

LEMMA Spends ==
    ASSUME Types, Budgets, NEW s \in Share, Allows(s), Spend(s), now' = now
    PROVE  Budgets'
<1> DEFINE a == tried[s]
           n == Len(a)
           b == Append(a, now)
           c == (IF cell[s] > now THEN cell[s] ELSE now) + Period
<1>1. Period \in Nat \ {0} /\ Burst \in Nat \ {0} /\ now \in Nat
  BY CredentialsAssumption DEF Types, Rows
<1>2. a \in Seq(Nat) /\ cell[s] \in Nat
  BY DEF Budgets
<1>3. tried' = [tried EXCEPT ![s] = b] /\ cell' = [cell EXCEPT ![s] = c]
  BY DEF Spend, NextCell
<1>4. /\ b \in Seq(Nat) /\ Len(b) = n + 1 /\ n \in Nat
      /\ b[n + 1] = now /\ \A i \in 1 .. n : b[i] = a[i]
  BY <1>1, <1>2
<1>5. c \in Nat /\ c >= cell[s] + Period /\ c >= now + Period
  BY <1>1, <1>2
<1>6. cell[s] <= now + (Burst - 1) * Period
  BY DEF Allows
<1>7. \A i \in 1 .. n : a[i] \in Nat /\ a[i] <= now /\ a[i] + (n - i + 1) * Period <= cell[s]
  BY <1>2 DEF Budgets
<1>8. \A i, j \in 1 .. n : i <= j => j - i < Burst + (a[j] - a[i]) \div Period
  <2>1. DOMAIN a = 1 .. n
    BY <1>2
  <2> HIDE DEF n
  <2> QED
    BY <2>1 DEF Budgets, BudgetHolds
<1> HIDE DEF a, b, c, n
<1>9. \A i \in 1 .. n + 1 : b[i] <= now /\ b[i] + (n + 1 - i + 1) * Period <= c
  <2> SUFFICES ASSUME NEW i \in 1 .. n + 1
               PROVE  b[i] <= now /\ b[i] + (n + 1 - i + 1) * Period <= c
    OBVIOUS
  <2>1. CASE i = n + 1
    BY <1>1, <1>4, <1>5, <2>1
  <2>2. CASE i \in 1 .. n
    <3>1. PICK x \in Int : x = (n - i + 1) * Period
      BY <1>1, <1>4
    <3>2. (n + 1 - i + 1) * Period = x + Period
      BY <1>1, <1>4, <3>1
    <3>3. a[i] \in Nat /\ a[i] <= now /\ a[i] + x <= cell[s] /\ b[i] = a[i]
      BY <1>4, <1>7, <2>2, <3>1
    <3>4. b[i] + (x + Period) <= c
      <4>1. Period \in Int /\ cell[s] \in Int /\ c \in Int /\ a[i] \in Int /\ cell[s] + Period <= c
        BY <1>1, <1>2, <1>5, <3>3
      <4> QED
        BY <4>1, <3>3, StillBefore
    <3> QED
      BY <3>2, <3>3, <3>4
  <2> QED
    BY <1>4, <2>1, <2>2
<1>10. \A i, j \in 1 .. n + 1 : i <= j => j - i < Burst + (b[j] - b[i]) \div Period
  <2> SUFFICES ASSUME NEW i \in 1 .. n + 1, NEW j \in 1 .. n + 1, i <= j
               PROVE  j - i < Burst + (b[j] - b[i]) \div Period
    OBVIOUS
  <2>1. CASE j \in 1 .. n
    BY <1>4, <1>8, <2>1
  <2>2. CASE j = n + 1 /\ i = n + 1
    <3>1. (now - now) \div Period = 0
      BY <1>1
    <3> QED
      BY <1>1, <1>4, <2>2, <3>1
  <2>3. CASE j = n + 1 /\ i \in 1 .. n
    <3> DEFINE d == now - a[i]
               k == n + 1 - i
    <3>1. d \in Nat /\ k \in Int
      BY <1>1, <1>4, <1>7, <2>3
    <3>2. k * Period <= d + (Burst - 1) * Period
      <4>1. PICK x \in Int : x = (n - i + 1) * Period
        BY <1>1, <1>4
      <4>2. k * Period = x
        BY <1>1, <1>4, <4>1
      <4>3. PICK y \in Int : y = (Burst - 1) * Period
        BY <1>1
      <4>4. a[i] \in Nat /\ a[i] + x <= cell[s] /\ cell[s] <= now + y
        BY <1>6, <1>7, <2>3, <4>1, <4>3
      <4>5. x <= now - a[i] + y
        <5>1. now \in Int /\ cell[s] \in Int /\ a[i] \in Int
          BY <1>1, <1>2, <4>4
        <5> QED
          BY <4>4, <5>1
      <4> QED
        BY <4>2, <4>3, <4>5
    <3>3. (k + 1) * Period <= d + Burst * Period
      <4>1. (k + 1) * Period = k * Period + Period /\ Burst * Period = (Burst - 1) * Period + Period
        BY <1>1, <3>1
      <4>2. k * Period \in Int /\ (Burst - 1) * Period \in Int
        BY <1>1, <3>1
      <4> HIDE DEF d, k
      <4> QED
        BY <1>1, <3>1, <3>2, <4>1, <4>2
    <3>4. j - i = k /\ b[j] - b[i] = d
      BY <1>4, <2>3
    <3> HIDE DEF d, k
    <3> QED
      BY <1>1, <3>1, <3>3, <3>4, Periods
  <2> QED
    BY <1>4, <2>1, <2>2, <2>3
<1>11. /\ tried' \in [Share -> Seq(Nat)] /\ cell' \in [Share -> Nat]
       /\ tried'[s] = b /\ cell'[s] = c /\ DOMAIN b = 1 .. n + 1
       /\ \A i \in Share \ {s} : tried'[i] = tried[i] /\ cell'[i] = cell[i]
  <2>1. DOMAIN b = 1 .. n + 1
    BY <1>4
  <2>2. tried \in [Share -> Seq(Nat)] /\ cell \in [Share -> Nat]
    BY DEF Budgets
  <2> QED
    BY <1>3, <1>4, <1>5, <2>1, <2>2
<1>12. ASSUME NEW i \in Share
       PROVE  /\ \A k \in 1 .. Len(tried'[i]) :
                   tried'[i][k] <= now' /\ tried'[i][k] + (Len(tried'[i]) - k + 1) * Period <= cell'[i]
              /\ \A k, l \in DOMAIN tried'[i] :
                   k <= l => l - k < Burst + (tried'[i][l] - tried'[i][k]) \div Period
  <2>1. CASE i = s
    <3>1. tried'[i] = b /\ cell'[i] = c /\ Len(b) = n + 1 /\ DOMAIN b = 1 .. n + 1 /\ now' = now
      BY <1>4, <1>11, <2>1
    <3>2. \A k \in 1 .. Len(b) : b[k] <= now /\ b[k] + (Len(b) - k + 1) * Period <= c
      <4> SUFFICES ASSUME NEW k \in 1 .. Len(b)
                   PROVE  b[k] <= now /\ b[k] + (Len(b) - k + 1) * Period <= c
        OBVIOUS
      <4>1. Len(b) - k + 1 = n + 1 - k + 1 /\ k \in 1 .. n + 1
        BY <1>4, <3>1
      <4> QED
        BY <1>9, <4>1
    <3>3. \A k, l \in DOMAIN b : k <= l => l - k < Burst + (b[l] - b[k]) \div Period
      BY <1>10, <3>1, Zenon
    <3> QED
      BY <3>1, <3>2, <3>3, Zenon
  <2>2. CASE i # s
    <3>1. tried'[i] = tried[i] /\ cell'[i] = cell[i]
      BY <1>11, <2>2
    <3> QED
      BY <3>1 DEF Budgets, BudgetHolds
  <2> QED
    BY <2>1, <2>2
<1> QED
  BY <1>11, <1>12 DEF Budgets, BudgetHolds

\* The steps of requests that try no password.
LEMMA NoTry ==
    ASSUME Types, NEW p \in Proc, Requests(p),
           ~ \E s \in Share, k \in {"page", "content"}, pr \in {"none", "right", "wrong"} : WithPassword(p, s, k, pr)
    PROVE  UNCHANGED <<cell, tried, now>>
<1>1. CASE Accounts(p)
  BY <1>1 DEF Accounts, Bearer, GqlBearer, Cookie, CreateToken, RenewToken, RotateToken, DeleteToken, Logout,
              GqlCreateToken, GqlRenewToken, GqlDeleteToken, Calm, hist
<1>2. CASE KonnectId(p)
  BY <1>2 DEF KonnectId, StartLogin, TakeState, DropState, DropStateFails, FindToken, Refused, InsertSession,
              Calm, hist
<1>3. CASE Links(p)
  BY <1>3 DEF Links, CreateShare, GqlCreateShare, AskShare, AskRevoke, GqlRevokeShare, InsertShare, Revoke,
              Calm, hist
<1>4. CASE Visit(p)
  BY <1>4 DEF Visit, WithTicket, Public, ShowPage, ServeFile, ResolveShare, Count, Calm, hist
<1> QED
  BY <1>1, <1>2, <1>3, <1>4 DEF Requests

LEMMA BudgetsStay == Types /\ Budgets /\ [Next]_vars => Budgets'
<1> SUFFICES ASSUME Types, Budgets, [Next]_vars PROVE Budgets'
  OBVIOUS
<1>1. now \in Nat
  BY DEF Types, Rows
<1>2. ASSUME NEW p \in Proc, Requests(p) PROVE Budgets'
  <2>1. ASSUME NEW s \in Share, NEW k \in {"page", "content"}, NEW pr \in {"none", "right", "wrong"},
               WithPassword(p, s, k, pr)
        PROVE  Budgets'
    <3>1. now' = now /\ ((Allows(s) /\ Spend(s)) \/ UNCHANGED <<cell, tried>>)
      BY <2>1 DEF WithPassword, Public
    <3> QED
      BY <1>1, <3>1, Spends, BudgetsKept
  <2> QED
    BY <1>1, <1>2, <2>1, NoTry, BudgetsKept
<1>3. CASE FileGoes \/ RotateKey \/ Tick \/ UNCHANGED vars
  <2>1. UNCHANGED <<cell, tried>> /\ now' \in {now, now + 1}
    BY <1>3 DEF FileGoes, RotateKey, Tick, vars, hist, Calm
  <2> QED
    BY <1>1, <2>1, BudgetsKept
<1>4. CASE Restart
  <2>1. cell' = [s \in Share |-> 0] /\ tried' = [s \in Share |-> <<>>]
    BY <1>4 DEF Restart
  <2> QED
    BY <2>1 DEF Budgets, BudgetHolds
<1> QED
  BY <1>2, <1>3, <1>4 DEF Next, Requests

\* sharing.rs 222-244: whatever the times, the routes and the answers, a link's password is
\* tried no more often than its budget allows, from one start of the process to the next.
THEOREM BudgetsHold == Spec => []BudgetHolds
<1>1. Init => Budgets
  BY DEF Init, Budgets, BudgetHolds
<1>2. Budgets => BudgetHolds
  BY DEF Budgets
<1> QED
  BY <1>1, <1>2, StartsTyped, StaysTyped, BudgetsStay, PTL DEF Spec

-----------------------------------------------------------------------------
(***************************************************************************)
(* The bounds of the types.                                                *)
(***************************************************************************)
\* What the locals of a request are at each step that reads them.
Carries(l, j) ==
    /\ l \in {"act", "share", "revoke", "cookie"} => j.as \in Token
    /\ l \in {"taken", "found", "cookie"} => j.on \in Login
    /\ l = "cookie" => j.kind \in Person
    /\ l \in {"revoke", "look", "count"} => j.on \in Share
    /\ j.on \in Login \cup Share \cup {0}
Carried == \A p \in Proc : Carries(pc[p], job[p])

\* The rows, and what is noted of them.
Ranged ==
    /\ \A l \in Login : login[l].at <= MaxNow
    /\ \A s \in Share : share[s].owner \in Token
    /\ file \in [st : {"live", "trash", "gone"}, owner : Token]
    /\ now <= MaxNow /\ key \in 1 .. MaxKeys /\ ops \in 0 .. MaxOps /\ faults \in 0 .. MaxFaults
    /\ tickets \subseteq [share : Share, ends : Nat, key : 1 .. MaxKeys, earned : BOOLEAN]
    /\ crossed \subseteq Login /\ who \in [Session -> Person] /\ from \in [Session -> Login]

\* A rotation ends a request, so a token's are no more than the requests that are over.
Active == {p \in Proc : pc[p] # "idle"}
Rotations ==
    /\ IsFiniteSet(Active) /\ Cardinality(Active) <= ops
    /\ \A t \in Token : token[t].gen >= 1 /\ token[t].gen + Cardinality(Active) <= ops + 1

Bounded == Types /\ Budgets /\ Carried /\ Ranged /\ Rotations

LEMMA NoJobCarries == Carries("idle", NoJob)
  BY DEF Carries, NoJob

LEMMA GoCarries ==
    ASSUME Types, Carried, NEW p \in Proc, Others(p), NEW l, NEW j, Go(p, l, j),
           l # "idle" => Carries(l, j)
    PROVE  Carried'
<1>1. pc'[p] = l /\ job'[p] = IF l = "idle" THEN NoJob ELSE j
  BY DEF Go, Types, Tasks
<1>2. Carries(pc'[p], job'[p])
  BY <1>1, NoJobCarries
<1> QED BY <1>2 DEF Carried, Others

LEMMA EndCarries ==
    ASSUME Types, Carried, NEW p \in Proc, Others(p), End(p)
    PROVE  Carried'
  BY GoCarries DEF End

LEMMA AccountsCarry ==
    ASSUME Types, Carried, NEW p \in Proc, Accounts(p)
    PROVE  Carried'
<1>0. Others(p)
  BY AccountsType DEF Fine
<1>1. ASSUME NEW t \in Token, NEW gen, Bearer(p, t, gen) \/ GqlBearer(p, t, gen) PROVE Carried'
  <2> DEFINE j == [NoJob EXCEPT !.as = t, !.admin = token[t].admin]
             k == [NoJob EXCEPT !.as = t, !.admin = token[t].admin, !.front = "gql"]
  <2>1. Go(p, "act", j) \/ Go(p, "act", k)
    BY <1>1 DEF Bearer, GqlBearer, Begin
  <2>2. Carries("act", j) /\ Carries("act", k)
    BY DEF Carries, NoJob
  <2> HIDE DEF j, k
  <2> QED BY <1>0, <2>1, <2>2, GoCarries
<1>2. ASSUME NEW s \in Session, Cookie(p, s) PROVE Carried'
  <2> DEFINE j == [NoJob EXCEPT !.as = session[s].token, !.admin = token[session[s].token].admin]
  <2>1. Go(p, "act", j)
    BY <1>2 DEF Cookie, Begin
  <2>2. Carries("act", j)
    BY DEF Carries, NoJob, Types, Rows, SessionRow
  <2> HIDE DEF j
  <2> QED BY <1>0, <2>1, <2>2, GoCarries
<1>3. ASSUME \/ \E u \in Person, a \in BOOLEAN, d \in TokenTtls : CreateToken(p, u, a, d)
             \/ \E t \in Token, d \in TokenTtls : RenewToken(p, t, d)
             \/ \E t \in Token : RotateToken(p, t) \/ DeleteToken(p, t)
             \/ Logout(p)
      PROVE  Carried'
  <2>1. End(p)
    BY <1>3 DEF CreateToken, RenewToken, RotateToken, DeleteToken, Logout
  <2> QED BY <1>0, <2>1, EndCarries
<1> QED BY <1>1, <1>2, <1>3 DEF Accounts, GqlCreateToken, GqlRenewToken, GqlDeleteToken

LEMMA KonnectIdCarries ==
    ASSUME Types, Carried, NEW p \in Proc, KonnectId(p)
    PROVE  Carried'
<1>0. Others(p)
  BY KonnectIdTypes DEF Fine
<1>j. Carries(pc[p], job[p]) /\ job[p] \in Jobs
  BY DEF Carried, Types, Tasks
<1>1. CASE StartLogin(p)
  BY <1>1 DEF StartLogin, Carried
<1>2. ASSUME NEW l \in Login, TakeState(p, l) PROVE Carried'
  <2> DEFINE ok == login[l].st = "live" /\ login[l].at > now - LoginTtl
             j == [NoJob EXCEPT !.on = l, !.ok = ok]
  <2>1. Go(p, "taken", j)
    BY <1>2 DEF TakeState, Begin
  <2>2. Carries("taken", j)
    BY DEF Carries, NoJob
  <2> HIDE DEF j, ok
  <2> QED BY <1>0, <2>1, <2>2, GoCarries
<1>3. CASE DropState(p) \/ DropStateFails(p)
  <2>1. pc[p] = "taken" /\ (Go(p, "found", job[p]) \/ End(p))
    BY <1>3 DEF DropState, DropStateFails, AfterTake
  <2>2. Carries("found", job[p])
    BY <1>j, <2>1 DEF Carries
  <2> QED BY <1>0, <2>1, <2>2, GoCarries, EndCarries
<1>4. ASSUME NEW u \in Person, FindToken(p, u) PROVE Carried'
  <2> DEFINE mine == {t \in Token : token[t].st = "live" /\ token[t].owner = u}
             j == [job[p] EXCEPT !.as = Min(mine), !.kind = u]
  <2>1. pc[p] = "found" /\ (End(p) \/ (mine # {} /\ Go(p, "cookie", j)))
    BY <1>4 DEF FindToken
  <2>2. ASSUME mine # {} PROVE Carries("cookie", j)
    <3>1. mine \in SUBSET Nat
      BY DEF Token
    <3> HIDE DEF mine
    <3>2. Min(mine) \in Token
      BY <2>2, <3>1, MinIn DEF mine
    <3>3. j.as = Min(mine) /\ j.kind = u /\ j.on = job[p].on
      BY <1>j DEF Jobs
    <3> HIDE DEF j
    <3> QED BY <1>j, <2>1, <3>2, <3>3 DEF Carries
  <2> HIDE DEF j, mine
  <2> QED BY <1>0, <2>1, <2>2, GoCarries, EndCarries
<1>5. CASE Refused(p) \/ InsertSession(p)
  <2>1. End(p)
    BY <1>5 DEF Refused, InsertSession
  <2> QED BY <1>0, <2>1, EndCarries
<1> QED BY <1>1, <1>2, <1>3, <1>4, <1>5 DEF KonnectId

LEMMA LinksCarry ==
    ASSUME Types, Carried, NEW p \in Proc, Links(p)
    PROVE  Carried'
<1>0. Others(p)
  BY LinksType DEF Fine
<1>j. Carries(pc[p], job[p]) /\ job[p] \in Jobs
  BY DEF Carried, Types, Tasks
<1>1. ASSUME NEW e, NEW l, AskShare(p, l, e) PROVE Carried'
  <2> DEFINE j == [job[p] EXCEPT !.lock = l, !.ends = e]
  <2>1. pc[p] = "act" /\ Go(p, "share", j)
    BY <1>1 DEF AskShare
  <2>2. j.as = job[p].as /\ j.on = job[p].on
    BY <1>j DEF Jobs
  <2> HIDE DEF j
  <2>3. Carries("share", j)
    BY <1>j, <2>1, <2>2 DEF Carries
  <2> QED BY <1>0, <2>1, <2>3, GoCarries
<1>2. ASSUME NEW s \in Share, AskRevoke(p, s) PROVE Carried'
  <2> DEFINE j == [job[p] EXCEPT !.on = s]
  <2>1. pc[p] = "act" /\ Go(p, "revoke", j)
    BY <1>2 DEF AskRevoke
  <2>2. j.as = job[p].as /\ j.on = s
    BY <1>j DEF Jobs
  <2> HIDE DEF j
  <2>3. Carries("revoke", j)
    BY <1>j, <2>1, <2>2 DEF Carries
  <2> QED BY <1>0, <2>1, <2>3, GoCarries
<1>3. CASE InsertShare(p) \/ Revoke(p)
  <2>1. End(p)
    BY <1>3 DEF InsertShare, Revoke
  <2> QED BY <1>0, <2>1, EndCarries
<1> QED BY <1>1, <1>2, <1>3 DEF Links, CreateShare, GqlCreateShare, GqlRevokeShare

LEMMA VisitCarries ==
    ASSUME Types, Carried, NEW p \in Proc, Visit(p)
    PROVE  Carried'
<1>0. Others(p)
  BY VisitTypes DEF Fine
<1>1. ASSUME NEW ok, NEW s \in Share, NEW kind, NEW proof, NEW knows,
             Answer(p, ok, s, kind, proof, knows)
      PROVE  Carried'
  <2> DEFINE j == [NoJob EXCEPT !.on = s, !.kind = kind, !.due = Due(s, knows),
                                !.proof = IF kind = "page" THEN proof ELSE "none"]
  <2>1. Go(p, IF ok THEN "look" ELSE "idle", j)
    BY <1>1 DEF Answer, Begin
  <2>2. j.on = s
    BY DEF NoJob
  <2> HIDE DEF j
  <2>3. Carries("look", j)
    BY <2>2 DEF Carries
  <2>4. ASSUME Go(p, "look", j) PROVE Carried'
    BY <1>0, <2>3, <2>4, GoCarries
  <2>5. ASSUME Go(p, "idle", j) PROVE Carried'
    BY <1>0, <2>5, GoCarries
  <2> QED BY <2>1, <2>4, <2>5
<1>2. ASSUME \/ \E s \in Share, k \in {"page", "content"}, pr \in {"none", "right", "wrong"} :
                  WithPassword(p, s, k, pr)
             \/ \E s \in Share, t \in tickets : WithTicket(p, s, t)
      PROVE  Carried'
  BY <1>1, <1>2 DEF WithPassword, WithTicket
<1>3. CASE ShowPage(p) \/ Count(p)
  <2>1. End(p)
    BY <1>3 DEF ShowPage, Count
  <2> QED BY <1>0, <2>1, EndCarries
<1>4. CASE ServeFile(p)
  <2>1. pc[p] = "look" /\ (End(p) \/ Go(p, "count", job[p]))
    BY <1>4 DEF ServeFile
  <2>2. Carries("count", job[p])
    BY <2>1 DEF Carried, Carries
  <2> QED BY <1>0, <2>1, <2>2, GoCarries, EndCarries
<1> QED BY <1>2, <1>3, <1>4 DEF Visit, ResolveShare

LEMMA CarriedStays == Types /\ Carried /\ [Next]_vars => Carried'
<1> SUFFICES ASSUME Types, Carried, [Next]_vars PROVE Carried'
  OBVIOUS
<1>1. CASE FileGoes \/ RotateKey \/ Tick \/ UNCHANGED vars
  BY <1>1 DEF FileGoes, RotateKey, Tick, vars, Carried
<1>2. CASE Restart
  BY <1>2, NoJobCarries DEF Restart, Carried
<1> QED
  BY <1>1, <1>2, AccountsCarry, KonnectIdCarries, LinksCarry, VisitCarries DEF Next

\* The rows and the notes that most steps leave alone.
Noted == <<file, key, now, tickets, faults, crossed, who, from>>
Placed == <<login, share>>

\* What Ranged asks of a step of a request.
LEMMA RangedKept ==
    ASSUME Ranged, UNCHANGED Noted, UNCHANGED Placed, ops' = ops \/ (ops < MaxOps /\ ops' = ops + 1)
    PROVE  Ranged'
<1>1. ops' \in 0 .. MaxOps
  BY CredentialsAssumption DEF Ranged
<1> QED BY <1>1 DEF Ranged, Noted, Placed

LEMMA AccountsRange ==
    ASSUME Ranged, NEW p \in Proc, Accounts(p)
    PROVE  Ranged'
<1>1. /\ UNCHANGED Noted /\ UNCHANGED Placed
      /\ ops' = ops \/ (ops < MaxOps /\ ops' = ops + 1)
  <2> USE DEF Noted, Placed, rows, Calm, hist, Begin
  <2>1. ASSUME NEW t \in Token, NEW gen, Bearer(p, t, gen) \/ GqlBearer(p, t, gen)
        PROVE  /\ UNCHANGED Noted /\ UNCHANGED Placed
               /\ ops' = ops \/ (ops < MaxOps /\ ops' = ops + 1)
    BY <2>1 DEF Bearer, GqlBearer
  <2>2. ASSUME NEW s \in Session, Cookie(p, s)
        PROVE  /\ UNCHANGED Noted /\ UNCHANGED Placed
               /\ ops' = ops \/ (ops < MaxOps /\ ops' = ops + 1)
    BY <2>2 DEF Cookie
  <2>3. ASSUME \/ \E u \in Person, a \in BOOLEAN, d \in TokenTtls : CreateToken(p, u, a, d)
               \/ \E t \in Token, d \in TokenTtls : RenewToken(p, t, d)
               \/ \E t \in Token : RotateToken(p, t) \/ DeleteToken(p, t)
               \/ Logout(p)
        PROVE  UNCHANGED Noted /\ UNCHANGED Placed /\ ops' = ops
    BY <2>3 DEF CreateToken, RenewToken, RotateToken, DeleteToken, Logout
  <2> QED BY <2>1, <2>2, <2>3 DEF Accounts, GqlCreateToken, GqlRenewToken, GqlDeleteToken
<1> QED BY <1>1, RangedKept

LEMMA KonnectIdRanges ==
    ASSUME Types, Carried, Ranged, NEW p \in Proc, KonnectId(p)
    PROVE  Ranged'
<1>j. Carries(pc[p], job[p]) /\ login \in [Login -> LoginRow] /\ now \in Nat
  BY DEF Carried, Types, Rows
<1>ops. ops < MaxOps /\ ops' = ops + 1 => ops' \in 0 .. MaxOps
  BY CredentialsAssumption DEF Ranged
<1> USE DEF rows, Calm, hist
<1>1. CASE StartLogin(p)
  <2>1. PICK n : /\ login' = [login EXCEPT ![n] = [st |-> "live", at |-> now]]
                 /\ UNCHANGED share /\ UNCHANGED Noted /\ ops' \in 0 .. MaxOps
    BY <1>1, <1>ops DEF StartLogin, Noted
  <2>2. \A l \in Login : login'[l] = login[l] \/ login'[l] = [st |-> "live", at |-> now]
    BY <1>j, <2>1
  <2>3. \A l \in Login : login'[l].at <= MaxNow
    BY <2>2 DEF Ranged
  <2> QED BY <2>1, <2>3 DEF Ranged, Noted
<1>2. ASSUME NEW l \in Login, TakeState(p, l) PROVE Ranged'
  <2>1. /\ UNCHANGED <<file, key, now, tickets, faults, who, from>> /\ UNCHANGED Placed
        /\ crossed' \subseteq crossed \cup {l} /\ ops' \in 0 .. MaxOps
    BY <1>2, <1>ops DEF TakeState, Begin, Placed
  <2> QED BY <2>1 DEF Ranged, Placed
<1>3. CASE DropState(p)
  <2>1. /\ login' = [login EXCEPT ![job[p].on].st = IF @ = "live" THEN "gone" ELSE @]
        /\ UNCHANGED share /\ UNCHANGED Noted /\ ops' = ops
    BY <1>3 DEF DropState, Noted
  <2>2. \A l \in Login : login'[l].at = login[l].at
    BY <1>j, <2>1 DEF LoginRow
  <2> QED BY <2>1, <2>2 DEF Ranged, Noted
<1>4. CASE DropStateFails(p)
  <2>1. /\ UNCHANGED <<file, key, now, tickets, ops, who, from>> /\ UNCHANGED Placed
        /\ crossed' = crossed \cup {job[p].on} /\ pc[p] = "taken"
        /\ faults < MaxFaults /\ faults' = faults + 1
    BY <1>4 DEF DropStateFails, Placed
  <2>2. faults' \in 0 .. MaxFaults
    BY <2>1, CredentialsAssumption DEF Ranged
  <2>3. job[p].on \in Login
    BY <1>j, <2>1 DEF Carries
  <2> QED BY <2>1, <2>2, <2>3 DEF Ranged, Placed
<1>5. CASE Refused(p) \/ \E u \in Person : FindToken(p, u)
  <2>1. UNCHANGED Noted /\ UNCHANGED Placed /\ ops' = ops
    BY <1>5 DEF Refused, FindToken, Noted, Placed
  <2> QED BY <2>1, RangedKept
<1>6. CASE InsertSession(p)
  <2>1. /\ UNCHANGED <<file, key, now, tickets, ops, faults, crossed>> /\ UNCHANGED Placed
        /\ pc[p] = "cookie"
        /\ \/ UNCHANGED <<who, from>>
           \/ \E s : who' = [who EXCEPT ![s] = job[p].kind] /\ from' = [from EXCEPT ![s] = job[p].on]
    BY <1>6 DEF InsertSession, Placed
  <2>2. job[p].kind \in Person /\ job[p].on \in Login
    BY <1>j, <2>1 DEF Carries
  <2>3. who' \in [Session -> Person] /\ from' \in [Session -> Login]
    BY <2>1, <2>2 DEF Ranged
  <2> QED BY <2>1, <2>3 DEF Ranged, Placed
<1> QED BY <1>1, <1>2, <1>3, <1>4, <1>5, <1>6 DEF KonnectId

LEMMA LinksRange ==
    ASSUME Types, Carried, Ranged, NEW p \in Proc, Links(p)
    PROVE  Ranged'
<1>j. Carries(pc[p], job[p]) /\ share \in [Share -> ShareRow]
  BY DEF Carried, Types, Rows
<1> USE DEF rows, Calm, hist
<1>1. CASE \/ \E e, l : AskShare(p, l, e)
           \/ \E s \in Share : AskRevoke(p, s)
  <2>1. UNCHANGED Noted /\ UNCHANGED Placed /\ ops' = ops
    BY <1>1 DEF AskShare, AskRevoke, Noted, Placed
  <2> QED BY <2>1, RangedKept
<1>2. CASE InsertShare(p)
  <2>1. /\ UNCHANGED Noted /\ ops' = ops /\ UNCHANGED login /\ pc[p] = "share"
        /\ \/ share' = share
           \/ \E s : share' = [share EXCEPT ![s] = [st |-> "live", owner |-> job[p].as,
                                                    lock |-> job[p].lock, ends |-> job[p].ends]]
    BY <1>2 DEF InsertShare, Noted
  <2>2. job[p].as \in Token
    BY <1>j, <2>1 DEF Carries
  <2>3. \A s \in Share : share'[s].owner \in Token
    BY <1>j, <2>1, <2>2 DEF Ranged
  <2> QED BY <2>1, <2>3 DEF Ranged, Noted
<1>3. CASE Revoke(p)
  <2>1. /\ UNCHANGED Noted /\ ops' = ops /\ UNCHANGED login
        /\ share' = [share EXCEPT ![job[p].on].st = "gone"]
    BY <1>3 DEF Revoke, Noted
  <2>2. \A s \in Share : share'[s].owner = share[s].owner
    BY <1>j, <2>1 DEF ShareRow
  <2> QED BY <2>1, <2>2 DEF Ranged, Noted
<1> QED BY <1>1, <1>2, <1>3 DEF Links, CreateShare, GqlCreateShare, GqlRevokeShare

LEMMA VisitRanges ==
    ASSUME Types, Carried, Ranged, NEW p \in Proc, Visit(p)
    PROVE  Ranged'
<1> USE DEF rows, Calm, hist
<1>1. CASE \/ \E s \in Share, k \in {"page", "content"}, pr \in {"none", "right", "wrong"} :
                WithPassword(p, s, k, pr)
           \/ \E s \in Share, t \in tickets : WithTicket(p, s, t)
  <2>1. UNCHANGED Noted /\ UNCHANGED Placed /\ ops < MaxOps /\ ops' = ops + 1
    BY <1>1 DEF WithPassword, WithTicket, Answer, Begin, Public, Noted, Placed
  <2> QED BY <2>1, RangedKept
<1>2. CASE ServeFile(p) \/ Count(p)
  <2>1. UNCHANGED Noted /\ UNCHANGED Placed /\ ops' = ops
    BY <1>2 DEF ServeFile, Count, Noted, Placed
  <2> QED BY <2>1, RangedKept
<1>3. CASE ShowPage(p)
  <2>1. /\ UNCHANGED <<file, key, now, faults, crossed, who, from, ops>> /\ UNCHANGED Placed
        /\ pc[p] = "look"
        /\ tickets' \subseteq tickets \cup {[share |-> job[p].on, ends |-> now + TicketTtl, key |-> key,
                                             earned |-> job[p].proof = "right"]}
    BY <1>3 DEF ShowPage, Placed
  <2>2. job[p].on \in Share
    BY <2>1 DEF Carried, Carries
  <2>3. now + TicketTtl \in Nat /\ key \in 1 .. MaxKeys /\ (job[p].proof = "right") \in BOOLEAN
    BY CredentialsAssumption DEF Types, Rows, Ranged
  <2>4. [share |-> job[p].on, ends |-> now + TicketTtl, key |-> key, earned |-> job[p].proof = "right"]
          \in [share : Share, ends : Nat, key : 1 .. MaxKeys, earned : BOOLEAN]
    BY <2>2, <2>3
  <2>5. tickets' \subseteq [share : Share, ends : Nat, key : 1 .. MaxKeys, earned : BOOLEAN]
    BY <2>1, <2>4 DEF Ranged
  <2> QED BY <2>1, <2>5 DEF Ranged, Placed
<1> QED BY <1>1, <1>2, <1>3 DEF Visit, ResolveShare

LEMMA RangedStays == Types /\ Carried /\ Ranged /\ [Next]_vars => Ranged'
<1> SUFFICES ASSUME Types, Carried, Ranged, [Next]_vars PROVE Ranged'
  OBVIOUS
<1>0. now \in Nat
  BY DEF Types, Rows
<1> USE DEF rows, Calm, hist
<1>1. CASE FileGoes
  <2>1. /\ UNCHANGED <<key, now, tickets, faults, crossed, who, from>> /\ UNCHANGED Placed
        /\ ops < MaxOps /\ ops' = ops + 1
        /\ \E st \in {"live", "trash", "gone"} : file' = [file EXCEPT !.st = st]
    BY <1>1 DEF FileGoes, Placed
  <2>2. ops' \in 0 .. MaxOps
    BY <2>1, CredentialsAssumption DEF Ranged
  <2>3. file' \in [st : {"live", "trash", "gone"}, owner : Token]
    BY <2>1 DEF Ranged
  <2> QED BY <2>1, <2>2, <2>3 DEF Ranged, Placed
<1>2. CASE RotateKey
  <2>1. key' \in 1 .. MaxKeys
    BY <1>2, CredentialsAssumption DEF RotateKey, Ranged
  <2> QED BY <1>2, <2>1 DEF RotateKey, Ranged
<1>3. CASE Tick
  <2>1. now' <= MaxNow
    BY <1>0, <1>3, CredentialsAssumption DEF Tick
  <2> QED BY <1>3, <2>1 DEF Tick, Ranged
<1>4. CASE Restart
  <2>1. faults \in 0 .. MaxFaults /\ faults < MaxFaults /\ faults' = faults + 1
    BY <1>4 DEF Restart, Ranged
  <2>2. faults' \in 0 .. MaxFaults
    BY <2>1, CredentialsAssumption
  <2> QED BY <1>4, <2>2 DEF Restart, Ranged
<1>5. CASE UNCHANGED vars
  BY <1>5 DEF vars, Ranged
<1> QED
  BY <1>1, <1>2, <1>3, <1>4, <1>5, AccountsRange, KonnectIdRanges, LinksRange, VisitRanges DEF Next

\* A request that begins is one more, and one that ends is one less.
LEMMA Counts ==
    ASSUME Rotations, NEW p \in Proc, Others(p)
    PROVE  /\ IsFiniteSet(Active') /\ Cardinality(Active) \in Nat /\ Cardinality(Active') \in Nat
           /\ Cardinality(Active') <= Cardinality(Active) + 1
           /\ pc[p] # "idle" => Cardinality(Active') <= Cardinality(Active)
           /\ pc[p] # "idle" /\ pc'[p] = "idle" => Cardinality(Active') + 1 <= Cardinality(Active)
<1>1. IsFiniteSet(Active) /\ Cardinality(Active) \in Nat
  BY FS_CardinalityType DEF Rotations
<1>2. Active' \subseteq Active \cup {p}
  BY DEF Active, Others
<1>3. IsFiniteSet(Active \cup {p}) /\ Cardinality(Active \cup {p}) <= Cardinality(Active) + 1
      /\ Cardinality(Active \cup {p}) \in Nat
  BY <1>1, FS_AddElement, FS_CardinalityType
<1>4. /\ IsFiniteSet(Active') /\ Cardinality(Active') \in Nat
      /\ Cardinality(Active') <= Cardinality(Active \cup {p})
  BY <1>2, <1>3, FS_Subset, FS_CardinalityType
<1>5. Cardinality(Active') <= Cardinality(Active) + 1
  BY <1>1, <1>3, <1>4
<1>6. ASSUME pc[p] # "idle" PROVE Cardinality(Active') <= Cardinality(Active)
  <2>1. Active' \subseteq Active
    BY <1>2, <1>6 DEF Active
  <2> QED BY <1>1, <2>1, FS_Subset
<1>7. ASSUME pc[p] # "idle", pc'[p] = "idle" PROVE Cardinality(Active') + 1 <= Cardinality(Active)
  <2>1. Active' \subseteq Active \ {p} /\ p \in Active
    BY <1>2, <1>7 DEF Active
  <2>2. IsFiniteSet(Active \ {p}) /\ Cardinality(Active \ {p}) = Cardinality(Active) - 1
    BY <1>1, <2>1, FS_RemoveElement
  <2>3. Cardinality(Active') <= Cardinality(Active \ {p})
    BY <2>1, <2>2, FS_Subset
  <2> QED BY <1>1, <1>4, <2>2, <2>3
<1> QED BY <1>1, <1>4, <1>5, <1>6, <1>7

\* Linear facts, stated apart so that the provers see nothing else.
LEMMA StillRoom ==
    \A a, c, r, o, q, g, h \in Int :
      g + a <= o + 1 /\ c + r + o <= a + q /\ h <= g + r => h + c <= q + 1
  OBVIOUS

LEMMA FirstRoom == \A c, q \in Int : c <= q => 1 + c <= q + 1
  OBVIOUS

\* As many rotations are kept as requests ended, if none was added without one.
LEMMA RotationsKept ==
    ASSUME Types, Types', Ranged, Ranged', Rotations, IsFiniteSet(Active'), NEW r \in {0, 1},
           Cardinality(Active') + r + ops <= Cardinality(Active) + ops',
           \A t \in Token : token'[t].gen = 1
                              \/ (token'[t].gen >= 1 /\ token'[t].gen <= token[t].gen + r)
    PROVE  Rotations'
<1> DEFINE a == Cardinality(Active)
           c == Cardinality(Active')
<1>1. a \in Int /\ c \in Int /\ ops \in Int /\ ops' \in Int /\ r \in Int /\ 0 <= r
  BY FS_CardinalityType DEF Ranged, Rotations
<1>2. a <= ops /\ c + r + ops <= a + ops'
  BY DEF Rotations
<1>3. c <= ops'
  <2> HIDE DEF a, c
  <2> QED BY <1>1, <1>2
<1>4. ASSUME NEW t \in Token PROVE token'[t].gen >= 1 /\ token'[t].gen + c <= ops' + 1
  <2>1. token[t].gen \in Nat /\ token'[t].gen \in Nat
    BY DEF Types, Rows, TokenRow
  <2>2. token[t].gen + a <= ops + 1
    BY DEF Rotations
  <2>3. token'[t].gen = 1 \/ (token'[t].gen >= 1 /\ token'[t].gen <= token[t].gen + r)
    OBVIOUS
  <2> HIDE DEF a, c
  <2>4. CASE token'[t].gen = 1
    <3>1. 1 + c <= ops' + 1
      BY <1>1, <1>3, FirstRoom
    <3>2. 1 >= 1
      OBVIOUS
    <3> QED BY <2>4, <3>1, <3>2, Zenon
  <2>5. CASE token'[t].gen >= 1 /\ token'[t].gen <= token[t].gen + r
    <3> DEFINE g == token[t].gen
               h == token'[t].gen
    <3>1. g \in Int /\ h \in Int /\ g + a <= ops + 1 /\ h <= g + r
      BY <2>1, <2>2, <2>5
    <3> HIDE DEF g, h
    <3>2. h + c <= ops' + 1
      BY <1>1, <1>2, <3>1, StillRoom
    <3>3. token'[t].gen + c <= ops' + 1
      BY <3>2 DEF h
    <3> QED BY <2>5, <3>3
  <2> QED BY <2>3, <2>4, <2>5
<1> QED BY <1>3, <1>4 DEF Rotations

\* A request begins, or one that is under way goes on; the tokens stay.
Ahead(p) ==
    /\ Others(p) /\ token' = token
    /\ \/ ops' = ops + 1
       \/ ops' = ops /\ (pc[p] # "idle" \/ pc' = pc)

LEMMA AheadRotates ==
    ASSUME Types, Types', Ranged, Ranged', Rotations, NEW p \in Proc, Ahead(p)
    PROVE  Rotations'
<1>1. /\ IsFiniteSet(Active') /\ Cardinality(Active) \in Nat /\ Cardinality(Active') \in Nat
      /\ Cardinality(Active') <= Cardinality(Active) + 1
      /\ pc[p] # "idle" => Cardinality(Active') <= Cardinality(Active)
      /\ pc' = pc => Cardinality(Active') = Cardinality(Active)
  BY Counts DEF Ahead, Active
<1>2. \A t \in Token : token'[t].gen >= 1 /\ token'[t].gen <= token[t].gen + 0
  BY DEF Ahead, Rotations, Types, Rows, TokenRow
<1>3. ops \in Nat
  BY CredentialsAssumption DEF Ranged
<1>4. Cardinality(Active') + 0 + ops <= Cardinality(Active) + ops'
  BY <1>1, <1>3 DEF Ahead
<1> QED BY <1>1, <1>2, <1>4, RotationsKept

LEMMA AccountsRotate ==
    ASSUME Types, Types', Ranged, Ranged', Rotations, NEW p \in Proc, Accounts(p)
    PROVE  Rotations'
<1>0. Others(p) /\ token \in [Token -> TokenRow] /\ \A t \in Token : token[t].gen >= 1 /\ token[t].gen \in Nat
  BY AccountsType DEF Fine, Types, Rows, TokenRow, Rotations
<1>n. /\ IsFiniteSet(Active') /\ Cardinality(Active) \in Nat /\ Cardinality(Active') \in Nat
      /\ pc[p] # "idle" => Cardinality(Active') <= Cardinality(Active)
      /\ pc[p] # "idle" /\ pc'[p] = "idle" => Cardinality(Active') + 1 <= Cardinality(Active)
  BY <1>0, Counts
<1>o. ops \in Nat
  BY CredentialsAssumption DEF Ranged
<1>1. ASSUME \/ \E t \in Token, gen \in 1 .. MaxOps + 1 : Bearer(p, t, gen) \/ GqlBearer(p, t, gen)
             \/ \E s \in Session : Cookie(p, s)
      PROVE  Rotations'
  <2>1. token' = token /\ ops' = ops + 1
    BY <1>1 DEF Bearer, GqlBearer, Cookie, Begin, rows
  <2> QED BY <1>0, <2>1, AheadRotates DEF Ahead
<1>2. CASE Logout(p)
  <2>1. token' = token /\ ops' = ops /\ pc[p] # "idle"
    BY <1>2 DEF Logout
  <2> QED BY <1>0, <2>1, AheadRotates DEF Ahead
<1>3. ASSUME \/ \E u \in Person, a \in BOOLEAN, d \in TokenTtls : CreateToken(p, u, a, d)
             \/ \E t \in Token, d \in TokenTtls : RenewToken(p, t, d)
             \/ \E t \in Token : DeleteToken(p, t)
      PROVE  Rotations'
  <2>1. ops' = ops /\ pc[p] # "idle"
    BY <1>3 DEF CreateToken, RenewToken, DeleteToken, Admin
  <2>2. \A t \in Token : token'[t].gen = 1 \/ token'[t].gen = token[t].gen
    <3>1. ASSUME NEW u \in Person, NEW a \in BOOLEAN, NEW d \in TokenTtls, CreateToken(p, u, a, d)
          PROVE  \A t \in Token : token'[t].gen = 1 \/ token'[t].gen = token[t].gen
      <4>1. PICK n, e : token' = [token EXCEPT ![n] = [st |-> "live", owner |-> u, admin |-> a, gen |-> 1,
                                                       ends |-> e]]
        BY <3>1 DEF CreateToken
      <4> QED BY <1>0, <4>1
    <3>2. ASSUME NEW n \in Token, NEW d \in TokenTtls, RenewToken(p, n, d)
          PROVE  \A t \in Token : token'[t].gen = 1 \/ token'[t].gen = token[t].gen
      BY <1>0, <3>2 DEF RenewToken, TokenRow
    <3>3. ASSUME NEW n \in Token, DeleteToken(p, n)
          PROVE  \A t \in Token : token'[t].gen = 1 \/ token'[t].gen = token[t].gen
      BY <1>0, <3>3 DEF DeleteToken, TokenRow
    <3> QED BY <1>3, <3>1, <3>2, <3>3
  <2>3. \A t \in Token : token'[t].gen = 1
                           \/ (token'[t].gen >= 1 /\ token'[t].gen <= token[t].gen + 0)
    BY <1>0, <2>2
  <2>4. Cardinality(Active') + 0 + ops <= Cardinality(Active) + ops'
    BY <1>n, <1>o, <2>1
  <2> QED BY <1>n, <2>3, <2>4, RotationsKept
<1>4. ASSUME NEW n \in Token, RotateToken(p, n) PROVE Rotations'
  <2>1. ops' = ops /\ pc[p] # "idle" /\ End(p)
    BY <1>4 DEF RotateToken, Admin
  <2>2. pc'[p] = "idle"
    BY <2>1 DEF End, Go, Types, Tasks
  <2>3. \A t \in Token : token'[t].gen = token[t].gen \/ token'[t].gen = token[t].gen + 1
    BY <1>0, <1>4 DEF RotateToken, TokenRow
  <2>4. \A t \in Token : token'[t].gen >= 1 /\ token'[t].gen <= token[t].gen + 1
    BY <1>0, <2>3
  <2>5. Cardinality(Active') + 1 + ops <= Cardinality(Active) + ops'
    BY <1>n, <1>o, <2>1, <2>2
  <2> QED BY <1>n, <2>4, <2>5, RotationsKept
<1> QED BY <1>1, <1>2, <1>3, <1>4 DEF Accounts, GqlCreateToken, GqlRenewToken, GqlDeleteToken

LEMMA OthersGoAhead ==
    ASSUME Types, NEW p \in Proc, KonnectId(p) \/ Links(p) \/ Visit(p)
    PROVE  Ahead(p)
<1>0. Others(p)
  BY KonnectIdTypes, LinksType, VisitTypes DEF Fine
<1> USE DEF rows, Begin
<1>1. CASE KonnectId(p)
  <2>1. token' = token /\ (ops' = ops + 1 \/ (ops' = ops /\ pc[p] # "idle"))
    BY <1>1 DEF KonnectId, StartLogin, TakeState, DropState, DropStateFails, FindToken, Refused, InsertSession
  <2> QED BY <1>0, <2>1 DEF Ahead
<1>2. CASE Links(p)
  <2>1. token' = token /\ ops' = ops /\ pc[p] # "idle"
    BY <1>2 DEF Links, CreateShare, GqlCreateShare, GqlRevokeShare, AskShare, AskRevoke, InsertShare, Revoke
  <2> QED BY <1>0, <2>1 DEF Ahead
<1>3. CASE Visit(p)
  <2>1. token' = token /\ (ops' = ops + 1 \/ (ops' = ops /\ pc[p] # "idle"))
    BY <1>3 DEF Visit, WithPassword, WithTicket, Answer, Public, ShowPage, ServeFile, ResolveShare, Count
  <2> QED BY <1>0, <2>1 DEF Ahead
<1> QED BY <1>1, <1>2, <1>3

LEMMA RotationsStay ==
    Types /\ Types' /\ Ranged /\ Ranged' /\ Rotations /\ [Next]_vars => Rotations'
<1> SUFFICES ASSUME Types, Types', Ranged, Ranged', Rotations, [Next]_vars PROVE Rotations'
  OBVIOUS
<1>0. /\ ops \in Nat /\ IsFiniteSet(Active) /\ Cardinality(Active) \in Nat
      /\ \A t \in Token : token[t].gen >= 1 /\ token[t].gen \in Nat
  <2>1. ops \in Nat
    BY CredentialsAssumption DEF Ranged
  <2>2. IsFiniteSet(Active) /\ Cardinality(Active) \in Nat
    BY FS_CardinalityType DEF Rotations
  <2>3. \A t \in Token : token[t].gen \in Nat
    BY DEF Types, Rows, TokenRow
  <2> QED BY <2>1, <2>2, <2>3 DEF Rotations
<1>1. CASE FileGoes \/ RotateKey \/ Tick \/ UNCHANGED vars
  <2>1. token' = token /\ pc' = pc /\ (ops' = ops + 1 \/ ops' = ops)
    BY <1>1 DEF FileGoes, RotateKey, Tick, vars, rows
  <2>2. Active' = Active
    BY <2>1 DEF Active
  <2>3. Cardinality(Active') + 0 + ops <= Cardinality(Active) + ops'
    BY <1>0, <2>1, <2>2
  <2>4. \A t \in Token : token'[t].gen >= 1 /\ token'[t].gen <= token[t].gen + 0
    BY <1>0, <2>1
  <2> QED BY <1>0, <2>2, <2>3, <2>4, RotationsKept
<1>2. CASE Restart
  <2>1. Active' = {} /\ ops' = ops
    BY <1>2 DEF Restart, Active
  <2>2. IsFiniteSet(Active') /\ Cardinality(Active') = 0
    BY <2>1, FS_EmptySet
  <2>3. token' = token \/ \E n, u : token' = [token EXCEPT ![n] =
          [st |-> "live", owner |-> u, admin |-> TRUE, gen |-> 1, ends |-> Never]]
    BY <1>2 DEF Restart, Bootstrap
  <2>4. \A t \in Token : token'[t].gen = 1 \/ token'[t].gen = token[t].gen
    BY <2>3 DEF Types, Rows
  <2>5. \A t \in Token : token'[t].gen = 1
                           \/ (token'[t].gen >= 1 /\ token'[t].gen <= token[t].gen + 0)
    BY <1>0, <2>4
  <2>6. Cardinality(Active') + 0 + ops <= Cardinality(Active) + ops'
    BY <1>0, <2>1, <2>2
  <2> QED BY <2>2, <2>5, <2>6, RotationsKept
<1> QED BY <1>1, <1>2, AccountsRotate, OthersGoAhead, AheadRotates DEF Next

LEMMA BoundedStays == Bounded /\ [Next]_vars => Bounded'
<1> SUFFICES ASSUME Bounded, [Next]_vars PROVE Bounded'
  OBVIOUS
<1>1. Types' /\ Budgets'
  BY StaysTyped, BudgetsStay DEF Bounded
<1>2. Carried' /\ Ranged'
  BY CarriedStays, RangedStays DEF Bounded
<1>3. Rotations'
  BY <1>1, <1>2, RotationsStay DEF Bounded
<1> QED BY <1>1, <1>2, <1>3 DEF Bounded

LEMMA BoundedStarts == Init => Bounded
<1> SUFFICES ASSUME Init PROVE Bounded
  OBVIOUS
<1>1. Types /\ Budgets
  <2>1. cell \in [Share -> Nat] /\ tried \in [Share -> Seq(Nat)]
    BY DEF Init
  <2>2. \A s \in Share : tried[s] = <<>>
    BY DEF Init
  <2>3. \A s \in Share : DOMAIN tried[s] = {} /\ 1 .. Len(tried[s]) = {}
    BY <2>2
  <2>4. BudgetHolds
    BY <2>3 DEF BudgetHolds
  <2>5. Budgets
    BY <2>1, <2>3, <2>4 DEF Budgets
  <2> QED BY <2>5, StartsTyped
<1>2. Carried
  BY NoJobCarries DEF Init, Carried
<1>3. 1 \in Login /\ 1 \in Token /\ 2 \in Token
  BY CredentialsAssumption DEF Login, Token
<1>4. PICK u \in Person, o \in 1 .. 2 :
        /\ file = [st |-> "live", owner |-> o] /\ who = [s \in Session |-> u]
        /\ \A s \in Share : share[s].owner = o
  BY DEF Init
<1>5. o \in Token
  <2>1. o = 1 \/ o = 2
    OBVIOUS
  <2> QED BY <1>3, <2>1
<1>6. Ranged
  <2>1. \A l \in Login : login[l].at = 0
    BY DEF Init
  <2>2. /\ key \in 1 .. MaxKeys /\ ops \in 0 .. MaxOps /\ faults \in 0 .. MaxFaults
        /\ now <= MaxNow /\ 0 <= MaxNow
    BY CredentialsAssumption DEF Init
  <2>3. crossed \subseteq Login /\ tickets = {} /\ from \in [Session -> Login]
    BY <1>3 DEF Init
  <2> QED BY <1>4, <1>5, <2>1, <2>2, <2>3 DEF Ranged
<1>7. Rotations
  <2>1. Active = {} /\ ops = 0 /\ \A t \in Token : token[t].gen = 1
    BY DEF Init, Active
  <2>2. IsFiniteSet(Active) /\ Cardinality(Active) = 0
    BY <2>1, FS_EmptySet
  <2> QED BY <2>1, <2>2 DEF Rotations
<1> QED BY <1>1, <1>2, <1>6, <1>7 DEF Bounded

\* Those parts make up the types.
LEMMA BoundedIsTyped == Bounded => TypeOK
<1> SUFFICES ASSUME Bounded PROVE TypeOK
  OBVIOUS
<1>1. token \in [Token -> [st : Status, owner : Person, admin : BOOLEAN,
                           gen : 1 .. MaxOps + 1, ends : Nat \cup {Never}]]
  <2>1. token \in [Token -> TokenRow]
    BY DEF Bounded, Types, Rows
  <2>2. ASSUME NEW t \in Token PROVE token[t].gen \in 1 .. MaxOps + 1
    <3>1. /\ token[t].gen \in Nat /\ token[t].gen >= 1 /\ ops \in Nat /\ ops <= MaxOps /\ MaxOps \in Nat
          /\ token[t].gen + Cardinality(Active) <= ops + 1 /\ Cardinality(Active) \in Nat
      <4>1. token[t].gen \in Nat
        BY <2>1 DEF TokenRow
      <4>2. ops \in Nat /\ ops <= MaxOps /\ MaxOps \in Nat
        BY CredentialsAssumption DEF Bounded, Ranged
      <4>3. token[t].gen >= 1 /\ token[t].gen + Cardinality(Active) <= ops + 1 /\ IsFiniteSet(Active)
        BY DEF Bounded, Rotations
      <4> QED BY <4>1, <4>2, <4>3, FS_CardinalityType
    <3> DEFINE a == Cardinality(Active)
               g == token[t].gen
    <3> HIDE DEF a, g
    <3>2. g \in 1 .. MaxOps + 1
      BY <3>1 DEF a, g
    <3> QED BY <3>2 DEF g
  <2> QED BY <2>1, <2>2 DEF TokenRow
<1>2. session \in [Session -> [st : Status, token : Token, ends : Nat]]
  BY DEF Bounded, Types, Rows, SessionRow
<1>3. login \in [Login -> [st : Status, at : 0 .. MaxNow]]
  <2>1. login \in [Login -> LoginRow] /\ \A l \in Login : login[l].at <= MaxNow
    BY DEF Bounded, Types, Rows, Ranged
  <2>2. \A l \in Login : login[l].at \in 0 .. MaxNow
    BY <2>1, CredentialsAssumption DEF LoginRow
  <2> QED BY <2>1, <2>2 DEF LoginRow
<1>4. share \in [Share -> [st : Status, owner : Token, lock : {"open", "argon", "bare"},
                           ends : Nat \cup {Never, Garbled}]]
  <2>1. share \in [Share -> ShareRow] /\ \A s \in Share : share[s].owner \in Token
    BY DEF Bounded, Types, Rows, Ranged
  <2> QED BY <2>1 DEF ShareRow, Lock, End4
<1>5. /\ file \in [st : {"live", "trash", "gone"}, owner : Token]
      /\ key \in 1 .. MaxKeys /\ cell \in [Share -> Nat]
      /\ tickets \subseteq [share : Share, ends : Nat, key : 1 .. MaxKeys, earned : BOOLEAN]
      /\ ops \in 0 .. MaxOps /\ faults \in 0 .. MaxFaults
      /\ crossed \subseteq Login /\ who \in [Session -> Person] /\ from \in [Session -> Login]
  BY DEF Bounded, Ranged, Budgets
<1>6. now \in 0 .. MaxNow
  BY CredentialsAssumption DEF Bounded, Types, Rows, Ranged
<1>7. pc \in [Proc -> {"idle", "act", "taken", "found", "cookie", "share", "revoke", "look", "count"}]
  BY DEF Bounded, Types, Tasks, Point
<1>8. job \in [Proc -> [as : Token \cup {0}, admin : BOOLEAN, front : {"rest", "gql"},
                        on : Login \cup Share \cup {0},
                        kind : Person \cup {"none", "page", "content"},
                        proof : {"none", "right", "wrong"},
                        lock : {"open", "argon", "bare"},
                        ends : Nat \cup {Never, Garbled}, ok : BOOLEAN, due : BOOLEAN]]
  <2>1. job \in [Proc -> Jobs] /\ \A p \in Proc : job[p].on \in Login \cup Share \cup {0}
    BY DEF Bounded, Types, Tasks, Carried, Carries
  <2> QED BY <2>1 DEF Jobs, Lock, End4
<1>9. tried \in [Share -> Seq(0 .. MaxNow)]
  <2>1. /\ tried \in [Share -> Seq(Nat)]
        /\ \A s \in Share : \A i \in 1 .. Len(tried[s]) : tried[s][i] <= now
    BY DEF Bounded, Budgets
  <2>2. ASSUME NEW s \in Share PROVE tried[s] \in Seq(0 .. MaxNow)
    <3>1. tried[s] \in Seq(Nat)
      BY <2>1
    <3>2. ASSUME NEW i \in 1 .. Len(tried[s]) PROVE tried[s][i] \in 0 .. MaxNow
      <4> DEFINE v == tried[s][i]
      <4>1. v \in Nat /\ v <= now
        BY <2>1, <3>1
      <4>2. now \in Nat /\ now <= MaxNow /\ MaxNow \in Nat
        BY <1>6, CredentialsAssumption
      <4> HIDE DEF v
      <4>3. v \in 0 .. MaxNow
        BY <4>1, <4>2
      <4> QED BY <4>3 DEF v
    <3>3. tried[s] \in [1 .. Len(tried[s]) -> 0 .. MaxNow] /\ Len(tried[s]) \in Nat
      BY <3>1, <3>2
    <3> QED BY <3>3, SeqDef
  <2> QED BY <2>1, <2>2
<1> QED BY <1>1, <1>2, <1>3, <1>4, <1>5, <1>6, <1>7, <1>8, <1>9 DEF TypeOK

\* Whatever is created, rotated, deleted or asked for, every row refers to rows that are there
\* to be referred to, and every request goes by a token, a login or a link of the program's
\* (the foreign keys of db.rs 100-160, the locals of auth.rs, konnect.rs and sharing.rs).
THEOREM CredentialTypesAreKept == Spec => []TypeOK
  BY BoundedStarts, BoundedStays, BoundedIsTyped, PTL DEF Spec
=============================================================================
