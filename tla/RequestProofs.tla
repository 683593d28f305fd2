--------------------------- MODULE RequestProofs ---------------------------
(***************************************************************************)
(* Proofs about what requests hold and what they leave behind: no request  *)
(* waits in a circle for rows, a login had the right password, and every   *)
(* account can be entered.                                                 *)
(*                                                                         *)
(* IInv and Rely come from AuthProofs, Provenance and RelyMore from        *)
(* LedgerProofs; every lemma here takes one step that keeps them.          *)
(***************************************************************************)
EXTENDS LedgerProofs

(* A statement that runs inside a transaction with rows locked. *)
Holding == {"commit_rotation", "snapshot_sessions", "revoke_sessions"}

(* A step of the endpoint of request r, the answer aside. *)
Serving(r) == SessionStep(r) \/ TokenStep(r) \/ AccountStep(r)

-----------------------------------------------------------------------------
(* How a request moves *)

LEMMA Arriving ==
  ASSUME TypeOK, NEW r \in Requests, ClientCall(r)
  PROVE  pc[r] = "idle" /\ pc'[r] \in Firsts /\ UNCHANGED <<db, locks>>
<1>1. ASSUME NEW c, NEW s \in Firsts, Begin(r, c, s)
      PROVE  pc[r] = "idle" /\ pc'[r] \in Firsts /\ UNCHANGED <<db, locks>>
  BY <1>1 DEF Begin, TypeOK
<1>2. \E c : \E s \in Firsts : Begin(r, c, s)
  <2>1. CASE \E a \in Addresses, p \in Passwords : SignupCall(r, a, p)
    BY <2>1 DEF SignupCall, Firsts
  <2>2. CASE \E b \in Browsers, a \in Addresses, p \in Passwords : LoginCall(r, b, a, p)
    BY <2>2 DEF LoginCall, Firsts
  <2>3. CASE \E b \in Browsers : RefreshCall(r, b) \/ LogoutCall(r, b)
    BY <2>3 DEF RefreshCall, LogoutCall, Firsts
  <2>4. CASE \E b \in Browsers, s \in Subs, a \in Addresses : GoogleCall(r, b, s, a)
    BY <2>4 DEF GoogleCall, Firsts
  <2>5. CASE \E a \in Addresses : ResendCall(r, a) \/ ForgotCall(r, a)
    BY <2>5 DEF ResendCall, ForgotCall, Firsts
  <2>6. CASE \E t \in inbox : VerifyCall(r, t)
    BY <2>6 DEF VerifyCall, Firsts
  <2>7. CASE \E t \in inbox, p \in Passwords : ResetCall(r, t, p)
    BY <2>7 DEF ResetCall, Firsts
  <2>. QED BY <2>1, <2>2, <2>3, <2>4, <2>5, <2>6, <2>7 DEF ClientCall
<1>. QED BY <1>1, <1>2

LEMMA Leaving ==
  ASSUME TypeOK, NEW r \in Requests, Respond(r) \/ LoseResponse(r) \/ Crash(r)
  PROVE  /\ pc'[r] = "idle" /\ call'[r] = NoCall /\ UNCHANGED db
         /\ \/ pc[r] = "respond" /\ UNCHANGED locks
            \/ locks' = [locks EXCEPT ![r] = {}]
BY DEF Respond, LoseResponse, Crash, End, Release, TypeOK

(* Where a statement leads. *)
LEMMA Reached ==
  ASSUME TypeOK, NEW r \in Requests, NEW s, NEW l, Goto(r, s, l)
  PROVE  pc'[r] = s /\ loc'[r] = l /\ UNCHANGED call
BY DEF TypeOK, Goto

LEMMA Turned ==
  ASSUME TypeOK, NEW r \in Requests, Reject(r)
  PROVE  pc'[r] = "respond" /\ loc'[r].status = "rejected" /\ UNCHANGED call
<1> DEFINE l == [loc[r] EXCEPT !.status = "rejected"]
<1>1. loc[r] \in Locals BY DEF TypeOK
<1>2. l.status = "rejected" BY <1>1 DEF Locals
<1>3. Goto(r, "respond", l) BY DEF Reject, Reply
<1>. QED BY <1>2, <1>3, Reached, ZenonT(40)

(* The statements that neither take nor give back a lock. *)
LEMMA Unlocking ==
  ASSUME TypeOK, NEW r \in Requests, Serving(r)
  PROVE  \/ RevokeOld(r) \/ CommitRotation(r) \/ FlushReset(r) \/ SnapshotSessions(r)
         \/ \E k \in RefreshIds : RevokeSession(r, k)
         \/ CommitReset(r)
         \/ /\ UNCHANGED locks
            /\ pc[r] \notin Holding \cup {"idle"}
            /\ pc'[r] \notin {"snapshot_sessions", "revoke_sessions"}
<1>1. pc \in [Requests -> Statements] BY DEF TypeOK
<1>2. CASE issue_refresh_token(r) \/ SelectRefresh(r) \/ revoke_refresh_token(r)
  BY <1>1, <1>2
  DEF issue_refresh_token, SelectRefresh, revoke_refresh_token, Goto, Reply, Reject, Holding
<1>3. CASE SelectUserMail(r) \/ InsertToken(r) \/ SelectToken(r)
  BY <1>1, <1>3 DEF SelectUserMail, InsertToken, SelectToken, Goto, Reply, Reject, Holding
<1>4. CASE SelectOwner(r) \/ CommitVerify(r)
  BY <1>1, <1>4 DEF SelectOwner, CommitVerify, Goto, Reply, Holding
<1>5. CASE CreateUser(r) \/ Authenticate(r)
  BY <1>1, <1>5 DEF CreateUser, Authenticate, Goto, Reply, Reject, Holding
<1>6. CASE SelectProvider(r) \/ SelectByEmail(r)
  BY <1>1, <1>6 DEF SelectProvider, SelectByEmail, Goto, Holding
<1>7. CASE LinkGoogle(r) \/ CreateGoogleUser(r)
  BY <1>1, <1>7 DEF LinkGoogle, CreateGoogleUser, Goto, Reply, Reject, Holding
<1>. QED
  BY <1>2, <1>3, <1>4, <1>5, <1>6, <1>7 DEF Serving, SessionStep, TokenStep, AccountStep

-----------------------------------------------------------------------------
(* Who holds which rows *)

(* A step of one request that takes free rows only, or gives rows back.     *)
LEMMA LocksKept ==
  ASSUME IInv, RowLocks, NEW r \in Requests, Alone(r),
         \A row \in locks'[r] : row \in locks[r] \/ Unlocked(r, row),
         LocksOK(r)'
  PROVE  RowLocks'
<1>1. \A q \in Requests \ {r} : LocksOK(q)'
  BY DEF Alone, RowLocks, LocksOK
<1>2. \A q \in Requests \ {r} : locks'[q] = locks[q] /\ locks'[q] \cap locks'[r] = {}
  BY DEF Alone, RowLocks, Unlocked
<1>3. \A p, q \in Requests : p # q => locks'[p] \cap locks'[q] = {}
  BY <1>2 DEF RowLocks
<1>. QED BY <1>1, <1>3 DEF RowLocks

(* A step that leaves the rows of a request that holds none.                *)
LEMMA LocksLeft ==
  ASSUME IInv, RowLocks, NEW r \in Requests, Alone(r), UNCHANGED locks,
         pc[r] \notin Holding, pc'[r] \notin {"snapshot_sessions", "revoke_sessions"}
  PROVE  RowLocks'
<1>1. locks[r] = {} BY DEF RowLocks, LocksOK, Holding
<1>2. LocksOK(r)' BY <1>1 DEF LocksOK
<1>. QED BY <1>1, <1>2, LocksKept

(* A step that ends the transaction. *)
LEMMA LocksReleased ==
  ASSUME IInv, RowLocks, NEW r \in Requests, Alone(r), Release(r),
         pc'[r] \notin {"snapshot_sessions", "revoke_sessions"}
  PROVE  RowLocks'
<1>1. locks'[r] = {} BY DEF Release, IInv, TypeOK
<1>2. LocksOK(r)' BY <1>1 DEF LocksOK
<1>. QED BY <1>1, <1>2, LocksKept

LEMMA ServingLocks ==
  ASSUME IInv, RowLocks, NEW r \in Requests, Alone(r), Serving(r)
  PROVE  RowLocks'
<1>1. /\ TypeOK /\ LocksOK(r)
      /\ pc \in [Requests -> Statements] /\ loc \in [Requests -> Locals]
      /\ loc[r] \in Locals
      /\ locks \in [Requests -> SUBSET Rows]
  BY DEF IInv, TypeOK, RowLocks
<1>2. CASE RevokeOld(r)
  <2>1. pc'[r] = "commit_rotation" BY <1>1, <1>2, Reached DEF RevokeOld
  <2>2. /\ locks'[r] = locks[r] \cup {SessionRow(call[r].cred)}
        /\ Unlocked(r, SessionRow(call[r].cred))
    BY <1>1, <1>2 DEF RevokeOld, Lock
  <2>3. LocksOK(r)' BY <2>1 DEF LocksOK
  <2>. QED BY <2>2, <2>3, LocksKept
<1>3. CASE CommitRotation(r)
  <2>1. pc'[r] = "respond" BY <1>1, <1>3 DEF CommitRotation, Reply, Goto
  <2>. QED BY <1>3, <2>1, LocksReleased DEF CommitRotation
<1>4. CASE FlushReset(r)
  <2> DEFINE rows == FlushedRows(loc[r].user, call[r].cred)
  <2>1. pc'[r] = "snapshot_sessions" /\ loc'[r] = loc[r]
    BY <1>1, <1>4, Reached DEF FlushReset
  <2>2. locks'[r] = locks[r] \cup rows /\ \A row \in rows : Unlocked(r, row)
    BY <1>1, <1>4 DEF FlushReset, Lock
  <2>3. UserRow(loc[r].user) \in rows BY DEF FlushedRows
  <2>4. LocksOK(r)' BY <2>1, <2>2, <2>3 DEF LocksOK
  <2>. QED BY <2>2, <2>4, LocksKept
<1>5. CASE SnapshotSessions(r)
  <2> DEFINE l == [loc[r] EXCEPT !.todo = SessionsOf(loc[r].user)]
  <2>1. l.user = loc[r].user BY <1>1 DEF Locals
  <2>2. Goto(r, "revoke_sessions", l) /\ UNCHANGED locks /\ pc[r] = "snapshot_sessions"
    BY <1>5 DEF SnapshotSessions
  <2>3. pc'[r] = "revoke_sessions" /\ loc'[r] = l
    BY <1>1, <2>2, Reached
  <2>4. LocksOK(r)' BY <1>1, <2>1, <2>2, <2>3 DEF LocksOK
  <2>. QED BY <2>2, <2>4, LocksKept
<1>6. ASSUME NEW k \in RefreshIds, RevokeSession(r, k) PROVE RowLocks'
  <2> DEFINE l == [loc[r] EXCEPT !.todo = @ \ {k}]
  <2>1. l.user = loc[r].user BY <1>1 DEF Locals
  <2>2. Goto(r, "revoke_sessions", l) /\ pc[r] = "revoke_sessions"
    BY <1>6 DEF RevokeSession
  <2>3. pc'[r] = "revoke_sessions" /\ loc'[r] = l
    BY <1>1, <2>2, Reached
  <2>4. locks'[r] = locks[r] \cup {SessionRow(k)} /\ Unlocked(r, SessionRow(k))
    BY <1>1, <1>6 DEF RevokeSession, Lock
  <2>5. LocksOK(r)' BY <1>1, <2>1, <2>2, <2>3, <2>4 DEF LocksOK
  <2>. QED BY <2>4, <2>5, LocksKept
<1>7. CASE CommitReset(r)
  <2>1. pc'[r] = "respond" BY <1>1, <1>7 DEF CommitReset, Reply, Goto
  <2>. QED BY <1>7, <2>1, LocksReleased DEF CommitReset
<1>. QED
  BY <1>1, <1>2, <1>3, <1>4, <1>5, <1>6, <1>7, Unlocking, LocksLeft

(* Rows that nobody waits for in a circle: of any requests, a rotation that *)
(* commits or a reset about to read its sessions waits for nothing; a reset *)
(* that revokes waits for a rotation only, another reset of its account     *)
(* being kept out by the users row; and the others hold nothing.            *)
LEMMA OneGoesOn ==
  ASSUME IInv, Provenance, RowLocks
  PROVE  NoCircularWait
<1> SUFFICES ASSUME NEW S \in SUBSET Requests, S # {}
             PROVE  \E r \in S : \A q \in S : ~WaitsFor(r, q)
  BY DEF NoCircularWait
<1>1. CASE \E r \in S : pc[r] \in {"commit_rotation", "snapshot_sessions"}
  <2>1. PICK r \in S : pc[r] \in {"commit_rotation", "snapshot_sessions"} BY <1>1
  <2>2. Needs(r) = {} BY <2>1 DEF Needs
  <2>. QED BY <2>2 DEF WaitsFor
<1>2. CASE /\ \A r \in S : pc[r] \notin {"commit_rotation", "snapshot_sessions"}
           /\ \E r \in S : pc[r] = "revoke_sessions"
  <2>1. PICK r \in S : pc[r] = "revoke_sessions" BY <1>2
  <2>2. Needs(r) = {SessionRow(k) : k \in loc[r].todo} BY <2>1 DEF Needs
  <2>3. ASSUME NEW q \in S, WaitsFor(r, q) PROVE FALSE
    <3>1. PICK k \in loc[r].todo : SessionRow(k) \in locks[q]
      BY <2>2, <2>3 DEF WaitsFor
    <3>2. k \in RefreshIds /\ LockProof(r) /\ LockProof(q)
      BY DEF IInv, TypeOK, Locals, Provenance, RequestProof
    <3>3. k \in SessionsOf(loc[r].user) BY <2>1, <3>1, <3>2 DEF LockProof
    <3>4. pc[q] = "revoke_sessions" /\ k \in SessionsOf(loc[q].user)
      BY <1>2, <3>1, <3>2 DEF LockProof
    <3>5. loc[r].user = loc[q].user BY <3>3, <3>4 DEF SessionsOf
    <3>6. UserRow(loc[r].user) \in locks[r] \cap locks[q]
      BY <2>1, <3>4, <3>5 DEF RowLocks, LocksOK
    <3>. QED BY <2>3, <3>6 DEF RowLocks, WaitsFor
  <2>. QED BY <2>3
<1>3. CASE \A r \in S : pc[r] \notin Holding
  <2>1. \A r \in S : locks[r] = {} BY <1>3 DEF RowLocks, LocksOK, Holding
  <2>. QED BY <2>1 DEF WaitsFor
<1>. QED BY <1>1, <1>2, <1>3 DEF Holding

-----------------------------------------------------------------------------
(* What a login has seen *)

(* The statements of a login. *)
LEMMA LoggingIn ==
  ASSUME IInv, NEW r \in Requests, Serving(r)
  PROVE  /\ UNCHANGED call
         /\ call[r].endpoint = "login" => Authenticate(r) \/ issue_refresh_token(r)
<1>1. pc \in [Requests -> Statements] /\ call[r].endpoint \in EndpointsAt(pc[r])
  BY DEF IInv, TypeOK, RequestOK
<1>2. CASE SelectRefresh(r) \/ RevokeOld(r) \/ CommitRotation(r) \/ revoke_refresh_token(r)
  BY <1>1, <1>2
  DEF SelectRefresh, RevokeOld, CommitRotation, revoke_refresh_token, Goto, Reply, Reject,
      EndpointsAt
<1>3. CASE SelectUserMail(r) \/ InsertToken(r) \/ SelectToken(r) \/ SelectOwner(r)
  BY <1>1, <1>3
  DEF SelectUserMail, InsertToken, SelectToken, SelectOwner, Goto, Reply, Reject, EndpointsAt
<1>4. CASE CommitVerify(r) \/ FlushReset(r) \/ SnapshotSessions(r) \/ CommitReset(r)
           \/ \E k \in RefreshIds : RevokeSession(r, k)
  BY <1>1, <1>4
  DEF CommitVerify, FlushReset, SnapshotSessions, RevokeSession, CommitReset, Goto, Reply,
      EndpointsAt
<1>5. CASE SelectProvider(r) \/ SelectByEmail(r) \/ CreateUser(r)
  BY <1>1, <1>5 DEF SelectProvider, SelectByEmail, CreateUser, Goto, Reply, Reject, EndpointsAt
<1>6. CASE LinkGoogle(r) \/ CreateGoogleUser(r)
  BY <1>1, <1>6 DEF LinkGoogle, CreateGoogleUser, Goto, Reply, Reject, EndpointsAt
<1>7. CASE Authenticate(r) \/ issue_refresh_token(r)
  BY <1>7 DEF Authenticate, issue_refresh_token, Goto, Reply, Reject
<1>. QED
  BY <1>2, <1>3, <1>4, <1>5, <1>6, <1>7 DEF Serving, SessionStep, TokenStep, AccountStep

(* The steps of the others change the password of a login's account only in *)
(* a reset.                                                                 *)
LEMMA LoginStable ==
  ASSUME IInv, IInv', Rely, RelyMore, NEW q \in Requests, LoginProof(q),
         pc'[q] = pc[q], call'[q] = call[q], loc'[q] = loc[q]
  PROVE  LoginProof(q)'
<1> DEFINE u == loc[q].user
           In == call[q].endpoint = "login" /\ (pc[q] = "issue" \/ Answered(q, "login", "ok"))
<1>1. In' <=> In BY DEF Answered
<1>2. CASE ~In BY <1>1, <1>2 DEF LoginProof
<1>3. CASE In
  <2>1. /\ u \in Addresses /\ users[u] # None /\ loc[q].loaded # None
        /\ users[u].resets >= loc[q].loaded.resets
        /\ users[u].resets = loc[q].loaded.resets =>
             users[u].password_hash = call[q].password
    BY <1>3 DEF LoginProof
  <2>2. /\ users'[u] # None
        /\ users'[u].resets >= users[u].resets
        /\ users'[u].resets = users[u].resets =>
             users'[u].password_hash = users[u].password_hash
    BY <2>1 DEF Rely, RelyMore
  <2>3. users[u] \in User /\ users'[u] \in User /\ loc[q].loaded \in User
    BY <2>1, <2>2 DEF IInv, TypeOK, Locals
  <2>4. users[u].resets \in Nat /\ users'[u].resets \in Nat /\ loc[q].loaded.resets \in Nat
    BY <2>3 DEF User
  <2>. QED BY <2>1, <2>2, <2>4 DEF LoginProof
<1>. QED BY <1>2, <1>3

LEMMA LoginOwn ==
  ASSUME IInv, NEW r \in Requests, LoginProof(r),
         ClientCall(r) \/ Respond(r) \/ LoseResponse(r) \/ Crash(r) \/ Serving(r)
  PROVE  LoginProof(r)'
<1>1. TypeOK /\ RequestOK(r) /\ loc[r] \in Locals BY DEF IInv, TypeOK
<1>2. CASE ClientCall(r)
  <2>1. pc'[r] \notin {"issue", "respond"} BY <1>1, <1>2, Arriving DEF Firsts
  <2>. QED BY <2>1 DEF LoginProof, Answered
<1>3. CASE Respond(r) \/ LoseResponse(r) \/ Crash(r)
  <2>1. pc'[r] = "idle" BY <1>1, <1>3, Leaving
  <2>. QED BY <2>1 DEF LoginProof, Answered
<1>4. CASE Serving(r)
  <2>1. UNCHANGED call BY <1>4, LoggingIn
  <2>2. CASE call[r].endpoint # "login" BY <2>1, <2>2 DEF LoginProof
  <2>3. CASE Authenticate(r)
    <3> DEFINE a == normalize_email(call[r].email)
               l == [loc[r] EXCEPT !.user = a, !.loaded = users[a]]
    <3>1. call[r].endpoint = "login" /\ a \in Addresses
      BY <1>1, <2>3, NormAssumption
      DEF Authenticate, RequestOK, CallOK, EndpointsAt, normalize_email
    <3>2. CASE ~Accepted(a, call[r].password)
      <4>1. pc'[r] = "respond" /\ loc'[r].status = "rejected"
        BY <1>1, <2>3, <3>2, Turned DEF Authenticate
      <4>. QED BY <4>1 DEF LoginProof, Answered
    <3>3. CASE Accepted(a, call[r].password)
      <4>1. Goto(r, "issue", l) /\ UNCHANGED users BY <2>3, <3>3 DEF Authenticate, db
      <4>2. l.user = a /\ l.loaded = users[a] BY <1>1 DEF Locals
      <4>3. pc'[r] = "issue" /\ loc'[r] = l BY <1>1, <4>1, Reached
      <4>4. users[a] \in User BY <1>1, <3>1, <3>3 DEF Accepted, TypeOK
      <4>5. users[a].resets \in Nat BY <4>4 DEF User
      <4>. QED BY <2>1, <3>1, <3>3, <4>1, <4>2, <4>3, <4>5 DEF LoginProof, Accepted
    <3>. QED BY <3>2, <3>3
  <2>4. CASE issue_refresh_token(r) /\ call[r].endpoint = "login"
    <3>1. PICK k \in RefreshIds :
            Goto(r, "respond", [loc[r] EXCEPT !.out = k, !.status = "ok"])
      BY <2>4 DEF issue_refresh_token, Reply
    <3> DEFINE l == [loc[r] EXCEPT !.out = k, !.status = "ok"]
    <3>2. l.user = loc[r].user /\ l.loaded = loc[r].loaded BY <1>1 DEF Locals
    <3>3. pc'[r] = "respond" /\ loc'[r] = l BY <1>1, <3>1, Reached
    <3>4. UNCHANGED users /\ pc[r] = "issue" BY <2>4 DEF issue_refresh_token
    <3>. QED BY <2>1, <2>4, <3>2, <3>3, <3>4 DEF LoginProof
  <2>. QED BY <1>4, <2>2, <2>3, <2>4, LoggingIn
<1>. QED BY <1>2, <1>3, <1>4

(* An answered login has the password its account has had since the last    *)
(* reset.                                                                   *)
LEMMA LoginsCurrent ==
  ASSUME IInv, \A r \in Requests : LoginProof(r)
  PROVE  LoginsUseCurrentPassword
<1> SUFFICES ASSUME NEW r \in Requests, Answered(r, "login", "ok")
             PROVE  \/ users[loc[r].user].password_hash = call[r].password
                    \/ users[loc[r].user].resets > loc[r].loaded.resets
  BY DEF LoginsUseCurrentPassword
<1> DEFINE u == loc[r].user
<1>1. /\ u \in Addresses /\ users[u] # None /\ loc[r].loaded # None
      /\ users[u].resets >= loc[r].loaded.resets
      /\ users[u].resets = loc[r].loaded.resets =>
           users[u].password_hash = call[r].password
  BY DEF LoginProof, Answered
<1>2. users[u] \in User /\ loc[r].loaded \in User BY <1>1 DEF IInv, TypeOK, Locals
<1>3. users[u].resets \in Nat /\ loc[r].loaded.resets \in Nat BY <1>2 DEF User
<1>. QED BY <1>1, <1>3

-----------------------------------------------------------------------------
(* How an account can be entered *)

WayIn(a) ==
  LET own == PasswordProvider(a) \in auth_providers
      linked == \E p \in auth_providers : p.user_id = a /\ p.provider = "google"
  IN
  /\ own \/ linked
  /\ own => users[a].password_hash # None
  /\ users[a].password_hash # None => own \/ users[a].resets > 0

(* A step that opens new accounts properly and links no password to the     *)
(* ones there are.                                                          *)
LEMMA WayInKept ==
  ASSUME IInv, IInv', Rely, RelyMore, EveryAccountHasAWayIn,
         \A a \in Addresses : users[a] = None /\ users'[a] # None => WayIn(a)',
         \A a \in Addresses : users[a] # None /\ PasswordProvider(a) \in auth_providers' =>
           PasswordProvider(a) \in auth_providers
  PROVE  EveryAccountHasAWayIn'
<1> SUFFICES ASSUME NEW a \in Addresses, users'[a] # None PROVE WayIn(a)'
  BY DEF EveryAccountHasAWayIn, WayIn
<1>1. CASE users[a] # None
  <2> DEFINE own == PasswordProvider(a) \in auth_providers
             linked(ps) == \E p \in ps : p.user_id = a /\ p.provider = "google"
  <2>1. /\ own \/ linked(auth_providers)
        /\ own => users[a].password_hash # None
        /\ users[a].password_hash # None => own \/ users[a].resets > 0
    BY <1>1 DEF EveryAccountHasAWayIn
  <2>2. /\ auth_providers \subseteq auth_providers'
        /\ users'[a].resets >= users[a].resets
        /\ users'[a].resets = users[a].resets =>
             users'[a].password_hash = users[a].password_hash
        /\ users[a].password_hash # None => users'[a].password_hash # None
    BY <1>1 DEF RelyMore
  <2>3. users[a] \in User /\ users'[a] \in User BY <1>1 DEF IInv, TypeOK
  <2>4. users[a].resets \in Nat /\ users'[a].resets \in Nat BY <2>3 DEF User
  <2>5. own <=> PasswordProvider(a) \in auth_providers' BY <1>1, <2>2
  <2>6. linked(auth_providers) => linked(auth_providers') BY <2>2
  <2>. QED BY <2>1, <2>2, <2>4, <2>5, <2>6 DEF WayIn
<1>2. CASE users[a] = None BY <1>2
<1>. QED BY <1>1, <1>2

(* A statement that makes no account and links none.                        *)
LEMMA WayInLeft ==
  ASSUME IInv, IInv', Rely, RelyMore, EveryAccountHasAWayIn, UNCHANGED auth_providers,
         \A a \in Addresses : users'[a] # None => users[a] # None
  PROVE  EveryAccountHasAWayIn'
BY WayInKept

LEMMA CreateUserWayIn ==
  ASSUME IInv, IInv', Rely, RelyMore, EveryAccountHasAWayIn, NEW r \in Requests, CreateUser(r)
  PROVE  EveryAccountHasAWayIn'
<1>1. /\ users \in [Addresses -> User \cup {None}] /\ RequestOK(r)
      /\ pc[r] = "insert_user"
  BY DEF IInv, TypeOK, CreateUser
<1>2. PICK a \in Addresses, p \in Passwords :
        a = StoredEmail(call[r].email) /\ p = call[r].password
  BY <1>1, NormAssumption
  DEF RequestOK, CallOK, EndpointsAt, StoredEmail, normalize_email
<1>3. CASE users[a] # None
  BY <1>2, <1>3, WayInLeft DEF CreateUser
<1>4. CASE users[a] = None
  <2>1. /\ users' = [users EXCEPT ![a] = NewUser(p, FALSE)]
        /\ auth_providers' = auth_providers \cup {PasswordProvider(a)}
    BY <1>2, <1>4 DEF CreateUser
  <2>2. users'[a].password_hash # None
    <3>1. users'[a] = NewUser(p, FALSE) BY <1>1, <2>1
    <3>. QED BY <3>1, NoneAssumption DEF NewUser
  <2>3. \A b \in Addresses \ {a} : users'[b] = users[b] BY <1>1, <2>1
  <2>4. WayIn(a)' BY <2>1, <2>2 DEF WayIn
  <2>5. \A b \in Addresses : PasswordProvider(b) = PasswordProvider(a) => b = a
    BY DEF PasswordProvider
  <2>. QED BY <1>4, <2>1, <2>3, <2>4, <2>5, WayInKept
<1>. QED BY <1>3, <1>4

(* A Google row is no password row. *)
LEMMA GoogleIsNoPassword ==
  ASSUME NEW u, NEW s,
         auth_providers' = auth_providers \cup {GoogleProvider(u, s)}
  PROVE  /\ \A a : PasswordProvider(a) \in auth_providers' =>
              PasswordProvider(a) \in auth_providers
         /\ \E p \in auth_providers' : p.user_id = u /\ p.provider = "google"
<1>1. /\ GoogleProvider(u, s).provider = "google"
      /\ GoogleProvider(u, s).user_id = u
  BY DEF GoogleProvider
<1>2. \A a : PasswordProvider(a).provider = "password" BY DEF PasswordProvider
<1>3. \A a : PasswordProvider(a) # GoogleProvider(u, s) BY <1>1, <1>2
<1>. QED BY <1>1, <1>3

LEMMA CreateGoogleUserWayIn ==
  ASSUME IInv, IInv', Rely, RelyMore, EveryAccountHasAWayIn, NEW r \in Requests,
         CreateGoogleUser(r)
  PROVE  EveryAccountHasAWayIn'
<1>1. /\ users \in [Addresses -> User \cup {None}] /\ RequestOK(r)
      /\ pc[r] = "create_google"
  BY DEF IInv, TypeOK, CreateGoogleUser
<1>2. PICK u \in Addresses : u = loc[r].user BY <1>1 DEF RequestOK, LocalsOK
<1> DEFINE s == call[r].cred
<1>3. CASE UNCHANGED <<users, auth_providers>> BY <1>3, WayInLeft
<1>4. CASE /\ users[u] = None
           /\ users' = [users EXCEPT ![u] = NewUser(None, TRUE)]
           /\ auth_providers' = auth_providers \cup {GoogleProvider(u, s)}
  <2>1. /\ users'[u].password_hash = None
        /\ \A b \in Addresses \ {u} : users'[b] = users[b]
    BY <1>1, <1>2, <1>4 DEF NewUser
  <2>2. PasswordProvider(u) \notin auth_providers
    <3>1. PasswordProvider(u).user_id = u BY DEF PasswordProvider
    <3>2. \A p \in auth_providers : p.user_id # u BY <1>4 DEF IInv, References
    <3>. QED BY <3>1, <3>2
  <2>3. WayIn(u)' BY <1>4, <2>1, <2>2, GoogleIsNoPassword DEF WayIn
  <2>. QED BY <1>4, <2>1, <2>3, GoogleIsNoPassword, WayInKept
<1>. QED BY <1>2, <1>3, <1>4 DEF CreateGoogleUser

LEMMA LinkGoogleWayIn ==
  ASSUME IInv, IInv', Rely, RelyMore, EveryAccountHasAWayIn, NEW r \in Requests, LinkGoogle(r)
  PROVE  EveryAccountHasAWayIn'
<1> DEFINE u == loc[r].user
           s == call[r].cred
<1>1. /\ users \in [Addresses -> User \cup {None}] /\ RequestOK(r) /\ pc[r] = "link"
  BY DEF IInv, TypeOK, LinkGoogle
<1>2. u \in Addresses /\ users[u] # None
  BY <1>1 DEF RequestOK, LocalsOK, KnowsUser
<1>3. CASE UNCHANGED <<users, auth_providers>> BY <1>3, WayInLeft
<1>4. CASE /\ users' = [users EXCEPT ![u].is_email_verified = TRUE]
           /\ auth_providers' = auth_providers \cup {GoogleProvider(u, s)}
  <2>1. \A b \in Addresses \ {u} : users'[b] = users[b] BY <1>1, <1>4
  <2>. QED BY <1>2, <1>4, <2>1, GoogleIsNoPassword, WayInKept
<1>. QED BY <1>3, <1>4 DEF LinkGoogle

LEMMA ServingWayIn ==
  ASSUME IInv, IInv', Rely, RelyMore, EveryAccountHasAWayIn, NEW r \in Requests, Serving(r)
  PROVE  EveryAccountHasAWayIn'
<1>1. users \in [Addresses -> User \cup {None}] /\ LocalsOK(r)
  BY DEF IInv, TypeOK, RequestOK
<1>2. CASE SessionStep(r)
  BY <1>2, WayInLeft
  DEF SessionStep, issue_refresh_token, SelectRefresh, RevokeOld, CommitRotation,
      revoke_refresh_token, db
<1>3. CASE SelectUserMail(r) \/ InsertToken(r) \/ SelectToken(r) \/ SelectOwner(r)
  BY <1>3, WayInLeft DEF SelectUserMail, InsertToken, SelectToken, SelectOwner, db
<1>4. CASE FlushReset(r) \/ SnapshotSessions(r) \/ \E k \in RefreshIds : RevokeSession(r, k)
  BY <1>4, WayInLeft DEF FlushReset, SnapshotSessions, RevokeSession, db
<1>5. CASE CommitVerify(r) \/ CommitReset(r)
  <2>1. loc[r].user \in Addresses /\ users[loc[r].user] # None
    BY <1>1, <1>5 DEF LocalsOK, KnowsUser, CommitVerify, CommitReset
  <2>2. \A a \in Addresses \ {loc[r].user} : users'[a] = users[a]
    BY <1>1, <1>5 DEF CommitVerify, CommitReset
  <2>3. UNCHANGED auth_providers BY <1>5 DEF CommitVerify, CommitReset
  <2>. QED BY <2>1, <2>2, <2>3, WayInLeft
<1>6. CASE Authenticate(r) \/ SelectProvider(r) \/ SelectByEmail(r)
  BY <1>6, WayInLeft DEF Authenticate, SelectProvider, SelectByEmail, db
<1>. QED
  BY <1>2, <1>3, <1>4, <1>5, <1>6, CreateUserWayIn, CreateGoogleUserWayIn, LinkGoogleWayIn
  DEF Serving, TokenStep, AccountStep

-----------------------------------------------------------------------------
(* The theorems *)

LEMMA RequestStands ==
  ASSUME IInv, IInv', Rely, RelyMore, Standing, EveryAccountHasAWayIn, NEW r \in Requests,
         ClientCall(r) \/ LoseResponse(r) \/ Crash(r) \/ ServerStep(r)
  PROVE  Standing' /\ EveryAccountHasAWayIn'
<1>1. /\ TypeOK /\ Alone(r) /\ RowLocks
      /\ \A q \in Requests : LoginProof(q)
  BY RequestSteps DEF IInv, StepOK, Standing
<1>2. ClientCall(r) \/ Respond(r) \/ LoseResponse(r) \/ Crash(r) \/ Serving(r)
  BY DEF ServerStep, Serving
<1>3. RowLocks'
  <2>1. CASE ClientCall(r)
    BY <1>1, <2>1, Arriving, LocksLeft DEF Firsts, Holding
  <2>2. CASE Respond(r) \/ LoseResponse(r) \/ Crash(r)
    BY <1>1, <2>2, Leaving, LocksLeft, LocksReleased DEF Release, Holding
  <2>3. CASE Serving(r) BY <1>1, <2>3, ServingLocks
  <2>. QED BY <1>2, <2>1, <2>2, <2>3
<1>4. ASSUME NEW q \in Requests PROVE LoginProof(q)'
  <2>1. CASE q = r BY <1>1, <1>2, <2>1, LoginOwn
  <2>2. CASE q # r BY <1>1, <2>2, LoginStable DEF Alone
  <2>. QED BY <2>1, <2>2
<1>5. EveryAccountHasAWayIn'
  <2>1. CASE ClientCall(r) \/ Respond(r) \/ LoseResponse(r) \/ Crash(r)
    <3>1. UNCHANGED <<users, auth_providers>> BY <1>1, <2>1, Arriving, Leaving DEF db
    <3>. QED BY <1>1, <3>1, WayInLeft
  <2>2. CASE Serving(r) BY <1>1, <2>2, ServingWayIn
  <2>. QED BY <1>2, <2>1, <2>2
<1>. QED BY <1>3, <1>4, <1>5 DEF Standing

(* Mail, time and steps of others leave the requests alone.                 *)
LEMMA AmbientStands ==
  ASSUME IInv, IInv', Rely, RelyMore, Standing, EveryAccountHasAWayIn,
         UNCHANGED <<users, auth_providers, locks, pc, call, loc>>
  PROVE  Standing' /\ EveryAccountHasAWayIn'
<1>1. RowLocks' BY DEF Standing, RowLocks, LocksOK
<1>2. \A q \in Requests : LoginProof(q)' BY LoginStable DEF Standing
<1>3. EveryAccountHasAWayIn' BY WayInLeft
<1>. QED BY <1>1, <1>2, <1>3 DEF Standing

LEMMA NextStands ==
  ASSUME IInv, Provenance, Standing, EveryAccountHasAWayIn, [Next]_vars
  PROVE  Standing' /\ EveryAccountHasAWayIn'
<1>1. IInv' /\ Rely /\ RelyMore BY NextKeeps, NextProves
<1>2. CASE \E r \in Requests : ClientCall(r) \/ LoseResponse(r) \/ Crash(r) \/ ServerStep(r)
  BY <1>1, <1>2, RequestStands
<1>3. CASE \E t \in TokenIds : DeliverMail(t) \/ LoseMail(t) \/ ExpireToken(t)
  BY <1>1, <1>3, AmbientStands DEF DeliverMail, LoseMail, ExpireToken, db
<1>4. CASE \E k \in RefreshIds : ExpireSession(k)
  BY <1>1, <1>4, AmbientStands DEF ExpireSession
<1>5. CASE UNCHANGED vars
  BY <1>1, <1>5, AmbientStands DEF vars, db
<1>. QED BY <1>2, <1>3, <1>4, <1>5 DEF Next, Environment

LEMMA InitiallyStanding == Init => Standing /\ EveryAccountHasAWayIn
<1> SUFFICES ASSUME Init PROVE Standing /\ EveryAccountHasAWayIn
  OBVIOUS
<1>1. RowLocks BY DEF Init, RowLocks, LocksOK
<1>2. ASSUME NEW r \in Requests PROVE LoginProof(r)
  BY DEF Init, LoginProof, Answered
<1>3. EveryAccountHasAWayIn
  <2>1. PICK hash \in [Registered -> Passwords] :
          users = [a \in Addresses |-> IF a \in Registered
                                         THEN NewUser(hash[a], TRUE) ELSE None]
    BY DEF Init
  <2>2. \A a \in Registered : PasswordProvider(a) \in auth_providers BY DEF Init
  <2> SUFFICES ASSUME NEW a \in Addresses, users[a] # None PROVE WayIn(a)
    BY DEF EveryAccountHasAWayIn, WayIn
  <2>3. a \in Registered /\ users[a] = NewUser(hash[a], TRUE) BY <2>1
  <2>4. users[a].password_hash # None BY <2>3, NoneAssumption DEF NewUser
  <2>. QED BY <2>2, <2>3, <2>4 DEF WayIn
<1>. QED BY <1>1, <1>2, <1>3 DEF Standing

LEMMA StandsForGood == Spec => [](Standing /\ EveryAccountHasAWayIn)
<1>1. /\ IInv /\ Provenance /\ Standing /\ EveryAccountHasAWayIn /\ [Next]_vars
      => Standing' /\ EveryAccountHasAWayIn'
  BY NextStands
<1>. QED BY <1>1, InitiallyStanding, Inductive, WritesHaveCauses, PTL DEF Spec

(* At every statement of every endpoint, row locks are exclusive and held   *)
(* from the first UPDATE to the COMMIT only (rotate_refresh_token,          *)
(* reset_password), and a login under way was given the password its        *)
(* account had when authenticate read it.                                   *)
THEOREM RequestsStand == Spec => []Standing
BY StandsForGood, PTL

(* The row locks of rotate_refresh_token, reset_password, verify_email and  *)
(* link_or_create_google_user never make requests wait in a circle, for any *)
(* number of them: reset_password takes the users row first.                *)
THEOREM NobodyWaitsInACircle == Spec => []NoCircularWait
<1>1. IInv /\ Provenance /\ Standing => NoCircularWait
  BY OneGoesOn DEF Standing
<1>. QED BY <1>1, RequestsStand, Inductive, WritesHaveCauses, PTL

(* authenticate and issue_refresh_token are two transactions, yet the       *)
(* session a login opens was opened with the account's password, unless     *)
(* reset_password committed between them.                                   *)
THEOREM LoginsKnowThePassword == Spec => []LoginsUseCurrentPassword
<1>1. IInv /\ Standing => LoginsUseCurrentPassword BY LoginsCurrent DEF Standing
<1>. QED BY <1>1, RequestsStand, Inductive, PTL

(* create_user, link_or_create_google_user and reset_password leave every   *)
(* account with a provider row, and a password row only beside a password.  *)
THEOREM AccountsCanBeEntered == Spec => []EveryAccountHasAWayIn
BY StandsForGood, PTL
=============================================================================
