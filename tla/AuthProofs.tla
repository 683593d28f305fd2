----------------------------- MODULE AuthProofs -----------------------------
(***************************************************************************)
(* Proofs that the invariants of Auth hold for every number of requests,   *)
(* browsers, accounts and tokens.                                          *)
(***************************************************************************)
EXTENDS AuthInvariant, TLAPS

(* Request r alone moves; every other request keeps its coroutine's state   *)
(* and its locks.                                                           *)
Alone(r) ==
  \A q \in Requests \ {r} :
    pc'[q] = pc[q] /\ call'[q] = call[q] /\ loc'[q] = loc[q] /\ locks'[q] = locks[q]

(* What the rows in the database satisfy together. *)
Global == References /\ GoogleVerified /\ SessionsVerified /\ RotationRetiresParent

(* What one step of request r has to show. *)
StepOK(r) == TypeOK' /\ Rely /\ Global' /\ RequestOK(r)' /\ Alone(r)

USE DEF RefreshIds, TokenIds

(* The call of a request stays what it was, and its dead token dead. *)
LEMMA StableCall ==
  ASSUME TypeOK, TypeOK', Rely,
         NEW q \in Requests, RequestOK(q), call'[q] = call[q]
  PROVE  /\ CallOK(q)'
         /\ call[q].endpoint = "refresh" /\ call[q].dead
              => DeadSession(call[q].cred)'
         /\ call[q].endpoint \in {"verify_email", "reset"} /\ call[q].dead
              => DeadToken(call[q].cred)'
<1>1. Sessions \subseteq Sessions' /\ TokenRows \subseteq TokenRows'
  BY DEF Rely, Sessions, TokenRows
<1>2. CallOK(q)'
  BY <1>1 DEF CallOK, RequestOK
<1>3. ASSUME call[q].endpoint = "refresh", call[q].dead
      PROVE  DeadSession(call[q].cred)'
  BY <1>3 DEF RequestOK, CallOK, DeadOK, DeadSession, Rely, Sessions
<1>4. ASSUME call[q].endpoint \in {"verify_email", "reset"}, call[q].dead
      PROVE  DeadToken(call[q].cred)'
  BY <1>4 DEF RequestOK, CallOK, DeadOK, DeadToken, Rely, TokenRows
<1>. QED BY <1>2, <1>3, <1>4

(* What a request counts on survives any step of the others. *)
LEMMA Stable ==
  ASSUME TypeOK, TypeOK', Rely,
         NEW q \in Requests, RequestOK(q),
         pc'[q] = pc[q], call'[q] = call[q], loc'[q] = loc[q], locks'[q] = locks[q]
  PROVE  RequestOK(q)'
<1>1. Sessions \subseteq Sessions' /\ TokenRows \subseteq TokenRows'
  BY DEF Rely, Sessions, TokenRows
<1>2. \A a \in Addresses : users[a] # None =>
        /\ users'[a] # None
        /\ users[a].is_email_verified => users'[a].is_email_verified
  BY DEF Rely
<1>3. \A x, s : Answered(q, x, s)' <=> Answered(q, x, s)
  BY DEF Answered
<1>4. LocalsOK(q)'
  <2>1. LocalsOK(q) BY DEF RequestOK
  <2>. QED BY <2>1, <1>1, <1>2, <1>3 DEF LocalsOK, KnowsUser
<1>5. DeadOK(q)'
  BY StableCall, <1>3 DEF RequestOK, DeadOK
<1>6. ResetOK(q)'
  <2>1. ResetOK(q) /\ call[q].seen \subseteq Sessions
    BY DEF RequestOK, CallOK
  <2>. QED BY <2>1, <1>3 DEF ResetOK, Rely
<1>. QED BY StableCall, <1>4, <1>5, <1>6 DEF RequestOK

(* A step that leaves the tables and the mail alone keeps what is said of them. *)
LEMMA Reading ==
  ASSUME IInv, UNCHANGED <<db, mail>>,
         \A b \in Browsers : cookie'[b] # None => cookie'[b] \in Sessions
  PROVE  Rely /\ Global'
<1>0. /\ users' = users
      /\ refresh_tokens' = refresh_tokens
      /\ verification_tokens' = verification_tokens
  BY DEF db
<1>1. Rely
  BY <1>0 DEF Rely, Sessions, TokenRows
<1>2. Sessions' = Sessions /\ TokenRows' = TokenRows
  BY DEF Sessions, TokenRows, db
<1>3. References'
  BY <1>2 DEF IInv, References, db, mail
<1>. QED
  BY <1>1, <1>2, <1>3
  DEF Global, IInv, GoogleVerified, SessionsVerified, RotationRetiresParent, db

LEMMA NoLocalsType == NoLocals \in Locals
BY DEF NoLocals, Locals

LEMMA NoCallType == NoCall \in Call
BY DEF NoCall, Call

-----------------------------------------------------------------------------
(* Calls *)

(* The statements a call may start at. *)
Firsts ==
  {"insert_user", "select_user", "select_user_mail", "select_provider",
   "select_refresh", "revoke", "select_token"}

LEMMA BeginOK ==
  ASSUME IInv, NEW r \in Requests, NEW c \in Call, NEW first \in Firsts,
         Begin(r, c, first),
         c.endpoint \in EndpointsAt(first),
         c.endpoint \in {"refresh", "logout"} => c.cred \in Sessions \cup {None},
         c.endpoint \in {"verify_email", "reset"} => c.cred \in TokenRows,
         c.endpoint = "google" => c.cred \in Subs,
         c.endpoint \in {"signup", "login", "resend", "forgot", "google"}
           => c.email \in Addresses,
         c.endpoint \in {"signup", "login", "reset"} => c.password \in Passwords,
         c.endpoint = "refresh" /\ c.dead => DeadSession(c.cred),
         c.endpoint \in {"verify_email", "reset"} /\ c.dead => DeadToken(c.cred)
  PROVE  StepOK(r)
<1> DEFINE d == [c EXCEPT !.seen = Sessions]
<1>1. d \in Call /\ first \in Statements
  BY DEF Call, Sessions, Firsts, Statements
<1>2. /\ pc' = [pc EXCEPT ![r] = first]
      /\ call' = [call EXCEPT ![r] = d]
      /\ UNCHANGED <<db, locks, loc, cookie, mail>>
  BY DEF Begin
<1>3. TypeOK'
  BY <1>1, <1>2 DEF IInv, TypeOK, db, mail
<1>4. Alone(r)
  BY <1>2 DEF Alone, IInv, TypeOK
<1>5. pc'[r] = first /\ call'[r] = d /\ loc'[r] = loc[r]
  BY <1>1, <1>2 DEF IInv, TypeOK
<1>6. /\ d.endpoint = c.endpoint
      /\ d.cred = c.cred
      /\ d.dead = c.dead
  BY DEF Call
<1>7. Rely /\ Global'
  BY <1>2, Reading DEF IInv, References
<1>8. LocalsOK(r)'
  <2>1. pc[r] = "idle" /\ LocalsOK(r)
    BY DEF Begin, IInv, RequestOK
  <2>. QED
    BY <1>5, <2>1 DEF LocalsOK, Firsts, KnowsUser, Answered
<1>9. DeadOK(r)'
  <2>1. c.endpoint = "refresh" => first = "select_refresh"
    BY DEF EndpointsAt, Firsts
  <2>2. c.endpoint \in {"verify_email", "reset"} => first = "select_token"
    BY DEF EndpointsAt, Firsts
  <2>3. \A k : DeadSession(k) => DeadSession(k)'
    BY <1>2 DEF DeadSession, db
  <2>4. \A t : DeadToken(t) => DeadToken(t)'
    BY <1>2 DEF DeadToken, db
  <2>. QED BY <1>5, <1>6, <2>1, <2>2, <2>3, <2>4 DEF DeadOK
<1>10. ResetOK(r)'
  BY <1>5 DEF ResetOK, Answered, Firsts
<1>11. (call[r].endpoint \in EndpointsAt(pc[r]))'
  BY <1>5, <1>6 DEF EndpointsAt, Firsts
<1>12. CallOK(r)'
  <2>1. Sessions' = Sessions /\ TokenRows' = TokenRows
    BY <1>2 DEF Sessions, TokenRows, db
  <2>2. d.email = c.email /\ d.password = c.password /\ d.seen = Sessions
    BY DEF Call
  <2>. QED BY <1>5, <1>6, <2>1, <2>2 DEF CallOK
<1>. QED BY <1>3, <1>4, <1>7, <1>8, <1>9, <1>10, <1>11, <1>12 DEF StepOK, RequestOK

LEMMA ClientCallOK ==
  ASSUME IInv, NEW r \in Requests, ClientCall(r)
  PROVE  StepOK(r)
<1> USE NoCallType DEF NoCall, Call
<1>0. /\ \A b \in Browsers : cookie[b] \in Sessions \cup {None}
      /\ Sessions \subseteq RefreshIds
      /\ inbox \subseteq TokenRows
      /\ TokenRows \subseteq TokenIds
  BY DEF IInv, References, Sessions, TokenRows
<1>1. ASSUME NEW a \in Addresses, NEW p \in Passwords, SignupCall(r, a, p)
      PROVE  StepOK(r)
  <2> DEFINE c == [NoCall EXCEPT !.endpoint = "signup", !.email = a, !.password = p]
  <2>1. Begin(r, c, "insert_user") BY <1>1 DEF SignupCall
  <2>2. c \in Call BY DEF EndpointNames
  <2>. QED BY <2>1, <2>2, BeginOK DEF Firsts, EndpointsAt
<1>2. ASSUME NEW b \in Browsers, NEW a \in Addresses, NEW p \in Passwords,
             LoginCall(r, b, a, p)
      PROVE  StepOK(r)
  <2> DEFINE c == [NoCall EXCEPT !.endpoint = "login", !.browser = b,
                                 !.email = a, !.password = p]
  <2>1. Begin(r, c, "select_user") BY <1>2 DEF LoginCall
  <2>2. c \in Call BY DEF EndpointNames
  <2>. QED BY <2>1, <2>2, BeginOK DEF Firsts, EndpointsAt
<1>3. ASSUME NEW b \in Browsers, RefreshCall(r, b)
      PROVE  StepOK(r)
  <2> DEFINE c == [NoCall EXCEPT !.endpoint = "refresh", !.browser = b,
                                 !.cred = cookie[b],
                                 !.dead = DeadSession(cookie[b])]
  <2>1. Begin(r, c, "select_refresh") BY <1>3 DEF RefreshCall
  <2>2. c \in Call BY <1>0 DEF EndpointNames, DeadSession, IInv, TypeOK, RefreshToken, Sessions
  <2>3. c.endpoint = "refresh" /\ c.cred = cookie[b] /\ (c.dead => DeadSession(c.cred))
    OBVIOUS
  <2> HIDE DEF c
  <2>. QED BY <1>0, <2>1, <2>2, <2>3, BeginOK DEF Firsts, EndpointsAt
<1>4. ASSUME NEW b \in Browsers, LogoutCall(r, b)
      PROVE  StepOK(r)
  <2> DEFINE c == [NoCall EXCEPT !.endpoint = "logout", !.browser = b,
                                 !.cred = cookie[b],
                                 !.dead = DeadSession(cookie[b])]
  <2>1. Begin(r, c, "revoke") BY <1>4 DEF LogoutCall
  <2>2. c \in Call BY <1>0 DEF EndpointNames, DeadSession, IInv, TypeOK, RefreshToken, Sessions
  <2>3. c.endpoint = "logout" /\ c.cred = cookie[b] /\ (c.dead => DeadSession(c.cred))
    OBVIOUS
  <2> HIDE DEF c
  <2>. QED BY <1>0, <2>1, <2>2, <2>3, BeginOK DEF Firsts, EndpointsAt
<1>5. ASSUME NEW b \in Browsers, NEW s \in Subs, NEW a \in Addresses,
             GoogleCall(r, b, s, a)
      PROVE  StepOK(r)
  <2> DEFINE c == [NoCall EXCEPT !.endpoint = "google", !.browser = b,
                                 !.cred = s, !.email = a]
  <2>1. Begin(r, c, "select_provider") BY <1>5 DEF GoogleCall
  <2>2. c \in Call BY DEF EndpointNames
  <2>. QED BY <2>1, <2>2, BeginOK DEF Firsts, EndpointsAt
<1>6. ASSUME NEW a \in Addresses, ResendCall(r, a)
      PROVE  StepOK(r)
  <2> DEFINE c == [NoCall EXCEPT !.endpoint = "resend", !.email = a]
  <2>1. Begin(r, c, "select_user_mail") BY <1>6 DEF ResendCall
  <2>2. c \in Call BY DEF EndpointNames
  <2>. QED BY <2>1, <2>2, BeginOK DEF Firsts, EndpointsAt
<1>7. ASSUME NEW a \in Addresses, ForgotCall(r, a)
      PROVE  StepOK(r)
  <2> DEFINE c == [NoCall EXCEPT !.endpoint = "forgot", !.email = a]
  <2>1. Begin(r, c, "select_user_mail") BY <1>7 DEF ForgotCall
  <2>2. c \in Call BY DEF EndpointNames
  <2>. QED BY <2>1, <2>2, BeginOK DEF Firsts, EndpointsAt
<1>8. ASSUME NEW t \in inbox, VerifyCall(r, t)
      PROVE  StepOK(r)
  <2> DEFINE c == [NoCall EXCEPT !.endpoint = "verify_email", !.cred = t,
                                 !.dead = DeadToken(t)]
  <2>1. Begin(r, c, "select_token") BY <1>8 DEF VerifyCall
  <2>2. c \in Call
    BY <1>0 DEF EndpointNames, DeadToken, IInv, TypeOK, VerificationToken, TokenRows
  <2>3. c.endpoint = "verify_email" /\ c.cred = t /\ (c.dead => DeadToken(c.cred))
    OBVIOUS
  <2> HIDE DEF c
  <2>. QED BY <1>0, <2>1, <2>2, <2>3, BeginOK DEF Firsts, EndpointsAt
<1>9. ASSUME NEW t \in inbox, NEW p \in Passwords, ResetCall(r, t, p)
      PROVE  StepOK(r)
  <2> DEFINE c == [NoCall EXCEPT !.endpoint = "reset", !.cred = t,
                                 !.password = p, !.dead = DeadToken(t)]
  <2>1. Begin(r, c, "select_token") BY <1>9 DEF ResetCall
  <2>2. c \in Call
    BY <1>0 DEF EndpointNames, DeadToken, IInv, TypeOK, VerificationToken, TokenRows
  <2>3. c.endpoint = "reset" /\ c.cred = t /\ c.password = p /\ (c.dead => DeadToken(c.cred))
    OBVIOUS
  <2> HIDE DEF c
  <2>. QED BY <1>0, <2>1, <2>2, <2>3, BeginOK DEF Firsts, EndpointsAt
<1>. QED
  BY <1>1, <1>2, <1>3, <1>4, <1>5, <1>6, <1>7, <1>8, <1>9 DEF ClientCall

-----------------------------------------------------------------------------
(* Statements that read *)

LEMMA Going ==
  ASSUME TypeOK, NEW r \in Requests, NEW s \in Statements, NEW l \in Locals,
         Goto(r, s, l)
  PROVE  /\ pc' \in [Requests -> Statements] /\ pc'[r] = s
         /\ loc' \in [Requests -> Locals] /\ loc'[r] = l
         /\ \A q \in Requests \ {r} : pc'[q] = pc[q] /\ loc'[q] = loc[q]
         /\ UNCHANGED <<call, cookie, outbox, inbox>>
BY DEF TypeOK, Goto, mail

(* A statement that writes no table: only the request's own part is left    *)
(* to show.                                                                 *)
LEMMA Quiet ==
  ASSUME IInv, NEW r \in Requests, NEW s \in Statements, NEW l \in Locals,
         Goto(r, s, l), UNCHANGED db,
         locks' \in [Requests -> SUBSET Rows],
         \A q \in Requests \ {r} : locks'[q] = locks[q]
  PROVE  /\ TypeOK' /\ Rely /\ Global' /\ Alone(r) /\ CallOK(r)'
         /\ call'[r] = call[r] /\ pc'[r] = s /\ loc'[r] = l
         /\ Sessions' = Sessions /\ TokenRows' = TokenRows
         /\ UNCHANGED <<users, auth_providers, refresh_tokens, verification_tokens>>
<1>1. TypeOK BY DEF IInv
<1>2. UNCHANGED <<users, auth_providers, refresh_tokens, verification_tokens>>
  BY DEF db
<1>3. TypeOK'
  BY <1>1, <1>2, Going DEF TypeOK
<1>4. Alone(r)
  BY <1>1, Going DEF Alone
<1>5. Rely /\ Global'
  BY <1>1, Going, Reading DEF IInv, References, mail
<1>6. Sessions' = Sessions /\ TokenRows' = TokenRows
  BY <1>2 DEF Sessions, TokenRows
<1>7. CallOK(r)'
  BY <1>1, <1>3, <1>5, Going, StableCall DEF IInv
<1>. QED BY <1>1, <1>2, <1>3, <1>4, <1>5, <1>6, <1>7, Going

(* The locks an UPDATE takes. *)
LEMMA Locking ==
  ASSUME TypeOK, NEW r \in Requests, NEW rows \in SUBSET Rows, Lock(r, rows)
  PROVE  /\ locks' \in [Requests -> SUBSET Rows]
         /\ locks'[r] = locks[r] \cup rows
         /\ \A q \in Requests \ {r} : locks'[q] = locks[q]
BY DEF TypeOK, Lock

LEMMA RowNames ==
  /\ \A a \in Addresses : UserRow(a) \in Rows
  /\ \A k \in RefreshIds : SessionRow(k) \in Rows
  /\ \A t \in TokenIds : TokenRow(t) \in Rows
BY DEF UserRow, SessionRow, TokenRow, Rows

LEMMA Rejected ==
  ASSUME IInv, NEW r \in Requests, Reject(r), UNCHANGED <<db, locks>>,
         pc[r] # "respond", call[r].endpoint \in EndpointNames
  PROVE  StepOK(r)
<1> DEFINE l == [loc[r] EXCEPT !.status = "rejected"]
<1>1. loc[r] \in Locals /\ locks \in [Requests -> SUBSET Rows]
  BY DEF IInv, TypeOK
<1>2. l \in Locals /\ l.status = "rejected" /\ l.out = loc[r].out
  BY <1>1 DEF Locals
<1>3. Goto(r, "respond", l) BY DEF Reject, Reply
<1>4. /\ TypeOK' /\ Rely /\ Global' /\ Alone(r) /\ CallOK(r)'
      /\ call'[r] = call[r] /\ pc'[r] = "respond" /\ loc'[r] = l
  BY <1>1, <1>2, <1>3, Quiet DEF Statements
<1>5. RequestOK(r) BY DEF IInv
<1>6. LocalsOK(r)'
  BY <1>2, <1>4, <1>5 DEF LocalsOK, RequestOK, KnowsUser, Answered
<1>7. DeadOK(r)'
  BY <1>2, <1>4, <1>5, StableCall DEF DeadOK, RequestOK, Answered, IInv
<1>8. ResetOK(r)'
  BY <1>2, <1>4 DEF ResetOK, Answered
<1>. QED BY <1>4, <1>6, <1>7, <1>8 DEF StepOK, RequestOK, EndpointsAt

(* A request that is past its check of a token holds one that was alive. *)
LEMMA Alive ==
  ASSUME NEW r \in Requests, RequestOK(r),
         pc[r] \notin {"select_refresh", "select_token", "respond"}
  PROVE  call[r].endpoint \in {"refresh", "verify_email", "reset"} => ~call[r].dead
BY DEF RequestOK, DeadOK, Answered

LEMMA SelectRefreshOK ==
  ASSUME IInv, NEW r \in Requests, SelectRefresh(r)
  PROVE  StepOK(r)
<1>1. /\ TypeOK /\ RequestOK(r) /\ loc[r] \in Locals
      /\ locks \in [Requests -> SUBSET Rows]
      /\ pc[r] = "select_refresh"
  BY DEF IInv, TypeOK, SelectRefresh
<1>2. call[r].endpoint = "refresh" /\ call[r].cred \in Sessions \cup {None}
  BY <1>1 DEF RequestOK, CallOK, EndpointsAt
<1>3. CASE ~verify_refresh_token(call[r].cred)
  BY <1>1, <1>2, <1>3, Rejected DEF SelectRefresh, EndpointNames
<1>4. CASE verify_refresh_token(call[r].cred)
  <2> DEFINE k == call[r].cred
             l == [loc[r] EXCEPT !.user = refresh_tokens[k].user_id]
  <2>1. k # None /\ k \in Sessions /\ ~DeadSession(k)
    BY <1>2, <1>4 DEF verify_refresh_token, DeadSession
  <2>2. refresh_tokens[k] \in RefreshToken
    BY <1>1, <2>1 DEF TypeOK, Sessions
  <2>3. l \in Locals /\ l.out = loc[r].out /\ l.status = loc[r].status
    BY <1>1, <2>2 DEF Locals, RefreshToken
  <2>4. Goto(r, "revoke_old", l) /\ UNCHANGED <<db, locks>>
    BY <1>4 DEF SelectRefresh
  <2>5. /\ TypeOK' /\ Rely /\ Global' /\ Alone(r) /\ CallOK(r)'
        /\ call'[r] = call[r] /\ pc'[r] = "revoke_old" /\ loc'[r] = l
    BY <1>1, <2>3, <2>4, Quiet DEF Statements
  <2>6. ~call[r].dead
    BY <1>1, <1>2, <2>1 DEF RequestOK, DeadOK
  <2>7. LocalsOK(r)'
    BY <1>1, <2>1, <2>3, <2>5 DEF LocalsOK, RequestOK, KnowsUser, Answered
  <2>8. DeadOK(r)' BY <1>2, <2>5, <2>6 DEF DeadOK
  <2>9. ResetOK(r)' BY <2>5 DEF ResetOK, Answered
  <2>. QED BY <1>2, <2>5, <2>7, <2>8, <2>9 DEF StepOK, RequestOK, EndpointsAt
<1>. QED BY <1>3, <1>4

LEMMA RevokeOldOK ==
  ASSUME IInv, NEW r \in Requests, RevokeOld(r)
  PROVE  StepOK(r)
<1>1. /\ TypeOK /\ RequestOK(r) /\ loc[r] \in Locals
      /\ pc[r] = "revoke_old"
  BY DEF IInv, TypeOK, RevokeOld
<1>2. call[r].endpoint = "refresh" /\ call[r].cred \in Sessions
  BY <1>1 DEF RequestOK, CallOK, LocalsOK, EndpointsAt
<1>3. {SessionRow(call[r].cred)} \in SUBSET Rows
  BY <1>2, RowNames DEF Sessions
<1>4. /\ TypeOK' /\ Rely /\ Global' /\ Alone(r) /\ CallOK(r)'
      /\ call'[r] = call[r] /\ pc'[r] = "commit_rotation" /\ loc'[r] = loc[r]
  BY <1>1, <1>3, Locking, Quiet DEF RevokeOld, Statements
<1>5. LocalsOK(r)'
  BY <1>1, <1>2, <1>4 DEF LocalsOK, RequestOK, KnowsUser, Answered
<1>6. DeadOK(r)' BY <1>1, <1>2, <1>4, Alive DEF DeadOK
<1>7. ResetOK(r)' BY <1>4 DEF ResetOK, Answered
<1>. QED BY <1>2, <1>4, <1>5, <1>6, <1>7 DEF StepOK, RequestOK, EndpointsAt

LEMMA SelectUserMailOK ==
  ASSUME IInv, NEW r \in Requests, SelectUserMail(r)
  PROVE  StepOK(r)
<1> DEFINE a == normalize_email(call[r].email)
           e == call[r].endpoint
<1>1. /\ TypeOK /\ RequestOK(r) /\ loc[r] \in Locals
      /\ locks \in [Requests -> SUBSET Rows]
      /\ pc[r] = "select_user_mail"
  BY DEF IInv, TypeOK, SelectUserMail
<1>2. e \in {"resend", "forgot"} /\ a \in Addresses
  BY <1>1, NormAssumption DEF RequestOK, CallOK, EndpointsAt, normalize_email
<1>3. CASE WantsMail(e, a)
  <2> DEFINE l == [loc[r] EXCEPT !.user = a]
  <2>1. l \in Locals /\ l.user = a /\ l.out = loc[r].out /\ l.status = loc[r].status
    BY <1>1, <1>2 DEF Locals
  <2>2. Goto(r, "insert_token", l) /\ UNCHANGED <<db, locks>>
    BY <1>3 DEF SelectUserMail
  <2>3. /\ TypeOK' /\ Rely /\ Global' /\ Alone(r) /\ CallOK(r)' /\ users' = users
        /\ call'[r] = call[r] /\ pc'[r] = "insert_token" /\ loc'[r] = l
    BY <1>1, <2>1, <2>2, Quiet DEF Statements
  <2>4. LocalsOK(r)'
    BY <1>1, <1>2, <1>3, <2>1, <2>3
    DEF LocalsOK, RequestOK, KnowsUser, Answered, WantsMail
  <2>5. DeadOK(r)' BY <1>2, <2>3 DEF DeadOK
  <2>6. ResetOK(r)' BY <2>3 DEF ResetOK, Answered
  <2>. QED BY <1>2, <2>3, <2>4, <2>5, <2>6 DEF StepOK, RequestOK, EndpointsAt
<1>4. CASE ~WantsMail(e, a)
  <2> DEFINE l == [loc[r] EXCEPT !.status = "ok"]
  <2>1. l \in Locals /\ l.out = loc[r].out /\ l.status = "ok"
    BY <1>1 DEF Locals
  <2>2. Goto(r, "respond", l) /\ UNCHANGED <<db, locks>>
    BY <1>4 DEF SelectUserMail, Reply
  <2>3. /\ TypeOK' /\ Rely /\ Global' /\ Alone(r) /\ CallOK(r)'
        /\ call'[r] = call[r] /\ pc'[r] = "respond" /\ loc'[r] = l
    BY <1>1, <2>1, <2>2, Quiet DEF Statements
  <2>4. LocalsOK(r)'
    BY <1>1, <1>2, <2>1, <2>3 DEF LocalsOK, RequestOK, KnowsUser, Answered
  <2>5. DeadOK(r)' BY <1>2, <2>3 DEF DeadOK
  <2>6. ResetOK(r)' BY <1>2, <2>3 DEF ResetOK, Answered
  <2>. QED
    BY <1>2, <2>3, <2>4, <2>5, <2>6 DEF StepOK, RequestOK, EndpointsAt, EndpointNames
<1>. QED BY <1>3, <1>4

LEMMA SelectTokenOK ==
  ASSUME IInv, NEW r \in Requests, SelectToken(r)
  PROVE  StepOK(r)
<1> DEFINE t == call[r].cred
           e == call[r].endpoint
<1>1. /\ TypeOK /\ RequestOK(r) /\ loc[r] \in Locals
      /\ locks \in [Requests -> SUBSET Rows]
      /\ pc[r] = "select_token"
  BY DEF IInv, TypeOK, SelectToken
<1>2. e \in {"verify_email", "reset"} /\ t \in TokenRows
  BY <1>1 DEF RequestOK, CallOK, EndpointsAt
<1>3. CASE ~TokenConsumable(t, PurposeOf(e))
  BY <1>1, <1>2, <1>3, Rejected DEF SelectToken, EndpointNames
<1>4. CASE TokenConsumable(t, PurposeOf(e))
  <2> DEFINE u == verification_tokens[t].user_id
             l == [loc[r] EXCEPT !.user = u]
  <2>1. ~DeadToken(t)
    BY <1>4 DEF TokenConsumable, DeadToken
  <2>2. u \in Addresses /\ users[u] # None
    BY <1>1, <1>2 DEF TypeOK, TokenRows, VerificationToken, IInv, References
  <2>3. l \in Locals /\ l.user = u /\ l.out = loc[r].out /\ l.status = loc[r].status
    BY <1>1, <2>2 DEF Locals
  <2>4. Goto(r, "select_owner", l) /\ UNCHANGED <<db, locks>>
    BY <1>4 DEF SelectToken
  <2>5. /\ TypeOK' /\ Rely /\ Global' /\ Alone(r) /\ CallOK(r)' /\ users' = users
        /\ call'[r] = call[r] /\ pc'[r] = "select_owner" /\ loc'[r] = l
    BY <1>1, <2>3, <2>4, Quiet DEF Statements
  <2>6. ~call[r].dead
    BY <1>1, <1>2, <2>1 DEF RequestOK, DeadOK
  <2>7. LocalsOK(r)'
    BY <1>1, <2>2, <2>3, <2>5 DEF LocalsOK, RequestOK, KnowsUser, Answered
  <2>8. DeadOK(r)' BY <1>2, <2>5, <2>6 DEF DeadOK
  <2>9. ResetOK(r)' BY <2>5 DEF ResetOK, Answered
  <2>. QED BY <1>2, <2>5, <2>7, <2>8, <2>9 DEF StepOK, RequestOK, EndpointsAt
<1>. QED BY <1>3, <1>4

LEMMA SelectOwnerOK ==
  ASSUME IInv, NEW r \in Requests, SelectOwner(r)
  PROVE  StepOK(r)
<1> DEFINE u == loc[r].user
           e == call[r].endpoint
           s == IF e = "verify_email" THEN "commit_verify" ELSE "flush_reset"
           l == [loc[r] EXCEPT !.loaded = users[u]]
<1>1. /\ TypeOK /\ RequestOK(r) /\ loc[r] \in Locals
      /\ locks \in [Requests -> SUBSET Rows]
      /\ pc[r] = "select_owner"
  BY DEF IInv, TypeOK, SelectOwner
<1>2. /\ e \in {"verify_email", "reset"}
      /\ u \in Addresses /\ users[u] # None
  BY <1>1 DEF RequestOK, LocalsOK, EndpointsAt, KnowsUser
<1>3. /\ l \in Locals /\ l.user = u /\ l.out = loc[r].out /\ l.status = loc[r].status
      /\ l.loaded # None
  BY <1>1, <1>2 DEF Locals, TypeOK
<1>4. s \in Statements /\ s \in {"commit_verify", "flush_reset"}
  BY DEF Statements
<1>5. Goto(r, s, l) /\ UNCHANGED <<db, locks>>
  BY DEF SelectOwner
<1>6. /\ TypeOK' /\ Rely /\ Global' /\ Alone(r) /\ CallOK(r)' /\ users' = users
      /\ call'[r] = call[r] /\ pc'[r] = s /\ loc'[r] = l
  BY <1>1, <1>3, <1>4, <1>5, Quiet
<1>7. LocalsOK(r)'
  BY <1>1, <1>2, <1>3, <1>4, <1>6 DEF LocalsOK, RequestOK, KnowsUser, Answered
<1>8. DeadOK(r)' BY <1>1, <1>2, <1>6, Alive DEF DeadOK
<1>9. ResetOK(r)' BY <1>4, <1>6 DEF ResetOK, Answered
<1>. QED BY <1>2, <1>6, <1>7, <1>8, <1>9 DEF StepOK, RequestOK, EndpointsAt

LEMMA FlushResetOK ==
  ASSUME IInv, NEW r \in Requests, FlushReset(r)
  PROVE  StepOK(r)
<1> DEFINE rows == FlushedRows(loc[r].user, call[r].cred)
<1>1. /\ TypeOK /\ RequestOK(r) /\ loc[r] \in Locals
      /\ pc[r] = "flush_reset"
  BY DEF IInv, TypeOK, FlushReset
<1>2. /\ call[r].endpoint = "reset" /\ call[r].cred \in TokenRows
      /\ loc[r].user \in Addresses
  BY <1>1 DEF RequestOK, CallOK, LocalsOK, EndpointsAt, KnowsUser
<1>3. rows \in SUBSET Rows
  BY <1>2, RowNames DEF FlushedRows, TokenRows
<1>4. /\ TypeOK' /\ Rely /\ Global' /\ Alone(r) /\ CallOK(r)' /\ users' = users
      /\ call'[r] = call[r] /\ pc'[r] = "snapshot_sessions" /\ loc'[r] = loc[r]
  BY <1>1, <1>3, Locking, Quiet DEF FlushReset, Statements
<1>5. LocalsOK(r)'
  BY <1>1, <1>2, <1>4 DEF LocalsOK, RequestOK, KnowsUser, Answered
<1>6. DeadOK(r)' BY <1>1, <1>2, <1>4, Alive DEF DeadOK
<1>7. ResetOK(r)' BY <1>4 DEF ResetOK, Answered
<1>. QED BY <1>2, <1>4, <1>5, <1>6, <1>7 DEF StepOK, RequestOK, EndpointsAt

LEMMA SnapshotSessionsOK ==
  ASSUME IInv, NEW r \in Requests, SnapshotSessions(r)
  PROVE  StepOK(r)
<1> DEFINE l == [loc[r] EXCEPT !.todo = SessionsOf(loc[r].user)]
<1>1. /\ TypeOK /\ RequestOK(r) /\ loc[r] \in Locals
      /\ locks \in [Requests -> SUBSET Rows]
      /\ pc[r] = "snapshot_sessions"
  BY DEF IInv, TypeOK, SnapshotSessions
<1>2. /\ call[r].endpoint = "reset" /\ call[r].seen \subseteq Sessions
      /\ loc[r].user \in Addresses /\ users[loc[r].user] # None
  BY <1>1 DEF RequestOK, CallOK, LocalsOK, EndpointsAt, KnowsUser
<1>3. /\ l \in Locals /\ l.user = loc[r].user /\ l.out = loc[r].out
      /\ l.status = loc[r].status /\ l.todo = SessionsOf(loc[r].user)
  BY <1>1 DEF Locals, SessionsOf, Sessions
<1>4. /\ TypeOK' /\ Rely /\ Global' /\ Alone(r) /\ CallOK(r)' /\ users' = users
      /\ refresh_tokens' = refresh_tokens
      /\ call'[r] = call[r] /\ pc'[r] = "revoke_sessions" /\ loc'[r] = l
  BY <1>1, <1>3, Quiet DEF SnapshotSessions, Statements
<1>5. LocalsOK(r)'
  BY <1>1, <1>2, <1>3, <1>4 DEF LocalsOK, RequestOK, KnowsUser, Answered
<1>6. DeadOK(r)' BY <1>1, <1>2, <1>4, Alive DEF DeadOK
<1>7. ResetOK(r)' BY <1>2, <1>3, <1>4 DEF ResetOK, Answered, SessionsOf
<1>. QED BY <1>2, <1>4, <1>5, <1>6, <1>7 DEF StepOK, RequestOK, EndpointsAt

LEMMA RevokeSessionOK ==
  ASSUME IInv, NEW r \in Requests, NEW k \in RefreshIds, RevokeSession(r, k)
  PROVE  StepOK(r)
<1> DEFINE l == [loc[r] EXCEPT !.todo = @ \ {k}]
<1>1. /\ TypeOK /\ RequestOK(r) /\ loc[r] \in Locals
      /\ pc[r] = "revoke_sessions"
  BY DEF IInv, TypeOK, RevokeSession
<1>2. /\ call[r].endpoint = "reset"
      /\ loc[r].user \in Addresses /\ users[loc[r].user] # None
  BY <1>1 DEF RequestOK, LocalsOK, EndpointsAt, KnowsUser
<1>3. /\ l \in Locals /\ l.user = loc[r].user /\ l.out = loc[r].out
      /\ l.status = loc[r].status /\ l.todo = loc[r].todo \ {k}
  BY <1>1 DEF Locals
<1>4. /\ locks' \in [Requests -> SUBSET Rows]
      /\ locks'[r] = locks[r] \cup {SessionRow(k)}
      /\ \A q \in Requests \ {r} : locks'[q] = locks[q]
  BY <1>1, RowNames, Locking DEF RevokeSession
<1>5. /\ TypeOK' /\ Rely /\ Global' /\ Alone(r) /\ CallOK(r)' /\ users' = users
      /\ refresh_tokens' = refresh_tokens
      /\ call'[r] = call[r] /\ pc'[r] = "revoke_sessions" /\ loc'[r] = l
  BY <1>1, <1>3, <1>4, Quiet DEF RevokeSession, Statements
<1>6. LocalsOK(r)'
  BY <1>1, <1>2, <1>3, <1>5 DEF LocalsOK, RequestOK, KnowsUser, Answered
<1>7. DeadOK(r)' BY <1>1, <1>2, <1>5, Alive DEF DeadOK
<1>8. ResetOK(r)'
  <2>1. ResetOK(r) BY <1>1 DEF RequestOK
  <2>. QED BY <1>1, <1>3, <1>4, <1>5, <2>1 DEF ResetOK, Answered
<1>. QED BY <1>2, <1>5, <1>6, <1>7, <1>8 DEF StepOK, RequestOK, EndpointsAt

LEMMA AuthenticateOK ==
  ASSUME IInv, NEW r \in Requests, Authenticate(r)
  PROVE  StepOK(r)
<1> DEFINE a == normalize_email(call[r].email)
<1>1. /\ TypeOK /\ RequestOK(r) /\ loc[r] \in Locals
      /\ locks \in [Requests -> SUBSET Rows]
      /\ pc[r] = "select_user"
  BY DEF IInv, TypeOK, Authenticate
<1>2. call[r].endpoint = "login" /\ a \in Addresses
  BY <1>1, NormAssumption DEF RequestOK, CallOK, EndpointsAt, normalize_email
<1>3. CASE ~Accepted(a, call[r].password)
  BY <1>1, <1>2, <1>3, Rejected DEF Authenticate, EndpointNames
<1>4. CASE Accepted(a, call[r].password)
  <2> DEFINE l == [loc[r] EXCEPT !.user = a, !.loaded = users[a]]
  <2>1. l \in Locals /\ l.user = a /\ l.out = loc[r].out /\ l.status = loc[r].status
    <3>1. users[a] \in User \cup {None} BY <1>1, <1>2 DEF TypeOK
    <3>. QED BY <1>1, <1>2, <3>1 DEF Locals
  <2>2. Goto(r, "issue", l) /\ UNCHANGED <<db, locks>>
    BY <1>4 DEF Authenticate
  <2>3. /\ TypeOK' /\ Rely /\ Global' /\ Alone(r) /\ CallOK(r)' /\ users' = users
        /\ call'[r] = call[r] /\ pc'[r] = "issue" /\ loc'[r] = l
    BY <1>1, <2>1, <2>2, Quiet DEF Statements
  <2>4. LocalsOK(r)'
    BY <1>1, <1>2, <1>4, <2>1, <2>3
    DEF LocalsOK, RequestOK, KnowsUser, Answered, Accepted
  <2>5. DeadOK(r)' BY <1>2, <2>3 DEF DeadOK
  <2>6. ResetOK(r)' BY <2>3 DEF ResetOK, Answered
  <2>. QED BY <1>2, <2>3, <2>4, <2>5, <2>6 DEF StepOK, RequestOK, EndpointsAt
<1>. QED BY <1>3, <1>4

LEMMA SelectProviderOK ==
  ASSUME IInv, NEW r \in Requests, SelectProvider(r)
  PROVE  StepOK(r)
<1> DEFINE linked == {p \in auth_providers : /\ p.provider = "google"
                                             /\ p.provider_user_id = call[r].cred}
<1>1. /\ TypeOK /\ RequestOK(r) /\ loc[r] \in Locals
      /\ locks \in [Requests -> SUBSET Rows]
      /\ pc[r] = "select_provider"
  BY DEF IInv, TypeOK, SelectProvider
<1>2. call[r].endpoint = "google"
  BY <1>1 DEF RequestOK, EndpointsAt
<1>3. ASSUME NEW p \in linked, Goto(r, "issue", [loc[r] EXCEPT !.user = p.user_id])
      PROVE  StepOK(r)
  <2> DEFINE u == p.user_id
             l == [loc[r] EXCEPT !.user = u]
  <2>1. u \in Addresses /\ users[u] # None /\ users[u].is_email_verified
    BY <1>1 DEF TypeOK, AuthProvider, IInv, References, GoogleVerified
  <2>2. l \in Locals /\ l.user = u /\ l.out = loc[r].out /\ l.status = loc[r].status
    BY <1>1, <2>1 DEF Locals
  <2>3. UNCHANGED <<db, locks>>
    BY DEF SelectProvider
  <2>4. /\ TypeOK' /\ Rely /\ Global' /\ Alone(r) /\ CallOK(r)' /\ users' = users
        /\ call'[r] = call[r] /\ pc'[r] = "issue" /\ loc'[r] = l
    BY <1>1, <1>3, <2>2, <2>3, Quiet DEF Statements
  <2>5. LocalsOK(r)'
    BY <1>1, <2>1, <2>2, <2>4 DEF LocalsOK, RequestOK, KnowsUser, Answered
  <2>6. DeadOK(r)' BY <1>2, <2>4 DEF DeadOK
  <2>7. ResetOK(r)' BY <2>4 DEF ResetOK, Answered
  <2>. QED BY <1>2, <2>4, <2>5, <2>6, <2>7 DEF StepOK, RequestOK, EndpointsAt
<1>4. ASSUME Goto(r, "select_email", loc[r])
      PROVE  StepOK(r)
  <2>1. UNCHANGED <<db, locks>>
    BY DEF SelectProvider
  <2>2. /\ TypeOK' /\ Rely /\ Global' /\ Alone(r) /\ CallOK(r)' /\ users' = users
        /\ call'[r] = call[r] /\ pc'[r] = "select_email" /\ loc'[r] = loc[r]
    BY <1>1, <1>4, <2>1, Quiet DEF Statements
  <2>3. LocalsOK(r)'
    BY <1>1, <2>2 DEF LocalsOK, RequestOK, KnowsUser, Answered
  <2>4. DeadOK(r)' BY <1>2, <2>2 DEF DeadOK
  <2>5. ResetOK(r)' BY <2>2 DEF ResetOK, Answered
  <2>. QED BY <1>2, <2>2, <2>3, <2>4, <2>5 DEF StepOK, RequestOK, EndpointsAt
<1>. QED BY <1>3, <1>4 DEF SelectProvider

LEMMA SelectByEmailOK ==
  ASSUME IInv, NEW r \in Requests, SelectByEmail(r)
  PROVE  StepOK(r)
<1> DEFINE a == normalize_email(call[r].email)
<1>1. /\ TypeOK /\ RequestOK(r) /\ loc[r] \in Locals
      /\ locks \in [Requests -> SUBSET Rows]
      /\ pc[r] = "select_email"
  BY DEF IInv, TypeOK, SelectByEmail
<1>2. call[r].endpoint = "google" /\ a \in Addresses
  BY <1>1, NormAssumption DEF RequestOK, CallOK, EndpointsAt, normalize_email
<1>3. ASSUME NEW s \in {"link", "create_google"}, NEW l \in Locals, Goto(r, s, l),
             l.user = a, l.out = loc[r].out, l.status = loc[r].status,
             s = "link" => users[a] # None /\ l.loaded # None
      PROVE  StepOK(r)
  <2>1. s \in Statements BY DEF Statements
  <2>2. UNCHANGED <<db, locks>> BY DEF SelectByEmail
  <2>3. /\ TypeOK' /\ Rely /\ Global' /\ Alone(r) /\ CallOK(r)' /\ users' = users
        /\ call'[r] = call[r] /\ pc'[r] = s /\ loc'[r] = l
    BY <1>1, <1>3, <2>1, <2>2, Quiet
  <2>4. LocalsOK(r)'
    BY <1>1, <1>2, <1>3, <2>3 DEF LocalsOK, RequestOK, KnowsUser, Answered
  <2>5. DeadOK(r)' BY <1>2, <2>3 DEF DeadOK
  <2>6. ResetOK(r)' BY <1>3, <2>3 DEF ResetOK, Answered
  <2>. QED BY <1>2, <2>3, <2>4, <2>5, <2>6 DEF StepOK, RequestOK, EndpointsAt
<1>4. CASE users[a] # None
  <2> DEFINE l == [loc[r] EXCEPT !.user = a, !.loaded = users[a]]
  <2>1. /\ l \in Locals /\ l.user = a /\ l.out = loc[r].out
        /\ l.status = loc[r].status /\ l.loaded # None
    BY <1>1, <1>2, <1>4 DEF Locals, TypeOK
  <2>. QED BY <1>3, <1>4, <2>1 DEF SelectByEmail
<1>5. CASE users[a] = None
  <2> DEFINE l == [loc[r] EXCEPT !.user = a]
  <2>1. l \in Locals /\ l.user = a /\ l.out = loc[r].out /\ l.status = loc[r].status
    BY <1>1, <1>2 DEF Locals
  <2>. QED BY <1>3, <1>5, <2>1 DEF SelectByEmail
<1>. QED BY <1>4, <1>5

-----------------------------------------------------------------------------
(* Statements that write *)

(* What is left to show of a statement that writes tables. *)
LEMMA Writing ==
  ASSUME IInv, NEW r \in Requests, NEW s \in Statements, NEW l \in Locals,
         Goto(r, s, l),
         users' \in [Addresses -> User \cup {None}],
         auth_providers' \subseteq AuthProvider,
         refresh_tokens' \in [RefreshIds -> RefreshToken \cup {None}],
         verification_tokens' \in [TokenIds -> VerificationToken \cup {None}],
         locks' \in [Requests -> SUBSET Rows],
         \A q \in Requests \ {r} : locks'[q] = locks[q],
         Rely
  PROVE  /\ TypeOK' /\ Alone(r) /\ CallOK(r)'
         /\ call'[r] = call[r] /\ pc'[r] = s /\ loc'[r] = l
         /\ Sessions \subseteq Sessions' /\ TokenRows \subseteq TokenRows'
         /\ \A b \in Browsers : cookie'[b] # None => cookie'[b] \in Sessions'
         /\ outbox' \subseteq TokenRows' /\ inbox' \subseteq TokenRows'
<1>1. TypeOK BY DEF IInv
<1>2. TypeOK'
  BY <1>1, Going DEF TypeOK
<1>3. Alone(r)
  BY <1>1, Going DEF Alone
<1>4. Sessions \subseteq Sessions' /\ TokenRows \subseteq TokenRows'
  BY DEF Rely, Sessions, TokenRows
<1>5. /\ \A b \in Browsers : cookie'[b] # None => cookie'[b] \in Sessions'
      /\ outbox' \subseteq TokenRows' /\ inbox' \subseteq TokenRows'
  BY <1>1, <1>4, Going DEF IInv, References
<1>6. CallOK(r)'
  BY <1>1, <1>2, Going, StableCall DEF IInv
<1>. QED BY <1>1, <1>2, <1>3, <1>4, <1>5, <1>6, Going

LEMMA NewSessionType ==
  ASSUME NEW u \in Addresses, NEW p \in RefreshIds \cup {None}
  PROVE  /\ NewSession(u, p) \in RefreshToken
         /\ NewSession(u, p) # None
         /\ NewSession(u, p).user_id = u
         /\ NewSession(u, p).parent = p
<1>1. NewSession(u, p) \in RefreshToken
  BY DEF NewSession, RefreshToken
<1>2. NewSession(u, p) # None
  BY <1>1, NoneAssumption
<1>. QED BY <1>1, <1>2 DEF NewSession

LEMMA IssueOK ==
  ASSUME IInv, NEW r \in Requests, issue_refresh_token(r)
  PROVE  StepOK(r)
<1> DEFINE u == loc[r].user
<1>1. /\ TypeOK /\ RequestOK(r) /\ loc[r] \in Locals
      /\ pc[r] = "issue"
      /\ refresh_tokens \in [RefreshIds -> RefreshToken \cup {None}]
  BY DEF IInv, TypeOK, issue_refresh_token
<1>2. /\ call[r].endpoint \in {"login", "google"}
      /\ u \in Addresses /\ users[u] # None /\ users[u].is_email_verified
  BY <1>1 DEF RequestOK, LocalsOK, EndpointsAt, KnowsUser
<1>3. PICK k \in RefreshIds :
        /\ NextRefresh(k)
        /\ refresh_tokens' = [refresh_tokens EXCEPT ![k] = NewSession(u, None)]
        /\ Reply(r, [loc[r] EXCEPT !.out = k, !.status = "ok"])
  BY DEF issue_refresh_token
<1> DEFINE l == [loc[r] EXCEPT !.out = k, !.status = "ok"]
           row == NewSession(u, None)
<1>4. l \in Locals /\ l.out = k /\ l.status = "ok"
  BY <1>1 DEF Locals
<1>5. row \in RefreshToken /\ row # None /\ row.user_id = u /\ row.parent = None
  BY <1>2, NewSessionType
<1>6. /\ UNCHANGED <<users, auth_providers, verification_tokens, locks>>
      /\ refresh_tokens[k] = None /\ Goto(r, "respond", l)
  BY <1>3 DEF issue_refresh_token, NextRefresh, Reply
<1> HIDE DEF l, row
<1>7. /\ refresh_tokens' \in [RefreshIds -> RefreshToken \cup {None}]
      /\ refresh_tokens'[k] = row
      /\ \A j \in RefreshIds \ {k} : refresh_tokens'[j] = refresh_tokens[j]
  BY <1>1, <1>3, <1>5 DEF row
<1>8. Sessions' = Sessions \cup {k} /\ k \notin Sessions /\ TokenRows' = TokenRows
  BY <1>5, <1>6, <1>7 DEF Sessions, TokenRows
<1>9. Rely
  BY <1>6, <1>7, <1>8 DEF Rely, Sessions, TokenRows
<1>10. /\ TypeOK' /\ Alone(r) /\ CallOK(r)'
       /\ call'[r] = call[r] /\ pc'[r] = "respond" /\ loc'[r] = l
       /\ \A b \in Browsers : cookie'[b] # None => cookie'[b] \in Sessions'
       /\ outbox' \subseteq TokenRows' /\ inbox' \subseteq TokenRows'
  BY <1>1, <1>4, <1>6, <1>7, <1>9, Writing, SMTT(40) DEF TypeOK, Statements
<1>11. Global'
  <2>1. References'
    BY <1>2, <1>5, <1>6, <1>7, <1>8, <1>10 DEF References, IInv, Sessions
  <2>2. GoogleVerified'
    BY <1>6 DEF GoogleVerified, IInv
  <2>3. SessionsVerified'
    BY <1>2, <1>5, <1>6, <1>7, <1>8 DEF SessionsVerified, IInv, Sessions
  <2>4. RotationRetiresParent'
    BY <1>5, <1>7, <1>8 DEF RotationRetiresParent, IInv, Sessions
  <2>. QED BY <2>1, <2>2, <2>3, <2>4 DEF Global
<1>12. LocalsOK(r)'
  BY <1>2, <1>4, <1>8, <1>10 DEF LocalsOK, KnowsUser, Answered
<1>13. DeadOK(r)' BY <1>2, <1>10 DEF DeadOK
<1>14. ResetOK(r)' BY <1>2, <1>10 DEF ResetOK, Answered
<1>. QED
  BY <1>2, <1>9, <1>10, <1>11, <1>12, <1>13, <1>14
  DEF StepOK, RequestOK, EndpointsAt, EndpointNames

LEMMA CommitRotationOK ==
  ASSUME IInv, NEW r \in Requests, CommitRotation(r)
  PROVE  StepOK(r)
<1> DEFINE old == call[r].cred
           u == refresh_tokens[old].user_id
<1>1. /\ TypeOK /\ RequestOK(r) /\ loc[r] \in Locals
      /\ pc[r] = "commit_rotation"
      /\ refresh_tokens \in [RefreshIds -> RefreshToken \cup {None}]
      /\ locks \in [Requests -> SUBSET Rows]
  BY DEF IInv, TypeOK, CommitRotation
<1>2. call[r].endpoint = "refresh" /\ old \in Sessions
  BY <1>1 DEF RequestOK, CallOK, LocalsOK, EndpointsAt
<1>3. /\ old \in RefreshIds /\ refresh_tokens[old] \in RefreshToken
      /\ u \in Addresses /\ users[u] # None /\ users[u].is_email_verified
  BY <1>1, <1>2 DEF Sessions, RefreshToken, IInv, References, SessionsVerified
<1>4. PICK k \in RefreshIds :
        /\ NextRefresh(k)
        /\ refresh_tokens' = RotationWrites(old, k)
        /\ Reply(r, [loc[r] EXCEPT !.out = k, !.status = "ok"])
  BY DEF CommitRotation
<1> DEFINE l == [loc[r] EXCEPT !.out = k, !.status = "ok"]
           row == NewSession(u, old)
<1>5. l \in Locals /\ l.out = k /\ l.status = "ok"
  BY <1>1 DEF Locals
<1>6. row \in RefreshToken /\ row # None /\ row.user_id = u /\ row.parent = old
  BY <1>3, NewSessionType
<1>7. /\ UNCHANGED <<users, auth_providers, verification_tokens>>
      /\ refresh_tokens[k] = None /\ Goto(r, "respond", l)
      /\ locks' \in [Requests -> SUBSET Rows]
      /\ \A q \in Requests \ {r} : locks'[q] = locks[q]
  BY <1>1, <1>4 DEF CommitRotation, NextRefresh, Reply, Release
<1>8. k # old BY <1>2, <1>7 DEF Sessions
<1> DEFINE revoked == [refresh_tokens[old] EXCEPT !.is_revoked = TRUE]
<1>9. /\ revoked \in RefreshToken /\ revoked # None /\ revoked.is_revoked
      /\ revoked.user_id = u /\ revoked.parent = refresh_tokens[old].parent
      /\ revoked.expired = refresh_tokens[old].expired
  <2>1. revoked \in RefreshToken
    BY <1>3 DEF RefreshToken
  <2>2. revoked # None BY <2>1, NoneAssumption
  <2>. QED BY <1>3, <2>1, <2>2 DEF RefreshToken
<1>10. refresh_tokens' = [refresh_tokens EXCEPT ![old] = revoked, ![k] = row]
  BY <1>4 DEF RotationWrites
<1> HIDE DEF l, row, revoked
<1>11. /\ refresh_tokens' \in [RefreshIds -> RefreshToken \cup {None}]
       /\ refresh_tokens'[k] = row
       /\ refresh_tokens'[old] = revoked
       /\ \A j \in RefreshIds \ {k, old} : refresh_tokens'[j] = refresh_tokens[j]
  BY <1>1, <1>3, <1>6, <1>8, <1>9, <1>10
<1>12. Sessions' = Sessions \cup {k} /\ k \notin Sessions /\ TokenRows' = TokenRows
  BY <1>2, <1>6, <1>7, <1>9, <1>11 DEF Sessions, TokenRows
<1>13. Rely
  BY <1>7, <1>9, <1>11, <1>12 DEF Rely, Sessions, TokenRows
<1>14. /\ TypeOK' /\ Alone(r) /\ CallOK(r)'
       /\ call'[r] = call[r] /\ pc'[r] = "respond" /\ loc'[r] = l
       /\ \A b \in Browsers : cookie'[b] # None => cookie'[b] \in Sessions'
       /\ outbox' \subseteq TokenRows' /\ inbox' \subseteq TokenRows'
  BY <1>1, <1>5, <1>7, <1>11, <1>13, Writing, SMTT(40) DEF TypeOK, Statements
<1>15. Global'
  <2>1. \A j \in Sessions :
          /\ refresh_tokens'[j].user_id = refresh_tokens[j].user_id
          /\ refresh_tokens'[j].parent = refresh_tokens[j].parent
          /\ refresh_tokens[j].is_revoked => refresh_tokens'[j].is_revoked
    BY <1>13 DEF Rely
  <2>2. References'
    BY <1>3, <1>6, <1>7, <1>11, <1>12, <1>14, <2>1 DEF References, IInv
  <2>3. GoogleVerified'
    BY <1>7 DEF GoogleVerified, IInv
  <2>4. SessionsVerified'
    BY <1>3, <1>6, <1>7, <1>11, <1>12, <2>1 DEF SessionsVerified, IInv
  <2>5. RotationRetiresParent'
    BY <1>2, <1>6, <1>9, <1>11, <1>12, <2>1 DEF RotationRetiresParent, IInv
  <2>. QED BY <2>2, <2>3, <2>4, <2>5 DEF Global
<1>16. LocalsOK(r)'
  BY <1>2, <1>5, <1>12, <1>14 DEF LocalsOK, KnowsUser, Answered
<1>17. DeadOK(r)' BY <1>1, <1>2, <1>14, Alive DEF DeadOK
<1>18. ResetOK(r)' BY <1>2, <1>14 DEF ResetOK, Answered
<1>. QED
  BY <1>2, <1>13, <1>14, <1>15, <1>16, <1>17, <1>18
  DEF StepOK, RequestOK, EndpointsAt, EndpointNames

(* Marking sessions revoked or expired keeps everything said of the rows.   *)
LEMMA Marking ==
  ASSUME IInv,
         refresh_tokens' \in [RefreshIds -> RefreshToken \cup {None}],
         UNCHANGED <<users, auth_providers, verification_tokens, cookie, mail>>,
         Sessions' = Sessions,
         \A j \in Sessions :
           /\ refresh_tokens'[j].user_id = refresh_tokens[j].user_id
           /\ refresh_tokens'[j].parent = refresh_tokens[j].parent
           /\ refresh_tokens[j].is_revoked => refresh_tokens'[j].is_revoked
           /\ refresh_tokens[j].expired => refresh_tokens'[j].expired
  PROVE  Rely /\ Global'
<1>1. TokenRows' = TokenRows BY DEF TokenRows
<1>2. Rely BY <1>1 DEF Rely, Sessions, TokenRows
<1>3. References' BY <1>1 DEF References, IInv, mail
<1>4. GoogleVerified' BY DEF GoogleVerified, IInv
<1>5. SessionsVerified' BY DEF SessionsVerified, IInv
<1>6. RotationRetiresParent' BY DEF RotationRetiresParent, IInv
<1>. QED BY <1>2, <1>3, <1>4, <1>5, <1>6 DEF Global

LEMMA RevokedRow ==
  ASSUME NEW row \in RefreshToken
  PROVE  LET new == [row EXCEPT !.is_revoked = TRUE] IN
         /\ new \in RefreshToken /\ new # None /\ new.is_revoked
         /\ new.user_id = row.user_id /\ new.parent = row.parent
         /\ new.expired = row.expired
<1> DEFINE new == [row EXCEPT !.is_revoked = TRUE]
<1>1. new \in RefreshToken BY DEF RefreshToken
<1>2. new # None BY <1>1, NoneAssumption
<1>. QED BY <1>1, <1>2 DEF RefreshToken

LEMMA RevokeOK ==
  ASSUME IInv, NEW r \in Requests, revoke_refresh_token(r)
  PROVE  StepOK(r)
<1> DEFINE k == call[r].cred
           l == [loc[r] EXCEPT !.status = "ok"]
<1>1. /\ TypeOK /\ RequestOK(r) /\ loc[r] \in Locals
      /\ pc[r] = "revoke"
      /\ refresh_tokens \in [RefreshIds -> RefreshToken \cup {None}]
      /\ locks \in [Requests -> SUBSET Rows]
  BY DEF IInv, TypeOK, revoke_refresh_token
<1>2. call[r].endpoint = "logout" /\ k \in Sessions \cup {None}
  BY <1>1 DEF RequestOK, CallOK, EndpointsAt
<1>3. l \in Locals /\ l.out = loc[r].out /\ l.status = "ok"
  BY <1>1 DEF Locals
<1>4. /\ UNCHANGED <<users, auth_providers, verification_tokens, locks>>
      /\ Goto(r, "respond", l)
  BY DEF revoke_refresh_token, Reply
<1>5. UNCHANGED <<cookie, mail>>
  BY <1>4 DEF Goto
<1>6. /\ refresh_tokens' \in [RefreshIds -> RefreshToken \cup {None}]
      /\ Sessions' = Sessions
      /\ \A j \in Sessions :
           /\ refresh_tokens'[j].user_id = refresh_tokens[j].user_id
           /\ refresh_tokens'[j].parent = refresh_tokens[j].parent
           /\ refresh_tokens[j].is_revoked => refresh_tokens'[j].is_revoked
           /\ refresh_tokens[j].expired => refresh_tokens'[j].expired
  <2>1. CASE k = None
    <3>1. refresh_tokens' = refresh_tokens BY <2>1 DEF revoke_refresh_token
    <3>. QED BY <1>1, <3>1 DEF Sessions
  <2>2. CASE k # None
    <3> DEFINE new == [refresh_tokens[k] EXCEPT !.is_revoked = TRUE]
    <3>1. k \in Sessions /\ k \in RefreshIds /\ refresh_tokens[k] \in RefreshToken
      BY <1>1, <1>2, <2>2 DEF Sessions
    <3>2. refresh_tokens' = [refresh_tokens EXCEPT ![k] = new]
      BY <2>2 DEF revoke_refresh_token
    <3>3. /\ new \in RefreshToken /\ new # None /\ new.is_revoked
          /\ new.user_id = refresh_tokens[k].user_id
          /\ new.parent = refresh_tokens[k].parent
          /\ new.expired = refresh_tokens[k].expired
      BY <3>1, RevokedRow
    <3> HIDE DEF new
    <3>4. /\ refresh_tokens'[k] = new
          /\ \A j \in RefreshIds \ {k} : refresh_tokens'[j] = refresh_tokens[j]
      BY <1>1, <3>1, <3>2
    <3>. QED BY <1>1, <3>1, <3>2, <3>3, <3>4 DEF Sessions
  <2>. QED BY <2>1, <2>2
<1>7. Rely /\ Global'
  BY <1>4, <1>5, <1>6, Marking
<1>8. /\ TypeOK' /\ Alone(r) /\ CallOK(r)'
      /\ call'[r] = call[r] /\ pc'[r] = "respond" /\ loc'[r] = l
  BY <1>1, <1>3, <1>4, <1>6, <1>7, Writing, SMTT(40) DEF TypeOK, Statements
<1>9. LocalsOK(r)'
  BY <1>2, <1>3, <1>8 DEF LocalsOK, KnowsUser, Answered
<1>10. DeadOK(r)' BY <1>2, <1>8 DEF DeadOK
<1>11. ResetOK(r)' BY <1>2, <1>8 DEF ResetOK, Answered
<1>. QED
  BY <1>2, <1>7, <1>8, <1>9, <1>10, <1>11
  DEF StepOK, RequestOK, EndpointsAt, EndpointNames

LEMMA InsertTokenOK ==
  ASSUME IInv, NEW r \in Requests, InsertToken(r)
  PROVE  StepOK(r)
<1> DEFINE u == loc[r].user
           row == [user_id |-> u, purpose |-> PurposeOf(call[r].endpoint),
                   used |-> FALSE, expired |-> FALSE, uses |-> 0]
<1>1. /\ TypeOK /\ RequestOK(r) /\ loc[r] \in Locals
      /\ pc[r] = "insert_token"
      /\ verification_tokens \in [TokenIds -> VerificationToken \cup {None}]
  BY DEF IInv, TypeOK, InsertToken
<1>2. /\ call[r].endpoint \in {"signup", "resend", "forgot"}
      /\ u \in Addresses /\ users[u] # None
  BY <1>1 DEF RequestOK, LocalsOK, EndpointsAt, KnowsUser
<1>3. PICK t \in TokenIds :
        /\ NextToken(t)
        /\ verification_tokens' = [verification_tokens EXCEPT ![t] = row]
        /\ Reply(r, [loc[r] EXCEPT !.out = t, !.status = "ok"])
  BY DEF InsertToken
<1> DEFINE l == [loc[r] EXCEPT !.out = t, !.status = "ok"]
<1>4. l \in Locals /\ l.out = t /\ l.status = "ok"
  BY <1>1 DEF Locals
<1>5. row \in VerificationToken /\ row # None /\ row.user_id = u
  <2>1. row \in VerificationToken BY <1>2 DEF VerificationToken, PurposeOf
  <2>. QED BY <2>1, NoneAssumption
<1>6. /\ UNCHANGED <<users, auth_providers, refresh_tokens, locks>>
      /\ verification_tokens[t] = None /\ Goto(r, "respond", l)
  BY <1>3 DEF InsertToken, NextToken, Reply
<1> HIDE DEF l, row
<1>7. /\ verification_tokens' \in [TokenIds -> VerificationToken \cup {None}]
      /\ verification_tokens'[t] = row
      /\ \A j \in TokenIds \ {t} : verification_tokens'[j] = verification_tokens[j]
  BY <1>1, <1>3, <1>5
<1>8. TokenRows' = TokenRows \cup {t} /\ t \notin TokenRows /\ Sessions' = Sessions
  BY <1>5, <1>6, <1>7 DEF Sessions, TokenRows
<1>9. Rely
  BY <1>6, <1>7, <1>8 DEF Rely, Sessions, TokenRows
<1>10. /\ TypeOK' /\ Alone(r) /\ CallOK(r)'
       /\ call'[r] = call[r] /\ pc'[r] = "respond" /\ loc'[r] = l
       /\ \A b \in Browsers : cookie'[b] # None => cookie'[b] \in Sessions'
       /\ outbox' \subseteq TokenRows' /\ inbox' \subseteq TokenRows'
  BY <1>1, <1>4, <1>6, <1>7, <1>9, Writing, SMTT(40) DEF TypeOK, Statements
<1>11. Global'
  <2>1. References'
    BY <1>2, <1>5, <1>6, <1>7, <1>8, <1>10 DEF References, IInv, TokenRows
  <2>2. GoogleVerified' /\ SessionsVerified' /\ RotationRetiresParent'
    BY <1>6, <1>8 DEF GoogleVerified, SessionsVerified, RotationRetiresParent, IInv
  <2>. QED BY <2>1, <2>2 DEF Global
<1>12. LocalsOK(r)'
  BY <1>2, <1>4, <1>8, <1>10 DEF LocalsOK, KnowsUser, Answered
<1>13. DeadOK(r)' BY <1>2, <1>10 DEF DeadOK
<1>14. ResetOK(r)' BY <1>2, <1>10 DEF ResetOK, Answered
<1>. QED
  BY <1>2, <1>9, <1>10, <1>11, <1>12, <1>13, <1>14
  DEF StepOK, RequestOK, EndpointsAt, EndpointNames

(* Writes to users and tokens that only mark rows keep what is said of them. *)
LEMMA MarkingAll ==
  ASSUME IInv,
         users' \in [Addresses -> User \cup {None}],
         refresh_tokens' \in [RefreshIds -> RefreshToken \cup {None}],
         verification_tokens' \in [TokenIds -> VerificationToken \cup {None}],
         UNCHANGED <<auth_providers, cookie, mail>>,
         Sessions' = Sessions, TokenRows' = TokenRows,
         Rely
  PROVE  Global'
<1>1. TypeOK BY DEF IInv
<1>2. \A a \in Addresses : users[a] # None =>
        /\ users'[a] # None
        /\ users[a].is_email_verified => users'[a].is_email_verified
  BY DEF Rely
<1>3. \A j \in Sessions :
        /\ j \in RefreshIds /\ refresh_tokens[j].user_id \in Addresses
        /\ refresh_tokens'[j].user_id = refresh_tokens[j].user_id
        /\ refresh_tokens'[j].parent = refresh_tokens[j].parent
        /\ refresh_tokens[j].is_revoked => refresh_tokens'[j].is_revoked
  BY <1>1 DEF Rely, TypeOK, RefreshToken, Sessions
<1>4. \A t \in TokenRows :
        /\ verification_tokens[t].user_id \in Addresses
        /\ verification_tokens'[t].user_id = verification_tokens[t].user_id
  BY <1>1 DEF Rely, TypeOK, VerificationToken, TokenRows
<1>5. \A p \in auth_providers : p.user_id \in Addresses
  BY <1>1 DEF TypeOK, AuthProvider
<1>6. References'
  BY <1>2, <1>3, <1>4, <1>5 DEF References, IInv, mail
<1>7. GoogleVerified'
  BY <1>2, <1>5 DEF GoogleVerified, References, IInv
<1>8. SessionsVerified'
  BY <1>2, <1>3 DEF SessionsVerified, IInv
<1>9. RotationRetiresParent'
  BY <1>3 DEF RotationRetiresParent, IInv
<1>. QED BY <1>6, <1>7, <1>8, <1>9 DEF Global

LEMMA ConsumedRowType ==
  ASSUME NEW row \in VerificationToken
  PROVE  /\ ConsumedRow(row) \in VerificationToken /\ ConsumedRow(row) # None
         /\ ConsumedRow(row).used
         /\ ConsumedRow(row).user_id = row.user_id
         /\ ConsumedRow(row).purpose = row.purpose
         /\ ConsumedRow(row).expired = row.expired
<1>1. ConsumedRow(row) \in VerificationToken
  <2>1. row.uses \in Nat BY DEF VerificationToken
  <2>2. row.uses + 1 \in Nat BY <2>1
  <2>3. ConsumedRow(row) = [row EXCEPT !.used = TRUE, !.uses = row.uses + 1]
    BY DEF ConsumedRow, VerificationToken
  <2>. QED BY <2>2, <2>3 DEF VerificationToken
<1>2. ConsumedRow(row) # None BY <1>1, NoneAssumption
<1>. QED BY <1>1, <1>2 DEF ConsumedRow, VerificationToken

LEMMA ResetRowType ==
  ASSUME NEW row \in User, NEW p \in Passwords
  PROVE  /\ ResetRow(row, p) \in User /\ ResetRow(row, p) # None
         /\ ResetRow(row, p).is_email_verified = row.is_email_verified
<1>1. ResetRow(row, p) \in User
  <2>1. row.resets \in Nat BY DEF User
  <2>2. row.resets + 1 \in Nat BY <2>1
  <2>3. ResetRow(row, p) = [row EXCEPT !.password_hash = p, !.resets = row.resets + 1]
    BY DEF ResetRow, User
  <2>. QED BY <2>2, <2>3 DEF User
<1>2. ResetRow(row, p) # None BY <1>1, NoneAssumption
<1>. QED BY <1>1, <1>2 DEF ResetRow, User

LEMMA CommitVerifyOK ==
  ASSUME IInv, NEW r \in Requests, CommitVerify(r)
  PROVE  StepOK(r)
<1> DEFINE u == loc[r].user
           t == call[r].cred
           l == [loc[r] EXCEPT !.status = "ok"]
           row == ConsumedRow(verification_tokens[t])
<1>1. /\ TypeOK /\ RequestOK(r) /\ loc[r] \in Locals
      /\ pc[r] = "commit_verify"
      /\ users \in [Addresses -> User \cup {None}]
      /\ refresh_tokens \in [RefreshIds -> RefreshToken \cup {None}]
      /\ verification_tokens \in [TokenIds -> VerificationToken \cup {None}]
      /\ locks \in [Requests -> SUBSET Rows]
      /\ auth_providers \subseteq AuthProvider
  BY DEF IInv, TypeOK, CommitVerify
<1>2. /\ call[r].endpoint = "verify_email" /\ t \in TokenRows
      /\ u \in Addresses /\ users[u] # None
  BY <1>1 DEF RequestOK, CallOK, LocalsOK, EndpointsAt, KnowsUser
<1>3. l \in Locals /\ l.out = loc[r].out /\ l.status = "ok"
  BY <1>1 DEF Locals
<1>4. /\ UNCHANGED <<auth_providers, refresh_tokens, locks>>
      /\ Goto(r, "respond", l)
      /\ verification_tokens' = [verification_tokens EXCEPT ![t] = row]
  BY DEF CommitVerify, Reply
<1>5. /\ users' \in [Addresses -> User \cup {None}]
      /\ \A a \in Addresses : users[a] # None =>
           /\ users'[a] # None
           /\ users[a].is_email_verified => users'[a].is_email_verified
  <2>1. CASE loc[r].loaded.is_email_verified
    <3>1. users' = users BY <2>1 DEF CommitVerify
    <3>. QED BY <1>1, <3>1
  <2>2. CASE ~loc[r].loaded.is_email_verified
    <3> DEFINE new == VerifiedRow(users[u], loc[r].loaded)
    <3>1. users' = [users EXCEPT ![u] = new]
      BY <2>2 DEF CommitVerify
    <3>2. new \in User /\ new.is_email_verified
      BY <1>1, <1>2 DEF VerifiedRow, User
    <3>3. new # None BY <3>2, NoneAssumption
    <3> HIDE DEF new
    <3>. QED BY <1>1, <1>2, <3>1, <3>2, <3>3
  <2>. QED BY <2>1, <2>2
<1>6. /\ t \in TokenIds /\ row \in VerificationToken /\ row # None /\ row.used
      /\ row.user_id = verification_tokens[t].user_id
      /\ row.purpose = verification_tokens[t].purpose
      /\ row.expired = verification_tokens[t].expired
  BY <1>1, <1>2, ConsumedRowType DEF TokenRows
<1> HIDE DEF row, l
<1>7. /\ verification_tokens' \in [TokenIds -> VerificationToken \cup {None}]
      /\ verification_tokens'[t] = row
      /\ \A j \in TokenIds \ {t} : verification_tokens'[j] = verification_tokens[j]
  BY <1>1, <1>4, <1>6
<1>8. TokenRows' = TokenRows /\ Sessions' = Sessions
  BY <1>2, <1>4, <1>6, <1>7 DEF Sessions, TokenRows
<1>9. Rely
  BY <1>4, <1>5, <1>6, <1>7 DEF Rely, Sessions, TokenRows
<1>10. UNCHANGED <<cookie, mail>> BY <1>4 DEF Goto
<1>11. Global'
  BY <1>1, <1>4, <1>5, <1>7, <1>8, <1>9, <1>10, MarkingAll
<1>12. /\ TypeOK' /\ Alone(r) /\ CallOK(r)'
       /\ call'[r] = call[r] /\ pc'[r] = "respond" /\ loc'[r] = l
  BY <1>1, <1>3, <1>4, <1>5, <1>7, <1>9, Writing DEF Statements
<1>13. LocalsOK(r)'
  BY <1>2, <1>3, <1>12 DEF LocalsOK, KnowsUser, Answered
<1>14. DeadOK(r)' BY <1>1, <1>2, <1>12, Alive DEF DeadOK
<1>15. ResetOK(r)' BY <1>2, <1>12 DEF ResetOK, Answered
<1>. QED
  BY <1>2, <1>9, <1>11, <1>12, <1>13, <1>14, <1>15
  DEF StepOK, RequestOK, EndpointsAt, EndpointNames

LEMMA CommitResetOK ==
  ASSUME IInv, NEW r \in Requests, CommitReset(r)
  PROVE  StepOK(r)
<1> DEFINE u == loc[r].user
           t == call[r].cred
           l == [loc[r] EXCEPT !.status = "ok", !.era = users[u].resets + 1]
           new == ResetRow(users[u], call[r].password)
           row == ConsumedRow(verification_tokens[t])
<1>1. /\ TypeOK /\ RequestOK(r) /\ loc[r] \in Locals
      /\ pc[r] = "revoke_sessions" /\ loc[r].todo = {}
      /\ users \in [Addresses -> User \cup {None}]
      /\ refresh_tokens \in [RefreshIds -> RefreshToken \cup {None}]
      /\ verification_tokens \in [TokenIds -> VerificationToken \cup {None}]
      /\ locks \in [Requests -> SUBSET Rows]
      /\ auth_providers \subseteq AuthProvider
  BY DEF IInv, TypeOK, CommitReset
<1>2. /\ call[r].endpoint = "reset" /\ t \in TokenRows
      /\ call[r].password \in Passwords /\ call[r].seen \subseteq Sessions
      /\ u \in Addresses /\ users[u] # None
  BY <1>1 DEF RequestOK, CallOK, LocalsOK, EndpointsAt, KnowsUser
<1>3. /\ l \in Locals /\ l.out = loc[r].out /\ l.status = "ok" /\ l.user = u
  <2>1. users[u].resets \in Nat BY <1>1, <1>2 DEF User
  <2>2. users[u].resets + 1 \in Nat BY <2>1
  <2>. QED BY <1>1, <2>2 DEF Locals
<1>4. /\ UNCHANGED auth_providers
      /\ Goto(r, "respond", l)
      /\ users' = [users EXCEPT ![u] = new]
      /\ verification_tokens' = [verification_tokens EXCEPT ![t] = row]
      /\ refresh_tokens' = [k \in RefreshIds |->
           IF k \in LockedSessions(r)
             THEN [refresh_tokens[k] EXCEPT !.is_revoked = TRUE]
             ELSE refresh_tokens[k]]
      /\ locks' \in [Requests -> SUBSET Rows]
      /\ \A q \in Requests \ {r} : locks'[q] = locks[q]
  BY <1>1 DEF CommitReset, Reply, Release
<1>5. new \in User /\ new # None /\ new.is_email_verified = users[u].is_email_verified
  <2>1. users[u] \in User BY <1>1, <1>2
  <2>. QED BY <1>2, <2>1, ResetRowType
<1>6. /\ t \in TokenIds /\ row \in VerificationToken /\ row # None /\ row.used
      /\ row.user_id = verification_tokens[t].user_id
      /\ row.purpose = verification_tokens[t].purpose
      /\ row.expired = verification_tokens[t].expired
  BY <1>1, <1>2, ConsumedRowType DEF TokenRows
<1> HIDE DEF new, row, l
<1>7. /\ users' \in [Addresses -> User \cup {None}]
      /\ \A a \in Addresses : users[a] # None =>
           /\ users'[a] # None
           /\ users[a].is_email_verified => users'[a].is_email_verified
  BY <1>1, <1>2, <1>4, <1>5
<1>8. /\ verification_tokens' \in [TokenIds -> VerificationToken \cup {None}]
      /\ verification_tokens'[t] = row
      /\ \A j \in TokenIds \ {t} : verification_tokens'[j] = verification_tokens[j]
  BY <1>1, <1>4, <1>6
<1>9. /\ refresh_tokens' \in [RefreshIds -> RefreshToken \cup {None}]
      /\ \A k \in Sessions :
           /\ refresh_tokens'[k] # None
           /\ refresh_tokens'[k].user_id = refresh_tokens[k].user_id
           /\ refresh_tokens'[k].parent = refresh_tokens[k].parent
           /\ refresh_tokens[k].is_revoked => refresh_tokens'[k].is_revoked
           /\ refresh_tokens[k].expired => refresh_tokens'[k].expired
           /\ k \in LockedSessions(r) => refresh_tokens'[k].is_revoked
      /\ \A k \in RefreshIds \ Sessions : refresh_tokens'[k] = None
  <2>1. \A k \in Sessions : k \in RefreshIds /\ refresh_tokens[k] \in RefreshToken
    BY <1>1 DEF Sessions
  <2>2. LockedSessions(r) \subseteq Sessions
    BY DEF LockedSessions
  <2>3. \A k \in RefreshIds \ Sessions : refresh_tokens[k] = None
    BY DEF Sessions
  <2>4. \A k \in LockedSessions(r) :
          refresh_tokens'[k] = [refresh_tokens[k] EXCEPT !.is_revoked = TRUE]
    BY <1>4, <2>1, <2>2
  <2>5. \A k \in RefreshIds \ LockedSessions(r) : refresh_tokens'[k] = refresh_tokens[k]
    BY <1>4
  <2>6. ASSUME NEW k \in LockedSessions(r)
        PROVE  /\ refresh_tokens'[k] \in RefreshToken /\ refresh_tokens'[k] # None
               /\ refresh_tokens'[k].is_revoked
               /\ refresh_tokens'[k].user_id = refresh_tokens[k].user_id
               /\ refresh_tokens'[k].parent = refresh_tokens[k].parent
               /\ refresh_tokens'[k].expired = refresh_tokens[k].expired
    <3>1. refresh_tokens[k] \in RefreshToken BY <2>1, <2>2
    <3>2. refresh_tokens'[k] = [refresh_tokens[k] EXCEPT !.is_revoked = TRUE]
      BY <2>4
    <3>. QED BY <3>1, <3>2, RevokedRow
  <2>7. \A k \in RefreshIds : refresh_tokens'[k] \in RefreshToken \cup {None}
    BY <1>1, <2>5, <2>6
  <2>. QED BY <1>4, <2>1, <2>2, <2>3, <2>5, <2>6, <2>7 DEF Sessions
<1>10. TokenRows' = TokenRows /\ Sessions' = Sessions
  BY <1>2, <1>6, <1>8, <1>9 DEF Sessions, TokenRows
<1>11. Rely
  BY <1>6, <1>7, <1>8, <1>9 DEF Rely, TokenRows
<1>12. UNCHANGED <<cookie, mail>> BY <1>4 DEF Goto
<1>13. Global'
  BY <1>4, <1>7, <1>8, <1>9, <1>10, <1>11, <1>12, MarkingAll
<1>14. /\ TypeOK' /\ Alone(r) /\ CallOK(r)'
       /\ call'[r] = call[r] /\ pc'[r] = "respond" /\ loc'[r] = l
  BY <1>1, <1>3, <1>4, <1>7, <1>8, <1>9, <1>11, Writing DEF Statements
<1>15. LocalsOK(r)'
  BY <1>2, <1>3, <1>14 DEF LocalsOK, KnowsUser, Answered
<1>16. DeadOK(r)' BY <1>1, <1>2, <1>14, Alive DEF DeadOK
<1>17. ResetOK(r)'
  <2>1. ResetOK(r) BY <1>1 DEF RequestOK
  <2>2. \A k \in call[r].seen : refresh_tokens[k].user_id = u => k \in LockedSessions(r)
    BY <1>1, <1>2, <2>1 DEF ResetOK, LockedSessions
  <2>. QED BY <1>2, <1>3, <1>9, <1>14, <2>2 DEF ResetOK
<1>. QED
  BY <1>2, <1>11, <1>13, <1>14, <1>15, <1>16, <1>17
  DEF StepOK, RequestOK, EndpointsAt, EndpointNames

LEMMA NewUserType ==
  ASSUME NEW p \in Passwords \cup {None}, NEW v \in BOOLEAN
  PROVE  /\ NewUser(p, v) \in User /\ NewUser(p, v) # None
         /\ NewUser(p, v).is_email_verified = v
<1>1. NewUser(p, v) \in User BY DEF NewUser, User
<1>. QED BY <1>1, NoneAssumption DEF NewUser

(* An account and a provider row come together, in one commit.              *)
LEMMA NewAccount ==
  ASSUME IInv, NEW r \in Requests, NEW u \in Addresses, NEW row \in User,
         NEW p \in AuthProvider,
         users[u] = None, p.user_id = u,
         p.provider = "google" => row.is_email_verified,
         users' = [users EXCEPT ![u] = row],
         auth_providers' = auth_providers \cup {p},
         UNCHANGED <<refresh_tokens, verification_tokens, cookie, mail>>
  PROVE  /\ users' \in [Addresses -> User \cup {None}]
         /\ auth_providers' \subseteq AuthProvider
         /\ users'[u] = row /\ row # None
         /\ Rely /\ Global'
<1>1. /\ TypeOK
      /\ users \in [Addresses -> User \cup {None}]
      /\ auth_providers \subseteq AuthProvider
  BY DEF IInv, TypeOK
<1>2. row # None BY NoneAssumption
<1>3. /\ users' \in [Addresses -> User \cup {None}]
      /\ users'[u] = row
      /\ \A a \in Addresses \ {u} : users'[a] = users[a]
  BY <1>1
<1>4. \A a \in Addresses : users[a] # None => users'[a] = users[a]
  BY <1>3
<1>5. Sessions' = Sessions /\ TokenRows' = TokenRows
  BY DEF Sessions, TokenRows
<1>6. Rely
  BY <1>4, <1>5 DEF Rely, Sessions, TokenRows
<1>7. \A k \in Sessions : refresh_tokens[k].user_id \in Addresses
  BY <1>1 DEF TypeOK, Sessions, RefreshToken
<1>8. \A t \in TokenRows : verification_tokens[t].user_id \in Addresses
  BY <1>1 DEF TypeOK, TokenRows, VerificationToken
<1>9. \A q \in auth_providers : q.user_id \in Addresses
  BY <1>1 DEF AuthProvider
<1>10. References'
  BY <1>2, <1>3, <1>4, <1>5, <1>7, <1>8, <1>9 DEF References, IInv, mail
<1>11. GoogleVerified'
  BY <1>3, <1>4, <1>9 DEF GoogleVerified, References, IInv
<1>12. SessionsVerified'
  BY <1>4, <1>5, <1>7 DEF SessionsVerified, IInv
<1>13. RotationRetiresParent'
  BY <1>5 DEF RotationRetiresParent, IInv
<1>. QED
  BY <1>1, <1>2, <1>3, <1>6, <1>10, <1>11, <1>12, <1>13 DEF Global

LEMMA CreateUserOK ==
  ASSUME IInv, NEW r \in Requests, CreateUser(r)
  PROVE  StepOK(r)
<1> DEFINE a == StoredEmail(call[r].email)
<1>1. /\ TypeOK /\ RequestOK(r) /\ loc[r] \in Locals
      /\ pc[r] = "insert_user"
      /\ refresh_tokens \in [RefreshIds -> RefreshToken \cup {None}]
      /\ verification_tokens \in [TokenIds -> VerificationToken \cup {None}]
      /\ locks \in [Requests -> SUBSET Rows]
  BY DEF IInv, TypeOK, CreateUser
<1>2. /\ call[r].endpoint = "signup" /\ a \in Addresses
      /\ call[r].password \in Passwords
  BY <1>1, NormAssumption
  DEF RequestOK, CallOK, EndpointsAt, StoredEmail, normalize_email
<1>3. CASE users[a] # None
  <2>1. Reject(r) /\ UNCHANGED <<db, locks>>
    BY <1>3 DEF CreateUser, db
  <2>. QED BY <1>1, <1>2, <2>1, Rejected DEF EndpointNames
<1>4. CASE users[a] = None
  <2> DEFINE row == NewUser(call[r].password, FALSE)
             p == PasswordProvider(a)
             l == [loc[r] EXCEPT !.user = a]
  <2>1. /\ users' = [users EXCEPT ![a] = row]
        /\ auth_providers' = auth_providers \cup {p}
        /\ Goto(r, "insert_token", l)
        /\ UNCHANGED <<refresh_tokens, verification_tokens, locks>>
    BY <1>4 DEF CreateUser
  <2>2. row \in User
    BY <1>2, NewUserType
  <2>3. p \in AuthProvider /\ p.user_id = a /\ p.provider # "google"
    BY <1>2 DEF PasswordProvider, AuthProvider
  <2>4. l \in Locals /\ l.user = a /\ l.out = loc[r].out /\ l.status = loc[r].status
    BY <1>1, <1>2 DEF Locals
  <2> HIDE DEF a, row, p, l
  <2>5. UNCHANGED <<cookie, mail>> BY <2>1 DEF Goto
  <2>6. /\ users' \in [Addresses -> User \cup {None}]
        /\ auth_providers' \subseteq AuthProvider
        /\ users'[a] # None /\ Rely /\ Global'
    BY <1>2, <1>4, <2>1, <2>2, <2>3, <2>5, NewAccount
  <2>7. /\ TypeOK' /\ Alone(r) /\ CallOK(r)'
        /\ call'[r] = call[r] /\ pc'[r] = "insert_token" /\ loc'[r] = l
    BY <1>1, <2>1, <2>4, <2>6, Writing DEF Statements
  <2>8. LocalsOK(r)'
    BY <1>1, <1>2, <2>4, <2>6, <2>7 DEF LocalsOK, RequestOK, KnowsUser, Answered
  <2>9. DeadOK(r)' BY <1>2, <2>7 DEF DeadOK
  <2>10. ResetOK(r)' BY <1>2, <2>7 DEF ResetOK, Answered
  <2>. QED
    BY <1>2, <2>6, <2>7, <2>8, <2>9, <2>10 DEF StepOK, RequestOK, EndpointsAt
<1>. QED BY <1>3, <1>4

LEMMA CreateGoogleUserOK ==
  ASSUME IInv, NEW r \in Requests, CreateGoogleUser(r)
  PROVE  StepOK(r)
<1> DEFINE a == loc[r].user
           p == GoogleProvider(a, call[r].cred)
<1>1. /\ TypeOK /\ RequestOK(r) /\ loc[r] \in Locals
      /\ pc[r] = "create_google"
      /\ refresh_tokens \in [RefreshIds -> RefreshToken \cup {None}]
      /\ verification_tokens \in [TokenIds -> VerificationToken \cup {None}]
      /\ locks \in [Requests -> SUBSET Rows]
  BY DEF IInv, TypeOK, CreateGoogleUser
<1>2. call[r].endpoint = "google" /\ a \in Addresses /\ call[r].cred \in Subs
  BY <1>1 DEF RequestOK, CallOK, LocalsOK, EndpointsAt
<1>3. CASE users[a] # None \/ ProviderTaken(p)
  <2>1. Reject(r) /\ UNCHANGED <<db, locks>>
    BY <1>3 DEF CreateGoogleUser, db
  <2>. QED BY <1>1, <1>2, <2>1, Rejected DEF EndpointNames
<1>4. CASE users[a] = None /\ ~ProviderTaken(p)
  <2> DEFINE row == NewUser(None, TRUE)
  <2>1. /\ users' = [users EXCEPT ![a] = row]
        /\ auth_providers' = auth_providers \cup {p}
        /\ Goto(r, "issue", loc[r])
        /\ UNCHANGED <<refresh_tokens, verification_tokens, locks>>
    BY <1>4 DEF CreateGoogleUser
  <2>2. row \in User /\ row.is_email_verified
    BY NewUserType
  <2>3. p \in AuthProvider /\ p.user_id = a
    BY <1>2 DEF GoogleProvider, AuthProvider
  <2> HIDE DEF row, p
  <2>4. UNCHANGED <<cookie, mail>> BY <2>1 DEF Goto
  <2>5. /\ users' \in [Addresses -> User \cup {None}]
        /\ auth_providers' \subseteq AuthProvider
        /\ users'[a] # None /\ users'[a].is_email_verified /\ Rely /\ Global'
    BY <1>2, <1>4, <2>1, <2>2, <2>3, <2>4, NewAccount
  <2>6. /\ TypeOK' /\ Alone(r) /\ CallOK(r)'
        /\ call'[r] = call[r] /\ pc'[r] = "issue" /\ loc'[r] = loc[r]
    BY <1>1, <2>1, <2>5, Writing DEF Statements
  <2>7. LocalsOK(r)'
    BY <1>1, <1>2, <2>5, <2>6 DEF LocalsOK, RequestOK, KnowsUser, Answered
  <2>8. DeadOK(r)' BY <1>2, <2>6 DEF DeadOK
  <2>9. ResetOK(r)' BY <1>2, <2>6 DEF ResetOK, Answered
  <2>. QED
    BY <1>2, <2>5, <2>6, <2>7, <2>8, <2>9 DEF StepOK, RequestOK, EndpointsAt
<1>. QED BY <1>3, <1>4

LEMMA LinkGoogleOK ==
  ASSUME IInv, NEW r \in Requests, LinkGoogle(r)
  PROVE  StepOK(r)
<1> DEFINE u == loc[r].user
           p == GoogleProvider(u, call[r].cred)
<1>1. /\ TypeOK /\ RequestOK(r) /\ loc[r] \in Locals
      /\ pc[r] = "link"
      /\ users \in [Addresses -> User \cup {None}]
      /\ auth_providers \subseteq AuthProvider
      /\ refresh_tokens \in [RefreshIds -> RefreshToken \cup {None}]
      /\ verification_tokens \in [TokenIds -> VerificationToken \cup {None}]
      /\ locks \in [Requests -> SUBSET Rows]
  BY DEF IInv, TypeOK, LinkGoogle
<1>2. /\ call[r].endpoint = "google" /\ call[r].cred \in Subs
      /\ u \in Addresses /\ users[u] # None
  BY <1>1 DEF RequestOK, CallOK, LocalsOK, EndpointsAt, KnowsUser
<1>3. CASE ProviderTaken(p)
  <2> DEFINE l == [loc[r] EXCEPT !.status = "error"]
  <2>1. l \in Locals /\ l.out = loc[r].out /\ l.status = "error"
    BY <1>1 DEF Locals
  <2>2. Goto(r, "respond", l) /\ UNCHANGED <<db, locks>>
    BY <1>3 DEF LinkGoogle, Reply, db
  <2>3. /\ TypeOK' /\ Rely /\ Global' /\ Alone(r) /\ CallOK(r)'
        /\ call'[r] = call[r] /\ pc'[r] = "respond" /\ loc'[r] = l
    BY <1>1, <2>1, <2>2, Quiet DEF Statements
  <2>4. LocalsOK(r)'
    BY <1>2, <2>1, <2>3 DEF LocalsOK, KnowsUser, Answered
  <2>5. DeadOK(r)' BY <1>2, <2>3 DEF DeadOK
  <2>6. ResetOK(r)' BY <1>2, <2>3 DEF ResetOK, Answered
  <2>. QED
    BY <1>2, <2>3, <2>4, <2>5, <2>6 DEF StepOK, RequestOK, EndpointsAt, EndpointNames
<1>4. CASE ~ProviderTaken(p)
  <2> DEFINE new == [users[u] EXCEPT !.is_email_verified = TRUE]
  <2>1. /\ users' = [users EXCEPT ![u] = new]
        /\ auth_providers' = auth_providers \cup {p}
        /\ Goto(r, "issue", loc[r])
        /\ UNCHANGED <<refresh_tokens, verification_tokens, locks>>
    BY <1>4 DEF LinkGoogle
  <2>2. new \in User /\ new.is_email_verified
    BY <1>1, <1>2 DEF User
  <2>3. new # None BY <2>2, NoneAssumption
  <2>4. p \in AuthProvider /\ p.user_id = u
    BY <1>2 DEF GoogleProvider, AuthProvider
  <2> HIDE DEF new, p
  <2>5. /\ users' \in [Addresses -> User \cup {None}]
        /\ auth_providers' \subseteq AuthProvider
        /\ users'[u] # None /\ users'[u].is_email_verified
        /\ \A a \in Addresses : users[a] # None =>
             /\ users'[a] # None
             /\ users[a].is_email_verified => users'[a].is_email_verified
    BY <1>1, <1>2, <2>1, <2>2, <2>3, <2>4
  <2>6. Sessions' = Sessions /\ TokenRows' = TokenRows
    BY <2>1 DEF Sessions, TokenRows
  <2>7. Rely
    BY <2>1, <2>5 DEF Rely, Sessions, TokenRows
  <2>8. /\ TypeOK' /\ Alone(r) /\ CallOK(r)'
        /\ call'[r] = call[r] /\ pc'[r] = "issue" /\ loc'[r] = loc[r]
        /\ \A b \in Browsers : cookie'[b] # None => cookie'[b] \in Sessions'
        /\ outbox' \subseteq TokenRows' /\ inbox' \subseteq TokenRows'
    BY <1>1, <2>1, <2>5, <2>7, Writing DEF Statements
  <2>9. Global'
    <3>1. /\ \A k \in Sessions : refresh_tokens[k].user_id \in Addresses
          /\ \A t \in TokenRows : verification_tokens[t].user_id \in Addresses
          /\ \A q \in auth_providers : q.user_id \in Addresses
      BY <1>1 DEF Sessions, TokenRows, RefreshToken, VerificationToken, AuthProvider
    <3>2. References'
      BY <2>1, <2>4, <2>5, <2>6, <2>8, <3>1 DEF References, IInv
    <3>3. GoogleVerified'
      BY <2>1, <2>4, <2>5, <3>1 DEF GoogleVerified, References, IInv
    <3>4. SessionsVerified'
      BY <2>1, <2>5, <2>6, <3>1 DEF SessionsVerified, IInv
    <3>5. RotationRetiresParent'
      BY <2>1, <2>6 DEF RotationRetiresParent, IInv
    <3>. QED BY <3>2, <3>3, <3>4, <3>5 DEF Global
  <2>10. LocalsOK(r)'
    BY <1>1, <1>2, <2>5, <2>8 DEF LocalsOK, RequestOK, KnowsUser, Answered
  <2>11. DeadOK(r)' BY <1>2, <2>8 DEF DeadOK
  <2>12. ResetOK(r)' BY <1>2, <2>8 DEF ResetOK, Answered
  <2>. QED
    BY <1>2, <2>7, <2>8, <2>9, <2>10, <2>11, <2>12 DEF StepOK, RequestOK, EndpointsAt
<1>. QED BY <1>3, <1>4

-----------------------------------------------------------------------------
(* The end of a request *)

LEMMA EndOK ==
  ASSUME IInv, NEW r \in Requests, End(r),
         locks' \in [Requests -> SUBSET Rows],
         \A q \in Requests \ {r} : locks'[q] = locks[q],
         cookie' \in [Browsers -> RefreshIds \cup {None}],
         \A b \in Browsers : cookie'[b] # None => cookie'[b] \in Sessions,
         outbox' \subseteq TokenRows
  PROVE  StepOK(r)
<1>1. /\ TypeOK
      /\ pc \in [Requests -> Statements] /\ call \in [Requests -> Call]
      /\ loc \in [Requests -> Locals]
  BY DEF IInv, TypeOK
<1>2. /\ pc' = [pc EXCEPT ![r] = "idle"]
      /\ call' = [call EXCEPT ![r] = NoCall]
      /\ loc' = [loc EXCEPT ![r] = NoLocals]
      /\ UNCHANGED <<users, auth_providers, refresh_tokens, verification_tokens, inbox>>
  BY DEF End, db
<1>3. /\ pc' \in [Requests -> Statements] /\ pc'[r] = "idle"
      /\ call' \in [Requests -> Call] /\ call'[r] = NoCall
      /\ loc' \in [Requests -> Locals] /\ loc'[r] = NoLocals
      /\ \A q \in Requests \ {r} :
           pc'[q] = pc[q] /\ call'[q] = call[q] /\ loc'[q] = loc[q]
  BY <1>1, <1>2, NoCallType, NoLocalsType DEF Statements
<1>4. Sessions' = Sessions /\ TokenRows' = TokenRows /\ TokenRows \subseteq TokenIds
  BY <1>2 DEF Sessions, TokenRows
<1>5. TypeOK'
  BY <1>1, <1>2, <1>3, <1>4 DEF TypeOK
<1>6. Rely
  BY <1>2 DEF Rely, Sessions, TokenRows
<1>7. Global'
  BY <1>2, <1>4
  DEF Global, IInv, References, GoogleVerified, SessionsVerified, RotationRetiresParent
<1>8. Alone(r) BY <1>3 DEF Alone
<1>9. RequestOK(r)'
  <2>1. /\ NoCall.endpoint = None /\ NoCall.seen = {}
        /\ NoLocals.out = None /\ NoLocals.status = "none"
        /\ None \notin EndpointNames
    BY NoneAssumption DEF NoCall, NoLocals
  <2>2. (call[r].endpoint \in EndpointsAt(pc[r]))'
    BY <1>3, <2>1 DEF EndpointsAt
  <2>3. CallOK(r)' BY <1>3, <2>1 DEF CallOK, EndpointNames
  <2>4. LocalsOK(r)' BY <1>3, <2>1 DEF LocalsOK, KnowsUser, Answered
  <2>5. DeadOK(r)' BY <1>3, <2>1 DEF DeadOK, EndpointNames
  <2>6. ResetOK(r)' BY <1>3, <2>1 DEF ResetOK
  <2>. QED BY <2>2, <2>3, <2>4, <2>5, <2>6 DEF RequestOK
<1>. QED BY <1>5, <1>6, <1>7, <1>8, <1>9 DEF StepOK

LEMMA MailedRows ==
  ASSUME IInv, NEW r \in Requests, pc[r] = "respond"
  PROVE  outbox \cup Mailed(r) \subseteq TokenRows
<1>1. /\ LocalsOK(r) /\ outbox \subseteq TokenRows
  BY DEF IInv, References, RequestOK
<1>2. None \notin TokenIds BY NoneAssumption, BoundAssumption
<1>. QED BY <1>1, <1>2 DEF LocalsOK, Mailed

LEMMA RespondOK ==
  ASSUME IInv, NEW r \in Requests, Respond(r)
  PROVE  StepOK(r)
<1>1. /\ TypeOK /\ LocalsOK(r) /\ pc[r] = "respond"
      /\ cookie \in [Browsers -> RefreshIds \cup {None}]
      /\ locks \in [Requests -> SUBSET Rows] /\ locks' = locks
      /\ call[r] \in Call
  BY DEF IInv, TypeOK, Respond, RequestOK
<1>2. outbox' \subseteq TokenRows BY <1>1, MailedRows DEF Respond
<1>3. /\ \A b \in Browsers : cookie[b] \in Sessions \cup {None}
      /\ Sessions \subseteq RefreshIds
  BY DEF IInv, References, Sessions
<1>4. /\ cookie' \in [Browsers -> RefreshIds \cup {None}]
      /\ \A b \in Browsers : cookie'[b] # None => cookie'[b] \in Sessions
  <2>1. CASE ~SetsCookie(r)
    <3>1. cookie' = cookie BY <2>1 DEF Respond
    <3>. QED BY <1>1, <1>3, <3>1
  <2>2. CASE SetsCookie(r)
    <3> DEFINE b == call[r].browser
               new == CookieAfter(r)
    <3>1. b \in Browsers BY <1>1, <2>2 DEF SetsCookie, Call
    <3>2. cookie' = [cookie EXCEPT ![b] = new] BY <2>2 DEF Respond
    <3>3. new \in Sessions \cup {None}
      BY <1>1, <1>3, <3>1 DEF CookieAfter, LocalsOK, Answered
    <3> HIDE DEF new
    <3>. QED BY <1>1, <1>3, <3>1, <3>2, <3>3
  <2>. QED BY <2>1, <2>2
<1>. QED BY <1>1, <1>2, <1>4, EndOK DEF Respond

LEMMA LoseResponseOK ==
  ASSUME IInv, NEW r \in Requests, LoseResponse(r)
  PROVE  StepOK(r)
<1>1. outbox' \subseteq TokenRows BY MailedRows DEF LoseResponse
<1>. QED BY <1>1, EndOK DEF LoseResponse, IInv, TypeOK, References

LEMMA CrashOK ==
  ASSUME IInv, NEW r \in Requests, Crash(r)
  PROVE  StepOK(r)
<1>1. /\ locks' \in [Requests -> SUBSET Rows]
      /\ \A q \in Requests \ {r} : locks'[q] = locks[q]
  BY DEF Crash, Release, IInv, TypeOK
<1>. QED BY <1>1, EndOK DEF Crash, IInv, TypeOK, References

-----------------------------------------------------------------------------
(* Mail and time: no request moves *)

LEMMA AmbientOK ==
  ASSUME IInv, TypeOK', Rely, Global', UNCHANGED <<locks, pc, call, loc>>
  PROVE  IInv' /\ Rely
<1>1. \A q \in Requests : RequestOK(q)'
  BY Stable DEF IInv
<1>. QED BY <1>1 DEF IInv, Global

LEMMA MailOK ==
  ASSUME IInv, NEW t \in TokenIds, DeliverMail(t) \/ LoseMail(t)
  PROVE  IInv' /\ Rely
<1>1. /\ UNCHANGED <<users, auth_providers, refresh_tokens, verification_tokens,
                     locks, pc, call, loc, cookie>>
      /\ outbox' \subseteq outbox /\ inbox' \subseteq inbox \cup outbox
  BY DEF DeliverMail, LoseMail, db
<1>2. Sessions' = Sessions /\ TokenRows' = TokenRows /\ TokenRows \subseteq TokenIds
  BY <1>1 DEF Sessions, TokenRows
<1>3. TypeOK' BY <1>1 DEF IInv, TypeOK
<1>4. Rely BY <1>1 DEF Rely, Sessions, TokenRows
<1>5. Global'
  BY <1>1, <1>2
  DEF Global, IInv, References, GoogleVerified, SessionsVerified, RotationRetiresParent
<1>. QED BY <1>1, <1>3, <1>4, <1>5, AmbientOK

LEMMA ExpireSessionOK ==
  ASSUME IInv, NEW k \in RefreshIds, ExpireSession(k)
  PROVE  IInv' /\ Rely
<1> DEFINE new == [refresh_tokens[k] EXCEPT !.expired = TRUE]
<1>1. /\ TypeOK
      /\ refresh_tokens \in [RefreshIds -> RefreshToken \cup {None}]
      /\ refresh_tokens[k] # None
      /\ refresh_tokens' = [refresh_tokens EXCEPT ![k] = new]
      /\ UNCHANGED <<users, auth_providers, verification_tokens, locks, pc,
                     call, loc, cookie, mail>>
  BY DEF IInv, TypeOK, ExpireSession
<1>2. /\ refresh_tokens[k] \in RefreshToken /\ k \in Sessions
  BY <1>1 DEF Sessions
<1>3. new \in RefreshToken BY <1>2 DEF RefreshToken
<1>4. /\ new # None /\ new.user_id = refresh_tokens[k].user_id
      /\ new.parent = refresh_tokens[k].parent
      /\ new.is_revoked = refresh_tokens[k].is_revoked
      /\ new.expired
  BY <1>2, <1>3, NoneAssumption DEF RefreshToken
<1> HIDE DEF new
<1>5. /\ refresh_tokens' \in [RefreshIds -> RefreshToken \cup {None}]
      /\ refresh_tokens'[k] = new
      /\ \A j \in RefreshIds \ {k} : refresh_tokens'[j] = refresh_tokens[j]
  BY <1>1, <1>3
<1>6. Sessions' = Sessions BY <1>2, <1>4, <1>5 DEF Sessions
<1>7. Rely /\ Global'
  BY <1>1, <1>4, <1>5, <1>6, Marking DEF Sessions
<1>8. TypeOK' BY <1>1, <1>5 DEF TypeOK, mail
<1>. QED BY <1>1, <1>7, <1>8, AmbientOK

LEMMA ExpireTokenOK ==
  ASSUME IInv, NEW t \in TokenIds, ExpireToken(t)
  PROVE  IInv' /\ Rely
<1> DEFINE new == [verification_tokens[t] EXCEPT !.expired = TRUE]
<1>1. /\ TypeOK
      /\ verification_tokens \in [TokenIds -> VerificationToken \cup {None}]
      /\ verification_tokens[t] # None
      /\ verification_tokens' = [verification_tokens EXCEPT ![t] = new]
      /\ UNCHANGED <<users, auth_providers, refresh_tokens, locks, pc,
                     call, loc, cookie, mail>>
  BY DEF IInv, TypeOK, ExpireToken
<1>2. /\ verification_tokens[t] \in VerificationToken /\ t \in TokenRows
  BY <1>1 DEF TokenRows
<1>3. new \in VerificationToken BY <1>2 DEF VerificationToken
<1>4. /\ new # None /\ new.user_id = verification_tokens[t].user_id
      /\ new.purpose = verification_tokens[t].purpose
      /\ new.used = verification_tokens[t].used
      /\ new.expired
  BY <1>2, <1>3, NoneAssumption DEF VerificationToken
<1> HIDE DEF new
<1>5. /\ verification_tokens' \in [TokenIds -> VerificationToken \cup {None}]
      /\ verification_tokens'[t] = new
      /\ \A j \in TokenIds \ {t} : verification_tokens'[j] = verification_tokens[j]
  BY <1>1, <1>3
<1>6. TokenRows' = TokenRows /\ Sessions' = Sessions
  BY <1>1, <1>2, <1>4, <1>5 DEF TokenRows, Sessions
<1>7. Rely
  BY <1>1, <1>4, <1>5, <1>6 DEF Rely, TokenRows, Sessions
<1>8. Global'
  BY <1>1, <1>5, <1>6, <1>7, MarkingAll DEF TypeOK
<1>9. TypeOK' BY <1>1, <1>5 DEF TypeOK, mail
<1>. QED BY <1>1, <1>7, <1>8, <1>9, AmbientOK

-----------------------------------------------------------------------------
(* The theorems *)

(* A step of one request keeps the invariant of all. *)
LEMMA StepKeeps ==
  ASSUME IInv, NEW r \in Requests, StepOK(r)
  PROVE  IInv' /\ Rely
<1>1. \A q \in Requests \ {r} : RequestOK(q)'
  BY Stable DEF IInv, StepOK, Alone
<1>. QED BY <1>1 DEF IInv, StepOK, Global

LEMMA RequestSteps ==
  ASSUME IInv, NEW r \in Requests,
         ClientCall(r) \/ LoseResponse(r) \/ Crash(r) \/ ServerStep(r)
  PROVE  StepOK(r)
<1>1. CASE ClientCall(r) BY <1>1, ClientCallOK
<1>2. CASE LoseResponse(r) BY <1>2, LoseResponseOK
<1>3. CASE Crash(r) BY <1>3, CrashOK
<1>4. CASE SessionStep(r)
  BY <1>4, IssueOK, SelectRefreshOK, RevokeOldOK, CommitRotationOK, RevokeOK
  DEF SessionStep
<1>5. CASE TokenStep(r)
  BY <1>5, SelectUserMailOK, InsertTokenOK, SelectTokenOK, SelectOwnerOK,
     CommitVerifyOK, FlushResetOK, SnapshotSessionsOK, RevokeSessionOK,
     CommitResetOK DEF TokenStep
<1>6. CASE AccountStep(r)
  BY <1>6, CreateUserOK, AuthenticateOK, SelectProviderOK, SelectByEmailOK,
     LinkGoogleOK, CreateGoogleUserOK DEF AccountStep
<1>7. CASE Respond(r) BY <1>7, RespondOK
<1>. QED BY <1>1, <1>2, <1>3, <1>4, <1>5, <1>6, <1>7 DEF ServerStep

LEMMA Initially == Init => IInv
<1> SUFFICES ASSUME Init PROVE IInv
  OBVIOUS
<1>1. PICK hash \in [Registered -> Passwords] :
        users = [a \in Addresses |-> IF a \in Registered
                                       THEN NewUser(hash[a], TRUE) ELSE None]
  BY DEF Init
<1>2. /\ users \in [Addresses -> User \cup {None}]
      /\ \A a \in Registered : users[a] # None /\ users[a].is_email_verified
  BY <1>1, NewUserType, RegisteredAssumption
<1>3. auth_providers \subseteq AuthProvider
  BY RegisteredAssumption DEF Init, PasswordProvider, AuthProvider
<1>4. /\ refresh_tokens \in [RefreshIds -> RefreshToken \cup {None}]
      /\ verification_tokens \in [TokenIds -> VerificationToken \cup {None}]
      /\ Sessions = {} /\ TokenRows = {}
  BY DEF Init, Sessions, TokenRows
<1>5. TypeOK
  BY <1>2, <1>3, <1>4, NoCallType, NoLocalsType DEF Init, TypeOK, Statements
<1>6. References /\ GoogleVerified
  <2>1. \A p \in auth_providers : p.user_id \in Registered /\ p.provider = "password"
    BY DEF Init, PasswordProvider
  <2>2. outbox = {} /\ inbox = {} /\ \A b \in Browsers : cookie[b] = None
    BY DEF Init
  <2>3. References BY <1>2, <1>4, <2>1, <2>2 DEF References
  <2>4. GoogleVerified BY <2>1 DEF GoogleVerified
  <2>. QED BY <2>3, <2>4
<1>7. SessionsVerified /\ RotationRetiresParent
  BY <1>4 DEF SessionsVerified, RotationRetiresParent
<1>8. ASSUME NEW r \in Requests PROVE RequestOK(r)
  <2>1. pc[r] = "idle" /\ call[r] = NoCall /\ loc[r] = NoLocals
    BY DEF Init
  <2>2. /\ NoCall.endpoint = None /\ NoCall.seen = {}
        /\ NoLocals.out = None /\ NoLocals.status = "none"
        /\ None \notin EndpointNames
    BY NoneAssumption DEF NoCall, NoLocals
  <2>3. call[r].endpoint \in EndpointsAt(pc[r])
    BY <2>1, <2>2 DEF EndpointsAt
  <2>4. CallOK(r) BY <2>1, <2>2 DEF CallOK, EndpointNames
  <2>5. LocalsOK(r) BY <2>1, <2>2 DEF LocalsOK, KnowsUser, Answered
  <2>6. DeadOK(r) BY <2>1, <2>2 DEF DeadOK, EndpointNames
  <2>7. ResetOK(r) BY <2>1, <2>2 DEF ResetOK
  <2>. QED BY <2>3, <2>4, <2>5, <2>6, <2>7 DEF RequestOK
<1>. QED BY <1>5, <1>6, <1>7, <1>8 DEF IInv

(* Every step of every endpoint, crash, lost answer, delivery and expiry    *)
(* keeps the invariant and takes nothing back.                              *)
LEMMA NextKeeps ==
  ASSUME IInv, [Next]_vars
  PROVE  IInv' /\ Rely
<1>1. CASE Environment
  BY <1>1, RequestSteps, StepKeeps, MailOK, ExpireTokenOK, ExpireSessionOK
  DEF Environment
<1>2. CASE \E r \in Requests : ServerStep(r)
  BY <1>2, RequestSteps, StepKeeps
<1>3. CASE UNCHANGED vars
  <2>1. /\ UNCHANGED <<users, auth_providers, refresh_tokens, verification_tokens,
                       locks, pc, call, loc, cookie, mail>>
    BY <1>3 DEF vars, db
  <2>2. TypeOK' BY <2>1 DEF IInv, TypeOK, mail
  <2>3. Rely /\ Global' BY <2>1, Marking DEF Sessions, IInv, TypeOK
  <2>. QED BY <2>1, <2>2, <2>3, AmbientOK
<1>. QED BY <1>1, <1>2, <1>3 DEF Next

(* The invariant is inductive: it says of every request in flight what it   *)
(* may count on at the statement it runs next (rotate_refresh_token,        *)
(* _consume_token, reset_password, link_or_create_google_user).             *)
THEOREM Inductive == Spec => []IInv
<1>. QED BY NextKeeps, Initially, PTL DEF Spec

(* No endpoint takes back a revocation, an expiry, a consumed token, a      *)
(* verified account or a row, whatever it read before: the UPDATEs of the   *)
(* service write the changed columns of rows that only ever gain marks.     *)
THEOREM MarksStay == Spec => NothingTakenBack
<1>1. IInv /\ [Next]_vars => [Rely]_vars BY NextKeeps
<1>. QED BY <1>1, Inductive, PTL DEF Spec, NothingTakenBack

(* Every variable holds what its table or its coroutine can hold.           *)
THEOREM TypeCorrect == Spec => []TypeOK
<1>1. IInv => TypeOK BY DEF IInv
<1>. QED BY <1>1, Inductive, PTL

(* rotate_refresh_token commits the revoke and the insert together: a       *)
(* rotated session always stands beside its revoked parent.                 *)
THEOREM RotationAtomic == Spec => []RotationRetiresParent
<1>1. IInv => RotationRetiresParent BY DEF IInv
<1>. QED BY <1>1, Inductive, PTL

(* authenticate and link_or_create_google_user open sessions for verified   *)
(* accounts only, and no endpoint takes the verification back.              *)
THEOREM OnlyVerifiedSessions == Spec => []SessionsVerified
<1>1. IInv => SessionsVerified BY DEF IInv
<1>. QED BY <1>1, Inductive, PTL

(* A spent or expired token is never served: what verify_refresh_token and  *)
(* _consume_token refuse once, they refuse for good.                        *)
THEOREM DeadTokensRefused == Spec => []DeadTokenStaysDead
<1>1. IInv => DeadTokenStaysDead
  BY DEF IInv, RequestOK, DeadOK, DeadTokenStaysDead, Answered
<1>. QED BY <1>1, Inductive, PTL

(* reset_password has revoked every session of the account that existed     *)
(* when the request arrived.                                                *)
THEOREM ResetReachesEarlier == Spec => []ResetRevokesEarlier
<1>1. IInv => ResetRevokesEarlier
  BY DEF IInv, RequestOK, ResetOK, ResetRevokesEarlier
<1>. QED BY <1>1, Inductive, PTL
=============================================================================
