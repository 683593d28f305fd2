-------------------------------- MODULE Auth --------------------------------
(***************************************************************************)
(* The auth API as a whole: the endpoints of src/auth/router.py run        *)
(* concurrently against one database, and answer browsers and mailboxes.   *)
(***************************************************************************)
EXTENDS RefreshTokens, EmailTokens, Accounts

-----------------------------------------------------------------------------
(* Answers *)

(* The response sets the refresh cookie after a login, a Google login or a  *)
(* rotation, and clears it after a logout.                                  *)
CookieAfter(r) ==
  CASE call[r].endpoint = "logout"                           -> None
    [] call[r].endpoint \in {"login", "google", "refresh"}
         /\ loc[r].status = "ok"                             -> loc[r].out
    [] OTHER                                                 -> cookie[call[r].browser]

SetsCookie(r) == call[r].browser # None

(* The background task of a signup, a resend or a forgot-password mails the *)
(* token it has committed, if any.                                          *)
Mailed(r) ==
  {t \in TokenIds : /\ call[r].endpoint \in {"signup", "resend", "forgot"}
                    /\ loc[r].out = t}

End(r) ==
  /\ pc' = [pc EXCEPT ![r] = "idle"]
  /\ call' = [call EXCEPT ![r] = NoCall]
  /\ loc' = [loc EXCEPT ![r] = NoLocals]
  /\ UNCHANGED <<db, inbox>>

(* The response reaches the client, and the background tasks start. *)
Respond(r) ==
  /\ pc[r] = "respond"
  /\ cookie' = IF SetsCookie(r)
                 THEN [cookie EXCEPT ![call[r].browser] = CookieAfter(r)]
                 ELSE cookie
  /\ outbox' = outbox \cup Mailed(r)
  /\ End(r)
  /\ UNCHANGED locks

(* The response is lost on its way: the server went through all of it, the  *)
(* browser keeps the cookie it had.                                         *)
LoseResponse(r) ==
  /\ pc[r] = "respond"
  /\ outbox' = outbox \cup Mailed(r)
  /\ End(r)
  /\ UNCHANGED <<cookie, locks>>

(* The worker process dies in the middle of a request: its transaction is   *)
(* rolled back, its background tasks never start.                           *)
Crash(r) ==
  /\ pc[r] # "idle"
  /\ Release(r)
  /\ End(r)
  /\ UNCHANGED <<cookie, outbox>>

-----------------------------------------------------------------------------
(* The system *)

(* A deployment with some verified password accounts. *)
Init ==
  /\ \E hash \in [Registered -> Passwords] :
       users = [a \in Addresses |-> IF a \in Registered
                                      THEN NewUser(hash[a], TRUE) ELSE None]
  /\ auth_providers = {PasswordProvider(a) : a \in Registered}
  /\ refresh_tokens = [k \in RefreshIds |-> None]
  /\ verification_tokens = [t \in TokenIds |-> None]
  /\ locks = [r \in Requests |-> {}]
  /\ pc = [r \in Requests |-> "idle"]
  /\ call = [r \in Requests |-> NoCall]
  /\ loc = [r \in Requests |-> NoLocals]
  /\ cookie = [b \in Browsers |-> None]
  /\ outbox = {}
  /\ inbox = {}

(* A client calls one of the Endpoints. *)
ClientCall(r) ==
  \/ \E a \in Addresses, p \in Passwords : SignupCall(r, a, p)
  \/ \E b \in Browsers, a \in Addresses, p \in Passwords : LoginCall(r, b, a, p)
  \/ \E b \in Browsers : RefreshCall(r, b) \/ LogoutCall(r, b)
  \/ \E b \in Browsers, s \in Subs, a \in Addresses : GoogleCall(r, b, s, a)
  \/ \E a \in Addresses : ResendCall(r, a) \/ ForgotCall(r, a)
  \/ \E t \in inbox : VerifyCall(r, t)
  \/ \E t \in inbox, p \in Passwords : ResetCall(r, t, p)

SessionStep(r) ==
  \/ issue_refresh_token(r)
  \/ SelectRefresh(r)
  \/ RevokeOld(r)
  \/ CommitRotation(r)
  \/ revoke_refresh_token(r)
TokenStep(r) ==
  \/ SelectUserMail(r)
  \/ InsertToken(r)
  \/ SelectToken(r)
  \/ SelectOwner(r)
  \/ CommitVerify(r)
  \/ FlushReset(r)
  \/ SnapshotSessions(r)
  \/ \E k \in RefreshIds : RevokeSession(r, k)
  \/ CommitReset(r)
AccountStep(r) ==
  \/ CreateUser(r)
  \/ Authenticate(r)
  \/ SelectProvider(r)
  \/ SelectByEmail(r)
  \/ LinkGoogle(r)
  \/ CreateGoogleUser(r)
ServerStep(r) ==
  SessionStep(r) \/ TokenStep(r) \/ AccountStep(r) \/ Respond(r)

Environment ==
  \/ \E r \in Requests : ClientCall(r) \/ LoseResponse(r) \/ Crash(r)
  \/ \E t \in TokenIds : DeliverMail(t) \/ LoseMail(t) \/ ExpireToken(t)
  \/ \E k \in RefreshIds : ExpireSession(k)

Next == Environment \/ \E r \in Requests : ServerStep(r)

Spec == Init /\ [][Next]_vars

(* A request that can go on does so, and a lock that keeps coming free is   *)
(* granted: PostgreSQL queues the transactions that wait for a row.         *)
Fairness == \A r \in Requests : SF_vars(ServerStep(r))
FairSpec == Spec /\ Fairness

-----------------------------------------------------------------------------
(* What must hold *)

(* Every variable holds what its table or its coroutine can hold. *)
TypeOK ==
  /\ users \in [Addresses -> User \cup {None}]
  /\ auth_providers \subseteq AuthProvider
  /\ refresh_tokens \in [RefreshIds -> RefreshToken \cup {None}]
  /\ verification_tokens \in [TokenIds -> VerificationToken \cup {None}]
  /\ locks \in [Requests -> SUBSET Rows]
  /\ pc \in [Requests -> Statements]
  /\ call \in [Requests -> Call]
  /\ loc \in [Requests -> Locals]
  /\ cookie \in [Browsers -> RefreshIds \cup {None}]
  /\ outbox \subseteq TokenIds
  /\ inbox \subseteq TokenIds

(* Request r has done its work with this outcome. *)
Answered(r, endpoint, status) ==
  /\ pc[r] = "respond"
  /\ call[r].endpoint = endpoint
  /\ loc[r].status = status

(* rotate_refresh_token: "the revoke and the new insert commit together so  *)
(* a partial rotation cannot occur" (service.py:166).  A token that came    *)
(* out of a rotation always stands beside its revoked parent, of the same   *)
(* account, whatever crashes, logs out or rotates at the same time.         *)
RotationRetiresParent ==
  \A k \in Sessions :
    LET p == refresh_tokens[k].parent IN
    p # None => /\ p \in Sessions
                /\ refresh_tokens[p].is_revoked
                /\ refresh_tokens[p].user_id = refresh_tokens[k].user_id

(* A request that sends a refresh, verification or reset token which is     *)
(* already spent or expired is never served, however it interleaves.        *)
DeadTokenStaysDead ==
  \A r \in Requests, e \in {"refresh", "verify_email", "reset"} :
    Answered(r, e, "ok") => ~call[r].dead

(* reset_password: every session of the account that existed when the       *)
(* reset request arrived is revoked when it answers, rotations and logins   *)
(* that ran meanwhile notwithstanding.                                      *)
ResetRevokesEarlier ==
  \A r \in Requests : Answered(r, "reset", "ok") =>
    \A k \in call[r].seen :
      refresh_tokens[k].user_id = loc[r].user => refresh_tokens[k].is_revoked

(* Sessions are opened for verified accounts only: authenticate checks the  *)
(* flag, Google vouches for the address, and nothing takes the flag back,   *)
(* not even an endpoint that read the account before it was verified.       *)
SessionsVerified ==
  \A k \in Sessions :
    LET u == users[refresh_tokens[k].user_id] IN u # None /\ u.is_email_verified

(* No update is lost: the password of the last reset committed is the one   *)
(* stored, and an account whose verification token was consumed is          *)
(* verified, while others write the same users row.                         *)
CommittedWritesStick ==
  /\ \A r \in Requests : Answered(r, "reset", "ok") =>
       LET u == users[loc[r].user] IN
       u.resets = loc[r].era => u.password_hash = call[r].password
  /\ \A t \in TokenRows :
       LET v == verification_tokens[t] IN
       v.purpose = "email_verify" /\ v.used => users[v.user_id].is_email_verified

(* A password changes only in the commit that consumes a mailed             *)
(* password-reset token of that very account.                               *)
PasswordNeedsResetToken ==
  [][\A a \in Addresses :
       users[a] # None /\ users'[a].password_hash # users[a].password_hash =>
         \E t \in inbox : LET v == verification_tokens[t] IN
           /\ v.user_id = a
           /\ v.purpose = "password_reset"
           /\ verification_tokens'[t].uses = v.uses + 1]_vars

(* An account is verified only by consuming a verification token of its own *)
(* that was mailed, or through Google.                                      *)
VerifiedNeedsProof ==
  \A a \in Addresses \ Registered :
    users[a] # None /\ users[a].is_email_verified =>
      \/ \E t \in inbox : LET v == verification_tokens[t] IN
           v.user_id = a /\ v.purpose = "email_verify" /\ v.used
      \/ \E p \in auth_providers : p.user_id = a /\ p.provider = "google"

(* A Google login that succeeds entered the one account its subject is      *)
(* linked to, and that account is verified (link_or_create_google_user:     *)
(* "attach a Google AuthProvider and mark the email verified").             *)
GoogleLoginsLinked ==
  \A r \in Requests : Answered(r, "google", "ok") =>
    /\ {p \in auth_providers : p.provider_user_id = call[r].cred}
         = {GoogleProvider(loc[r].user, call[r].cred)}
    /\ users[loc[r].user].is_email_verified

(* Whatever spelling of an address the clients use, there is one account    *)
(* per mailbox, and the account can be found again (normalize_email).       *)
OneAccountPerMailbox ==
  \A a \in Addresses : users[a] # None => normalize_email(a) = a

(* Who has signed up can come in: an account has a provider row, a password *)
(* row only beside a password, and a password without one only by a reset   *)
(* (reset_password sets the password and adds no row).                      *)
EveryAccountHasAWayIn ==
  \A a \in Addresses : users[a] # None =>
    LET own == PasswordProvider(a) \in auth_providers
        linked == \E p \in auth_providers : p.user_id = a /\ p.provider = "google"
    IN
    /\ own \/ linked
    /\ own => users[a].password_hash # None
    /\ users[a].password_hash # None => own \/ users[a].resets > 0

(* A login that succeeds was given the password the account has, unless a   *)
(* reset has overtaken it since it read the account: authenticate and       *)
(* issue_refresh_token do not commit together.                              *)
LoginsUseCurrentPassword ==
  \A r \in Requests : Answered(r, "login", "ok") =>
    LET u == users[loc[r].user] IN
    u.password_hash = call[r].password \/ u.resets > loc[r].loaded.resets

(* The rows that the next statement of r writes, and so has to wait for     *)
(* while another transaction has them locked.                               *)
Needs(r) ==
  LET owner == IF loc[r].loaded # None /\ ~loc[r].loaded.is_email_verified
                 THEN {UserRow(loc[r].user)} ELSE {}
  IN
  CASE pc[r] = "revoke_old"      -> {SessionRow(call[r].cred)}
    [] pc[r] = "revoke"          -> {SessionRow(call[r].cred)}
    [] pc[r] = "commit_verify"   -> owner \cup {TokenRow(call[r].cred)}
    [] pc[r] = "link"            -> owner
    [] pc[r] = "flush_reset"     -> FlushedRows(loc[r].user, call[r].cred)
    [] pc[r] = "revoke_sessions" -> {SessionRow(k) : k \in loc[r].todo}
    [] OTHER                     -> {}
WaitsFor(r, q) == q # r /\ Needs(r) \cap locks[q] # {}

(* No deadlock: of any requests, one waits for none of the others, in       *)
(* whatever order the bulk UPDATE of a reset meets the rows it locks.       *)
NoCircularWait ==
  \A S \in SUBSET Requests : S # {} => \E r \in S : \A q \in S : ~WaitsFor(r, q)

(* Row locks never leave requests waiting for each other: every request     *)
(* that starts is answered, or dies with its process.                       *)
EveryRequestFinishes ==
  \A r \in Requests : pc[r] # "idle" ~> pc[r] = "idle"

-----------------------------------------------------------------------------
(* What the code's words promise and the code does not keep *)

(* "Single-use token for email verification and password reset"             *)
(* (models/verification_token.py:15).                                       *)
TokensSingleUse ==
  \A t \in TokenRows : verification_tokens[t].uses <= 1

(* "Changing the password invalidates every existing session"               *)
(* (service.py:422): when a reset has answered, no session that existed     *)
(* when it arrived can be refreshed, under the token it had then or under   *)
(* the one it was rotated to meanwhile.                                     *)
ResetEndsEverySession ==
  \A r \in Requests : Answered(r, "reset", "ok") =>
    \A k \in Sessions :
      /\ refresh_tokens[k].user_id = loc[r].user
      /\ k \in call[r].seen \/ refresh_tokens[k].parent \in call[r].seen
      => DeadSession(k)

(* "Revoke the active refresh token and clear the cookie" (router.py:157):  *)
(* once the logout of a live session answers, that session cannot be        *)
(* refreshed any more.                                                      *)
LogoutEndsSession ==
  \A r \in Requests :
    Answered(r, "logout", "ok") /\ ~call[r].dead =>
      \A k \in Sessions : refresh_tokens[k].parent = call[r].cred => DeadSession(k)

(* "POST /api/v1/auth/signup -> 201 + access_token + Set-Cookie:             *)
(* refresh_token" (README.md:99): whoever signed up successfully is logged  *)
(* in, that is, holds a session.                                            *)
SignupOpensSession ==
  \A r \in Requests : Answered(r, "signup", "ok") =>
    \E k \in Sessions : refresh_tokens[k].user_id = loc[r].user

(* "Raises: GoogleOAuthError: the orphan / race conditions in (1) and (3)"  *)
(* (service.py:216): a Google login that fails raises what the callback     *)
(* turns into a redirect, and never an exception nobody handles.            *)
GoogleFailuresMapped ==
  \A r \in Requests : loc[r].status # "error"

(* "A linked authentication method for a user (password, google, etc.)"     *)
(* (models/auth_provider.py:22): who has a password has the password        *)
(* provider linked.                                                         *)
PasswordHasProvider ==
  \A a \in Addresses :
    users[a] # None /\ users[a].password_hash # None =>
      PasswordProvider(a) \in auth_providers
=============================================================================
