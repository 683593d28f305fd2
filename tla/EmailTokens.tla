---------------------------- MODULE EmailTokens ----------------------------
(***************************************************************************)
(* The mailed single-use tokens: email verification and password reset     *)
(* (service._consume_token, request_email_verification, verify_email,      *)
(* request_password_reset, reset_password and their endpoints), and the    *)
(* background task that mails them.                                        *)
(***************************************************************************)
EXTENDS AuthState

(* Mutant: the SELECT does not filter by purpose. *)
ConsumableForAnything(t, purpose) ==
  /\ verification_tokens[t] # None
  /\ ~verification_tokens[t].used
  /\ ~verification_tokens[t].expired

(* _consume_token: the SELECT by hash and purpose finds an unused token     *)
(* that has not expired.  It reads only; the caller marks the row used.     *)
TokenConsumable(t, purpose) ==
  /\ verification_tokens[t] # None
  /\ verification_tokens[t].purpose = purpose
  /\ ~verification_tokens[t].used
  /\ ~verification_tokens[t].expired

PurposeOf(endpoint) ==
  IF endpoint \in {"verify_email", "signup", "resend"}
    THEN "email_verify" ELSE "password_reset"

-----------------------------------------------------------------------------
(* Requesting a token *)

(* POST /verify-email/request and POST /forgot-password: the body is an     *)
(* address, of an account or not.                                           *)
ResendCall(r, a) ==
  /\ TokenRoom
  /\ Begin(r, [NoCall EXCEPT !.endpoint = "resend", !.email = a],
           "select_user_mail")
ForgotCall(r, a) ==
  /\ TokenRoom
  /\ Begin(r, [NoCall EXCEPT !.endpoint = "forgot", !.email = a],
           "select_user_mail")

(* Mutant: a forgotten `if user is None: return`. *)
WantsMailAnyone(endpoint, a) ==
  endpoint = "resend" => users[a] # None /\ ~users[a].is_email_verified

(* Who gets a mail: an account that is not verified yet asks for the        *)
(* verification link, any account for the reset link.                       *)
WantsMail(endpoint, a) ==
  /\ users[a] # None
  /\ endpoint = "resend" => ~users[a].is_email_verified

(* get_user_by_email; everybody else gets the same 202 and nothing happens. *)
SelectUserMail(r) ==
  LET a == normalize_email(call[r].email) IN
  /\ pc[r] = "select_user_mail"
  /\ \/ /\ WantsMail(call[r].endpoint, a)
        /\ Goto(r, "insert_token", [loc[r] EXCEPT !.user = a])
     \/ /\ ~WantsMail(call[r].endpoint, a)
        /\ Reply(r, [loc[r] EXCEPT !.status = "ok"])
  /\ UNCHANGED <<db, locks>>

(* The INSERT and COMMIT of request_email_verification (also the end of a   *)
(* signup) and of request_password_reset.                                   *)
InsertToken(r) ==
  /\ pc[r] = "insert_token"
  /\ \E t \in TokenIds :
       /\ NextToken(t)
       /\ verification_tokens' = [verification_tokens EXCEPT ![t] =
            [user_id |-> loc[r].user, purpose |-> PurposeOf(call[r].endpoint),
             used |-> FALSE, expired |-> FALSE, uses |-> 0]]
       /\ Reply(r, [loc[r] EXCEPT !.out = t, !.status = "ok"])
  /\ UNCHANGED <<users, auth_providers, refresh_tokens, locks>>

-----------------------------------------------------------------------------
(* Consuming a token *)

(* POST /verify-email and POST /reset-password: the client holds a token    *)
(* that was mailed, and may send either kind to either endpoint.            *)
VerifyCall(r, t) ==
  Begin(r, [NoCall EXCEPT !.endpoint = "verify_email", !.cred = t,
                          !.dead = DeadToken(t)],
        "select_token")
ResetCall(r, t, p) ==
  Begin(r, [NoCall EXCEPT !.endpoint = "reset", !.cred = t, !.password = p,
                          !.dead = DeadToken(t)],
        "select_token")

SelectToken(r) ==
  LET t == call[r].cred IN
  /\ pc[r] = "select_token"
  /\ \/ /\ TokenConsumable(t, PurposeOf(call[r].endpoint))
        /\ Goto(r, "select_owner",
                [loc[r] EXCEPT !.user = verification_tokens[t].user_id])
     \/ /\ ~TokenConsumable(t, PurposeOf(call[r].endpoint))
        /\ Reject(r)
  /\ UNCHANGED <<db, locks>>

(* session.get(User, token.user_id): always found, nobody deletes users.    *)
SelectOwner(r) ==
  /\ pc[r] = "select_owner"
  /\ Goto(r, IF call[r].endpoint = "verify_email" THEN "commit_verify"
                                                  ELSE "flush_reset",
          [loc[r] EXCEPT !.loaded = users[loc[r].user]])
  /\ UNCHANGED <<db, locks>>

(* Mutant: the UPDATE writes the password hash that was loaded, too. *)
VerifiedStaleRow(row, loaded) ==
  [row EXCEPT !.is_email_verified = TRUE, !.password_hash = loaded.password_hash]

(* The users row an UPDATE of the loaded row leaves: the ORM writes the     *)
(* changed column only, over whatever the row has become meanwhile.         *)
VerifiedRow(row, loaded) == [row EXCEPT !.is_email_verified = TRUE]

(* An UPDATE by primary key: used_at is not looked at again. *)
ConsumedRow(row) == [row EXCEPT !.used = TRUE, !.uses = @ + 1]

(* The flush and COMMIT of verify_email.  The users row is written, and so  *)
(* waited for, only when the loaded one was unverified.                     *)
CommitVerify(r) ==
  LET u == loc[r].user
      t == call[r].cred
  IN
  /\ pc[r] = "commit_verify"
  /\ Unlocked(r, TokenRow(t))
  /\ \/ /\ ~loc[r].loaded.is_email_verified
        /\ Unlocked(r, UserRow(u))
        /\ users' = [users EXCEPT ![u] = VerifiedRow(@, loc[r].loaded)]
     \/ /\ loc[r].loaded.is_email_verified
        /\ UNCHANGED users
  /\ verification_tokens' = [verification_tokens EXCEPT ![t] = ConsumedRow(@)]
  /\ Reply(r, [loc[r] EXCEPT !.status = "ok"])
  /\ UNCHANGED <<auth_providers, refresh_tokens, locks>>

(* Mutant: autoflush is off, so these UPDATEs wait for the COMMIT. *)
FlushedNothing(u, t) == {}

(* reset_password: session.execute flushes password_hash and used_at first. *)
(* The rows these UPDATEs lock:                                             *)
FlushedRows(u, t) == {UserRow(u), TokenRow(t)}
FlushReset(r) ==
  LET rows == FlushedRows(loc[r].user, call[r].cred) IN
  /\ pc[r] = "flush_reset"
  /\ \A row \in rows : Unlocked(r, row)
  /\ Lock(r, rows)
  /\ Goto(r, "snapshot_sessions", loc[r])
  /\ UNCHANGED db

(* Mutant: the bulk UPDATE is missing. *)
NoSessionsOf(u) == {}

(* The bulk UPDATE of refresh_tokens takes the rows its snapshot shows, and *)
(* locks them one by one in whatever order the scan meets them.             *)
SessionsOf(u) == {k \in Sessions : refresh_tokens[k].user_id = u}
SnapshotSessions(r) ==
  /\ pc[r] = "snapshot_sessions"
  /\ Goto(r, "revoke_sessions",
          [loc[r] EXCEPT !.todo = SessionsOf(loc[r].user)])
  /\ UNCHANGED <<db, locks>>

RevokeSession(r, k) ==
  /\ pc[r] = "revoke_sessions"
  /\ k \in loc[r].todo
  /\ Unlocked(r, SessionRow(k))
  /\ Lock(r, {SessionRow(k)})
  /\ Goto(r, "revoke_sessions", [loc[r] EXCEPT !.todo = @ \ {k}])
  /\ UNCHANGED db

ResetRow(row, password) ==
  [row EXCEPT !.password_hash = password, !.resets = @ + 1]
LockedSessions(r) == {k \in Sessions : SessionRow(k) \in locks[r]}

(* COMMIT publishes the password, the consumed token and the revocations.   *)
CommitReset(r) ==
  LET u == loc[r].user
      t == call[r].cred
  IN
  /\ pc[r] = "revoke_sessions"
  /\ loc[r].todo = {}
  /\ users' = [users EXCEPT ![u] = ResetRow(@, call[r].password)]
  /\ verification_tokens' = [verification_tokens EXCEPT ![t] = ConsumedRow(@)]
  /\ refresh_tokens' = [k \in RefreshIds |->
       IF k \in LockedSessions(r)
         THEN [refresh_tokens[k] EXCEPT !.is_revoked = TRUE]
         ELSE refresh_tokens[k]]
  /\ Release(r)
  /\ Reply(r, [loc[r] EXCEPT !.status = "ok", !.era = users[u].resets + 1])
  /\ UNCHANGED auth_providers

-----------------------------------------------------------------------------
(* Mail and time *)

(* _safe_send_email, run after the response: the mail arrives, or the       *)
(* delivery fails (and is only logged) or dies with its process.            *)
DeliverMail(t) ==
  /\ t \in outbox
  /\ outbox' = outbox \ {t}
  /\ inbox' = inbox \cup {t}
  /\ UNCHANGED <<db, locks, pc, call, loc, cookie>>
LoseMail(t) ==
  /\ t \in outbox
  /\ outbox' = outbox \ {t}
  /\ UNCHANGED <<db, locks, pc, call, loc, cookie, inbox>>

(* Time passes: expires_at of a mailed token goes by. *)
ExpireToken(t) ==
  /\ TimePasses
  /\ verification_tokens[t] # None
  /\ ~verification_tokens[t].expired
  /\ verification_tokens' = [verification_tokens EXCEPT ![t].expired = TRUE]
  /\ UNCHANGED <<users, auth_providers, refresh_tokens, locks, pc, call, loc,
                 cookie, mail>>
=============================================================================
