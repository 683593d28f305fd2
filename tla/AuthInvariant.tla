--------------------------- MODULE AuthInvariant ---------------------------
(***************************************************************************)
(* The inductive invariant of Auth, and the relation every step keeps.     *)
(*                                                                         *)
(* The argument is rely-guarantee.  A request works for several steps with *)
(* what it read before: a cookie's token, a user row, a consumable token.  *)
(* Rely says what the other requests may do to those rows meanwhile: add   *)
(* rows, revoke, expire, verify and consume, but never take a row or one   *)
(* of these marks back.  RequestOK says what a request may still count on  *)
(* at each statement, and is stable under Rely.                            *)
(***************************************************************************)
EXTENDS Auth

(* The endpoints whose coroutine runs through statement s. *)
EndpointsAt(s) ==
  CASE s = "insert_user"      -> {"signup"}
    [] s = "insert_token"     -> {"signup", "resend", "forgot"}
    [] s = "select_user"      -> {"login"}
    [] s = "select_user_mail" -> {"resend", "forgot"}
    [] s = "issue"            -> {"login", "google"}
    [] s \in {"select_provider", "select_email", "link", "create_google"}
                              -> {"google"}
    [] s \in {"select_refresh", "revoke_old", "commit_rotation"}
                              -> {"refresh"}
    [] s = "revoke"           -> {"logout"}
    [] s \in {"select_token", "select_owner"}
                              -> {"verify_email", "reset"}
    [] s = "commit_verify"    -> {"verify_email"}
    [] s \in {"flush_reset", "snapshot_sessions", "revoke_sessions"}
                              -> {"reset"}
    [] s = "respond"          -> EndpointNames
    [] OTHER                  -> {None}

(* What the call carries, by endpoint. *)
CallOK(r) ==
  LET e == call[r].endpoint IN
  /\ e \in {"refresh", "logout"} => call[r].cred \in Sessions \cup {None}
  /\ e \in {"verify_email", "reset"} => call[r].cred \in TokenRows
  /\ e = "google" => call[r].cred \in Subs
  /\ e \in {"signup", "login", "resend", "forgot", "google"}
       => call[r].email \in Addresses
  /\ e \in {"signup", "login", "reset"} => call[r].password \in Passwords
  /\ call[r].seen \subseteq Sessions

KnowsUser ==
  {"insert_token", "issue", "link", "select_owner", "commit_verify",
   "flush_reset", "snapshot_sessions", "revoke_sessions"}

(* What the local variables hold, by statement. *)
LocalsOK(r) ==
  LET u == loc[r].user IN
  /\ pc[r] \in KnowsUser => u \in Addresses /\ users[u] # None
  /\ pc[r] = "issue" => users[u].is_email_verified
  /\ pc[r] = "create_google" => u \in Addresses
  /\ pc[r] \in {"commit_verify", "link"} => loc[r].loaded # None
  /\ pc[r] \in {"revoke_old", "commit_rotation"} => call[r].cred # None
  /\ pc[r] # "respond" => loc[r].out = None /\ loc[r].status = "none"
  /\ Answered(r, "login", "ok") \/ Answered(r, "google", "ok")
       \/ Answered(r, "refresh", "ok") => loc[r].out \in Sessions
  /\ pc[r] = "respond" /\ call[r].endpoint \in {"signup", "resend", "forgot"}
       => loc[r].out \in TokenRows \cup {None}

(* A token that was dead when it was sent is dead, and its request got no   *)
(* further than the check.                                                  *)
DeadOK(r) ==
  /\ call[r].endpoint = "refresh" /\ call[r].dead =>
       /\ DeadSession(call[r].cred)
       /\ pc[r] = "select_refresh" \/ Answered(r, "refresh", "rejected")
  /\ call[r].endpoint \in {"verify_email", "reset"} /\ call[r].dead =>
       /\ DeadToken(call[r].cred)
       /\ \/ pc[r] = "select_token"
          \/ \E e \in {"verify_email", "reset"} : Answered(r, e, "rejected")

(* The bulk UPDATE of a reset has locked, or still has to lock, every       *)
(* session that was there when the request arrived; its COMMIT revoked it.  *)
ResetOK(r) ==
  \A k \in call[r].seen : refresh_tokens[k].user_id = loc[r].user =>
    /\ pc[r] = "revoke_sessions" =>
         k \in loc[r].todo \/ SessionRow(k) \in locks[r]
    /\ Answered(r, "reset", "ok") => refresh_tokens[k].is_revoked

RequestOK(r) ==
  /\ call[r].endpoint \in EndpointsAt(pc[r])
  /\ CallOK(r)
  /\ LocalsOK(r)
  /\ DeadOK(r)
  /\ ResetOK(r)

(* Foreign keys hold, also across what is no column: a cookie, a queued or  *)
(* delivered mail and a Google link refer to rows that are there.           *)
References ==
  /\ \A k \in Sessions : users[refresh_tokens[k].user_id] # None
  /\ \A t \in TokenRows : users[verification_tokens[t].user_id] # None
  /\ \A p \in auth_providers : users[p.user_id] # None
  /\ \A b \in Browsers : cookie[b] # None => cookie[b] \in Sessions
  /\ outbox \subseteq TokenRows
  /\ inbox \subseteq TokenRows

(* Google vouches for the address: a linked account is verified. *)
GoogleVerified ==
  \A p \in auth_providers :
    p.provider = "google" => users[p.user_id].is_email_verified

(* At every statement of every endpoint, the rows a request read before and *)
(* goes on to use (rotate_refresh_token, verify_email, reset_password,      *)
(* link_or_create_google_user) are still there and still what it takes them *)
(* for, whatever the other requests did between its awaits.                 *)
IInv ==
  /\ TypeOK
  /\ References
  /\ GoogleVerified
  /\ SessionsVerified
  /\ RotationRetiresParent
  /\ \A r \in Requests : RequestOK(r)

(* What no step takes back: a row, the owner and the parent of a row, and   *)
(* the marks verified, revoked, used and expired.                           *)
Rely ==
  /\ \A a \in Addresses : users[a] # None =>
       /\ users'[a] # None
       /\ users[a].is_email_verified => users'[a].is_email_verified
  /\ \A k \in Sessions :
       LET old == refresh_tokens[k]
           new == refresh_tokens'[k]
       IN
       /\ new # None
       /\ new.user_id = old.user_id
       /\ new.parent = old.parent
       /\ old.is_revoked => new.is_revoked
       /\ old.expired => new.expired
  /\ \A t \in TokenRows :
       LET old == verification_tokens[t]
           new == verification_tokens'[t]
       IN
       /\ new # None
       /\ new.user_id = old.user_id
       /\ new.purpose = old.purpose
       /\ old.used => new.used
       /\ old.expired => new.expired

(* No step of any endpoint takes back what another request relies on: a     *)
(* revoked or expired session, a consumed token and a verified account stay *)
(* so, and rows keep their owner and their parent.                          *)
NothingTakenBack == [][Rely]_vars
=============================================================================
