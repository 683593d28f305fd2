--------------------------- MODULE RefreshTokens ---------------------------
(***************************************************************************)
(* Sessions: issuing, rotating and revoking refresh tokens                 *)
(* (service.issue_refresh_token, rotate_refresh_token,                     *)
(* revoke_refresh_token and the /refresh and /logout endpoints).           *)
(***************************************************************************)
EXTENDS AuthState

(* Mutant: the is_revoked check is dropped. *)
VerifyIgnoringRevocation(k) == k # None /\ ~refresh_tokens[k].expired

(* verify_refresh_token: the row exists, is not revoked and has not expired. *)
verify_refresh_token(k) ==
  /\ k # None
  /\ ~refresh_tokens[k].is_revoked
  /\ ~refresh_tokens[k].expired

(* Mutant: is_revoked has no default, so the row is stored with NULL. *)
NewSessionNullFlag(u, parent) ==
  [user_id |-> u, is_revoked |-> None, expired |-> FALSE, parent |-> parent]

(* The row _build_refresh_token makes; the id is the fresh random token.    *)
NewSession(u, parent) ==
  [user_id |-> u, is_revoked |-> FALSE, expired |-> FALSE, parent |-> parent]

(* issue_refresh_token, the last statement of a login and of the Google     *)
(* callback: INSERT and COMMIT.  The new row conflicts with nothing.        *)
issue_refresh_token(r) ==
  /\ pc[r] = "issue"
  /\ \E k \in RefreshIds :
       /\ NextRefresh(k)
       /\ refresh_tokens' = [refresh_tokens EXCEPT ![k] =
            NewSession(loc[r].user, None)]
       /\ Reply(r, [loc[r] EXCEPT !.out = k, !.status = "ok"])
  /\ UNCHANGED <<users, auth_providers, verification_tokens, locks>>

(* POST /refresh: the browser sends whatever cookie it has, perhaps none.   *)
RefreshCall(r, b) ==
  /\ RefreshRoom
  /\ Begin(r, [NoCall EXCEPT !.endpoint = "refresh", !.browser = b,
                             !.cred = cookie[b],
                             !.dead = DeadSession(cookie[b])],
           "select_refresh")

(* rotate_refresh_token reads and validates the row.  The session.get(User) *)
(* that follows always finds the user, since no endpoint deletes one.       *)
SelectRefresh(r) ==
  /\ pc[r] = "select_refresh"
  /\ \/ /\ verify_refresh_token(call[r].cred)
        /\ Goto(r, "revoke_old",
                [loc[r] EXCEPT !.user = refresh_tokens[call[r].cred].user_id])
     \/ /\ ~verify_refresh_token(call[r].cred)
        /\ Reject(r)
  /\ UNCHANGED <<db, locks>>

(* Mutant: the revoke commits by itself, before the successor is there. *)
RevokeOldCommits(r) ==
  /\ pc[r] = "revoke_old"
  /\ Unlocked(r, SessionRow(call[r].cred))
  /\ refresh_tokens' = [refresh_tokens EXCEPT ![call[r].cred].is_revoked = TRUE]
  /\ Goto(r, "commit_rotation", loc[r])
  /\ UNCHANGED <<users, auth_providers, verification_tokens, locks>>

(* The flush of `old.is_revoked = True`: an UPDATE by primary key, which    *)
(* waits for the row lock and does not look at is_revoked again.            *)
RevokeOld(r) ==
  /\ pc[r] = "revoke_old"
  /\ Unlocked(r, SessionRow(call[r].cred))
  /\ Lock(r, {SessionRow(call[r].cred)})
  /\ Goto(r, "commit_rotation", loc[r])
  /\ UNCHANGED db

(* Mutant: the old token is not revoked. *)
RotationKeepsOld(old, new) ==
  [refresh_tokens EXCEPT ![new] = NewSession(refresh_tokens[old].user_id, old)]

(* What the rotation's transaction has written when it commits. *)
RotationWrites(old, new) ==
  [refresh_tokens EXCEPT
     ![old].is_revoked = TRUE,
     ![new] = NewSession(refresh_tokens[old].user_id, old)]

(* The INSERT of the new row and the COMMIT that publishes both writes. *)
CommitRotation(r) ==
  /\ pc[r] = "commit_rotation"
  /\ \E k \in RefreshIds :
       /\ NextRefresh(k)
       /\ refresh_tokens' = RotationWrites(call[r].cred, k)
       /\ Reply(r, [loc[r] EXCEPT !.out = k, !.status = "ok"])
  /\ Release(r)
  /\ UNCHANGED <<users, auth_providers, verification_tokens>>

(* POST /logout *)
LogoutCall(r, b) ==
  Begin(r, [NoCall EXCEPT !.endpoint = "logout", !.browser = b,
                          !.cred = cookie[b],
                          !.dead = DeadSession(cookie[b])], "revoke")

(* revoke_refresh_token: one UPDATE by hash and its COMMIT; nothing to do   *)
(* when the browser sent no cookie.                                         *)
revoke_refresh_token(r) ==
  /\ pc[r] = "revoke"
  /\ \/ /\ call[r].cred = None
        /\ UNCHANGED refresh_tokens
     \/ /\ call[r].cred # None
        /\ Unlocked(r, SessionRow(call[r].cred))
        /\ refresh_tokens' = [refresh_tokens EXCEPT ![call[r].cred].is_revoked = TRUE]
  /\ Reply(r, [loc[r] EXCEPT !.status = "ok"])
  /\ UNCHANGED <<users, auth_providers, verification_tokens, locks>>

(* Time passes: expires_at of a session goes by. *)
ExpireSession(k) ==
  /\ TimePasses
  /\ refresh_tokens[k] # None
  /\ ~refresh_tokens[k].expired
  /\ refresh_tokens' = [refresh_tokens EXCEPT ![k].expired = TRUE]
  /\ UNCHANGED <<users, auth_providers, verification_tokens, locks, pc, call,
                 loc, cookie, mail>>
=============================================================================
