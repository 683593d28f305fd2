----------------------------- MODULE AuthLedger -----------------------------
(***************************************************************************)
(* Auth implements AccountLedger: whatever the requests interleave, what   *)
(* the tables show is a sequence of whole operations.  Every request is a  *)
(* clerk of the ledger: it takes its order at the SELECT that checks what  *)
(* the client sent (a signup and a new Google link with the COMMIT of the  *)
(* account) and carries it out at one COMMIT; every other statement leaves *)
(* the tables of the ledger as they are.                                   *)
(*                                                                         *)
(* Provenance is the invariant this takes beside IInv: where the tokens,   *)
(* links and rows a request writes with came from.                         *)
(***************************************************************************)
EXTENDS AuthInvariant, Orders

(* NULL is none of the rows and orders the ledger shows. *)
ASSUME LedgerNone ==
  /\ None \notin [password : Passwords \cup {None}, verified : BOOLEAN]
  /\ None \notin [email : Addresses, revoked : BOOLEAN, expired : BOOLEAN]
  /\ None \notin [email : Addresses, purpose : {"email_verify", "password_reset"},
                  used : BOOLEAN, expired : BOOLEAN]
  /\ \A a \in Addresses :
       /\ None # ToOpen(a)
       /\ \A purpose \in {"email_verify", "password_reset"} : None # ToMail(a, purpose)
  /\ \A k \in RefreshIds : None # ToRotate(k) /\ None # ToRetire(k)
  /\ \A t \in TokenIds :
       /\ None # ToVerify(t)
       /\ \A p \in Passwords, known \in SUBSET RefreshIds :
            None # Presented(t, p, known) /\ None # ToReset(t, p, known)

-----------------------------------------------------------------------------
(* The refinement mapping *)

AccountOf(a) ==
  IF users[a] = None THEN None
  ELSE [password |-> users[a].password_hash, verified |-> users[a].is_email_verified]
LinksOf ==
  {<<p.provider_user_id, p.user_id>> : p \in {q \in auth_providers : q.provider = "google"}}
SessionOf(k) ==
  IF refresh_tokens[k] = None THEN None
  ELSE [email |-> refresh_tokens[k].user_id,
        revoked |-> refresh_tokens[k].is_revoked, expired |-> refresh_tokens[k].expired]
LinkOf(t) ==
  IF verification_tokens[t] = None THEN None
  ELSE [email |-> verification_tokens[t].user_id,
        purpose |-> verification_tokens[t].purpose,
        used |-> verification_tokens[t].used, expired |-> verification_tokens[t].expired]

(* What a request has been granted and has not committed yet, by the        *)
(* statement s it runs next.                                                *)
InReset == {"select_owner", "flush_reset", "snapshot_sessions", "revoke_sessions"}
OrderAt(s, c, l) ==
  CASE s = "insert_token"                           -> ToMail(l.user, PurposeOf(c.endpoint))
    [] s = "issue"                                  -> ToOpen(l.user)
    [] s \in {"revoke_old", "commit_rotation"}      -> ToRotate(c.cred)
    [] s = "revoke" /\ c.cred # None                -> ToRetire(c.cred)
    [] s \in {"select_owner", "commit_verify"} /\ c.endpoint = "verify_email"
                                                    -> ToVerify(c.cred)
    [] s = "select_token" /\ c.endpoint = "reset"   -> Presented(c.cred, c.password, c.seen)
    [] s \in InReset /\ c.endpoint = "reset"        -> ToReset(c.cred, c.password, c.seen)
    [] OTHER                                        -> None
OrderOf(r) == OrderAt(pc[r], call[r], loc[r])

Ledger == INSTANCE AccountLedger WITH
  Clerks     <- Requests,
  Emails     <- Addresses,
  Identities <- Subs,
  Secrets    <- Passwords,
  SessionIds <- RefreshIds,
  LinkIds    <- TokenIds,
  account    <- [a \in Addresses |-> AccountOf(a)],
  google     <- LinksOf,
  session    <- [k \in RefreshIds |-> SessionOf(k)],
  link       <- [t \in TokenIds |-> LinkOf(t)],
  order      <- [r \in Requests |-> OrderOf(r)]

(* The endpoints, interleaved at every await, with crashes and lost         *)
(* answers, do to the tables what the operations of the ledger do, one at a *)
(* time.  A session comes from a checked login or from a rotation that      *)
(* revokes the session it was granted for in the same step, and is revoked  *)
(* only by such a rotation, by a logout or by a reset; a reset changes the  *)
(* password, uses its link and revokes the sessions of the account that     *)
(* were there when it was asked for, in one step; and a request that dies   *)
(* has done all of that or nothing.  What it does not say: the check and    *)
(* the step are two, so two requests may both pass the check on one session *)
(* or link, and both are carried out (TokensSingleUse, LogoutEndsSession    *)
(* and ResetEndsEverySession show what follows).                            *)
ImplementsLedger == Ledger!Spec

-----------------------------------------------------------------------------
(* Where what a request writes with came from *)

(* Consuming a token: it was mailed, it is of the endpoint's purpose, and   *)
(* the account it resolved is the token's owner.                            *)
Consuming ==
  {"select_owner", "commit_verify", "flush_reset", "snapshot_sessions",
   "revoke_sessions"}
TokenProof(r) ==
  LET t == call[r].cred IN
  /\ call[r].endpoint \in {"verify_email", "reset"} => t \in inbox
  /\ pc[r] \in Consuming =>
       /\ verification_tokens[t].purpose = PurposeOf(call[r].endpoint)
       /\ verification_tokens[t].user_id = loc[r].user
  /\ pc[r] = "commit_verify" /\ loc[r].loaded.is_email_verified =>
       users[loc[r].user].is_email_verified

(* The session rows a request has locked: the one it rotates, or sessions   *)
(* of the account it resets.                                                *)
LockProof(r) ==
  \A k \in RefreshIds :
    /\ SessionRow(k) \in locks[r] =>
         \/ pc[r] = "commit_rotation"
         \/ pc[r] = "revoke_sessions" /\ k \in SessionsOf(loc[r].user)
    /\ pc[r] = "revoke_sessions" /\ k \in loc[r].todo => k \in SessionsOf(loc[r].user)

(* A Google login entered the account its subject is linked to. *)
GoogleProof(r) ==
  /\ pc[r] = "create_google" => normalize_email(loc[r].user) = loc[r].user
  /\ call[r].endpoint = "google" /\
       (pc[r] = "issue" \/ Answered(r, "google", "ok")) =>
         /\ loc[r].user \in Addresses
         /\ GoogleProvider(loc[r].user, call[r].cred) \in auth_providers

(* The reset a request has answered is still the last one, or a later one   *)
(* has changed the password again.                                          *)
PasswordProof(r) ==
  Answered(r, "reset", "ok") =>
    LET u == loc[r].user IN
    /\ u \in Addresses
    /\ users[u] # None
    /\ users[u].resets >= loc[r].era
    /\ users[u].resets = loc[r].era => users[u].password_hash = call[r].password

(* The unique constraints on auth_providers hold, and only Google rows have *)
(* a subject.                                                               *)
ProvidersUnique ==
  /\ \A p \in auth_providers : p.provider = "google" <=> p.provider_user_id # None
  /\ \A p, q \in auth_providers :
       /\ p.provider = q.provider
       /\ \/ p.user_id = q.user_id
          \/ p.provider_user_id # None /\ p.provider_user_id = q.provider_user_id
       => p = q

(* The account of a consumed verification token is verified. *)
VerifiedByToken ==
  \A t \in TokenRows :
    LET v == verification_tokens[t] IN
    v.purpose = "email_verify" /\ v.used => users[v.user_id].is_email_verified

RequestProof(r) ==
  TokenProof(r) /\ LockProof(r) /\ GoogleProof(r) /\ PasswordProof(r)

(* Every write of every endpoint has a cause: a token that was mailed to    *)
(* the account, a link of the account, the password that was sent with the  *)
(* last reset; and what the unique indexes and normalize_email promise of   *)
(* the rows stays so while requests race on them.                           *)
Provenance ==
  /\ OneAccountPerMailbox
  /\ ProvidersUnique
  /\ VerifiedByToken
  /\ VerifiedNeedsProof
  /\ \A r \in Requests : RequestProof(r)

-----------------------------------------------------------------------------
(* Who holds rows, and who has logged in *)

(* A transaction holds locks from its first UPDATE to its COMMIT only; a    *)
(* reset holds the users row of its account before any session row.         *)
LocksOK(r) ==
  /\ locks[r] # {} =>
       pc[r] \in {"commit_rotation", "snapshot_sessions", "revoke_sessions"}
  /\ pc[r] \in {"snapshot_sessions", "revoke_sessions"} =>
       UserRow(loc[r].user) \in locks[r]

(* No row is locked by two transactions, so two resets of one account never *)
(* scan its sessions at the same time.                                      *)
RowLocks ==
  /\ \A q, r \in Requests : q # r => locks[q] \cap locks[r] = {}
  /\ \A r \in Requests : LocksOK(r)

(* A login on its way to a session, and one that has it, was given the      *)
(* password of the account as it read it, which only a reset may have       *)
(* changed since.                                                           *)
LoginProof(r) ==
  call[r].endpoint = "login" /\ (pc[r] = "issue" \/ Answered(r, "login", "ok")) =>
    LET u == loc[r].user IN
    /\ u \in Addresses
    /\ users[u] # None
    /\ loc[r].loaded # None
    /\ users[u].resets >= loc[r].loaded.resets
    /\ users[u].resets = loc[r].loaded.resets =>
         users[u].password_hash = call[r].password

(* What a request holds and what its login has seen, at every statement.    *)
Standing == RowLocks /\ \A r \in Requests : LoginProof(r)
=============================================================================
