------------------------------ MODULE Accounts ------------------------------
(***************************************************************************)
(* Accounts and the ways to prove who one is: signup, password login and   *)
(* the Google callback (service.create_user, authenticate and              *)
(* link_or_create_google_user).                                            *)
(***************************************************************************)
EXTENDS AuthState

PasswordProvider(u) ==
  [provider |-> "password", provider_user_id |-> None, user_id |-> u]
GoogleProvider(u, sub) ==
  [provider |-> "google", provider_user_id |-> sub, user_id |-> u]

(* Mutant: is_email_verified defaults to true and nobody sets it. *)
NewUserVerified(password, verified) ==
  [password_hash |-> password, is_email_verified |-> TRUE, resets |-> 0]

(* Mutant: create_user forgets the hash. *)
NewUserNoHash(password, verified) ==
  [password_hash |-> None, is_email_verified |-> verified, resets |-> 0]

(* A users row as the constructors of create_user and path 3 fill it. *)
NewUser(password, verified) ==
  [password_hash |-> password, is_email_verified |-> verified, resets |-> 0]

(* Mutant: uq_provider_provider_user_id is missing. *)
ProviderTakenByUser(p) ==
  \E q \in auth_providers : q.provider = p.provider /\ q.user_id = p.user_id

(* uq_provider_user and uq_provider_provider_user_id reject the row (a NULL *)
(* provider_user_id equals no other).                                       *)
ProviderTaken(p) ==
  \E q \in auth_providers :
    /\ q.provider = p.provider
    /\ \/ q.user_id = p.user_id
       \/ p.provider_user_id # None /\ q.provider_user_id = p.provider_user_id

-----------------------------------------------------------------------------
(* Signup *)

SignupCall(r, a, p) ==
  /\ TokenRoom
  /\ Begin(r, [NoCall EXCEPT !.endpoint = "signup", !.email = a,
                             !.password = p], "insert_user")

(* Mutant: SignupRequest does not normalize the address. *)
StoredVerbatim(a) == a

(* The address a signup stores: SignupRequest has normalized it. *)
StoredEmail(a) == normalize_email(a)

(* create_user: INSERT of the user and its provider, and COMMIT.  The       *)
(* unique index on users.email is the only check of a known address.        *)
CreateUser(r) ==
  LET a == StoredEmail(call[r].email) IN
  /\ pc[r] = "insert_user"
  /\ \/ /\ users[a] = None
        /\ users' = [users EXCEPT ![a] = NewUser(call[r].password, FALSE)]
        /\ auth_providers' = auth_providers \cup {PasswordProvider(a)}
        /\ Goto(r, "insert_token", [loc[r] EXCEPT !.user = a])
     \/ /\ users[a] # None
        /\ Reject(r)
        /\ UNCHANGED <<users, auth_providers>>
  /\ UNCHANGED <<refresh_tokens, verification_tokens, locks>>

-----------------------------------------------------------------------------
(* Password login *)

LoginCall(r, b, a, p) ==
  /\ RefreshRoom
  /\ Begin(r, [NoCall EXCEPT !.endpoint = "login", !.browser = b,
                             !.email = a, !.password = p], "select_user")

(* Mutant: verify_password is not asked. *)
AcceptedAnyPassword(a, p) == users[a] # None /\ users[a].is_email_verified

(* Mutant: the check of is_email_verified is dropped. *)
AcceptedUnverified(a, p) == users[a] # None /\ users[a].password_hash = p

(* authenticate accepts: a known account with this password, verified. *)
Accepted(a, p) ==
  /\ users[a] # None
  /\ users[a].password_hash = p
  /\ users[a].is_email_verified

Authenticate(r) ==
  LET a == normalize_email(call[r].email) IN
  /\ pc[r] = "select_user"
  /\ \/ /\ Accepted(a, call[r].password)
        /\ Goto(r, "issue", [loc[r] EXCEPT !.user = a, !.loaded = users[a]])
     \/ /\ ~Accepted(a, call[r].password)
        /\ Reject(r)
  /\ UNCHANGED <<db, locks>>

-----------------------------------------------------------------------------
(* Google login *)

(* GET /google/callback after Google vouched for subject s with address a.  *)
(* The address of a subject may differ from one login to the next.          *)
GoogleCall(r, b, s, a) ==
  /\ RefreshRoom
  /\ Begin(r, [NoCall EXCEPT !.endpoint = "google", !.browser = b,
                             !.cred = s, !.email = a], "select_provider")

(* Path 1: the subject is linked already. *)
SelectProvider(r) ==
  LET linked == {p \in auth_providers : /\ p.provider = "google"
                                        /\ p.provider_user_id = call[r].cred}
  IN
  /\ pc[r] = "select_provider"
  /\ \/ \E p \in linked : Goto(r, "issue", [loc[r] EXCEPT !.user = p.user_id])
     \/ linked = {} /\ Goto(r, "select_email", loc[r])
  /\ UNCHANGED <<db, locks>>

(* Path 2 for a known address, path 3 for a new one. *)
SelectByEmail(r) ==
  LET a == normalize_email(call[r].email) IN
  /\ pc[r] = "select_email"
  /\ \/ /\ users[a] # None
        /\ Goto(r, "link", [loc[r] EXCEPT !.user = a, !.loaded = users[a]])
     \/ /\ users[a] = None
        /\ Goto(r, "create_google", [loc[r] EXCEPT !.user = a])
  /\ UNCHANGED <<db, locks>>

(* The flush and COMMIT of path 2: no handler for IntegrityError here, so a *)
(* rejected provider row is a 500.                                          *)
LinkGoogle(r) ==
  LET u == loc[r].user
      p == GoogleProvider(u, call[r].cred)
  IN
  /\ pc[r] = "link"
  /\ ~loc[r].loaded.is_email_verified => Unlocked(r, UserRow(u))
  /\ \/ /\ ~ProviderTaken(p)
        /\ auth_providers' = auth_providers \cup {p}
        /\ users' = [users EXCEPT ![u].is_email_verified = TRUE]
        /\ Goto(r, "issue", loc[r])
     \/ /\ ProviderTaken(p)
        /\ Reply(r, [loc[r] EXCEPT !.status = "error"])
        /\ UNCHANGED <<users, auth_providers>>
  /\ UNCHANGED <<refresh_tokens, verification_tokens, locks>>

(* The INSERTs and COMMIT of path 3: a conflict is GoogleOAuthError. *)
CreateGoogleUser(r) ==
  LET u == loc[r].user
      p == GoogleProvider(u, call[r].cred)
  IN
  /\ pc[r] = "create_google"
  /\ \/ /\ users[u] = None
        /\ ~ProviderTaken(p)
        /\ users' = [users EXCEPT ![u] = NewUser(None, TRUE)]
        /\ auth_providers' = auth_providers \cup {p}
        /\ Goto(r, "issue", loc[r])
     \/ /\ users[u] # None \/ ProviderTaken(p)
        /\ Reject(r)
        /\ UNCHANGED <<users, auth_providers>>
  /\ UNCHANGED <<refresh_tokens, verification_tokens, locks>>
=============================================================================
