----------------------------- MODULE AuthState -----------------------------
(***************************************************************************)
(* State shared by the auth endpoints: the four tables of                  *)
(* src/auth/models, the requests in flight, the browsers' cookie jars and  *)
(* the outgoing mail.                                                      *)
(*                                                                         *)
(* A request is one run of an endpoint coroutine with its own database     *)
(* session.  Every `await` on the database is a step of its own, because   *)
(* the event loop (and the other worker processes) run other requests      *)
(* there.  The database is PostgreSQL under READ COMMITTED: a SELECT sees  *)
(* the last committed rows, an UPDATE locks its row until COMMIT, and      *)
(* uncommitted writes are invisible to the others.                         *)
(***************************************************************************)
EXTENDS Naturals, FiniteSets

CONSTANTS
  Addresses,    \* email addresses, in every spelling the clients use
  Norm,         \* the function of addresses that normalize_email computes
  Subs,         \* Google subject identifiers
  Passwords,    \* passwords that pass validate_password_strength
  Browsers,     \* cookie jars
  Requests,     \* slots for requests that run concurrently
  Endpoints,    \* the endpoints the clients of an instance call
  Registered,   \* addresses with a verified password account at start-up
  TimePasses,   \* whether tokens expire in an instance
  MaxRefresh,   \* bound: rows of refresh_tokens
  MaxTokens,    \* bound: rows of verification_tokens
  None          \* SQL NULL, Python None, an absent row

RefreshIds == 1..MaxRefresh
TokenIds   == 1..MaxTokens
normalize_email(a) == Norm[a]

(* Row types.  A user row is keyed by its normalized address: users.email   *)
(* is unique, is never updated, and no endpoint deletes a user.  A token   *)
(* row is keyed by its id, which stands for the random raw token as well   *)
(* as for its SHA-256 hash.  `expired` says whether expires_at has passed. *)
(* The fields resets, parent and uses are history, not columns.            *)
User ==
  [password_hash     : Passwords \cup {None},
   is_email_verified : BOOLEAN,
   resets            : Nat]     \* password resets committed so far
AuthProvider ==
  [provider         : {"password", "google"},
   provider_user_id : Subs \cup {None},
   user_id          : Addresses]
RefreshToken ==
  [user_id    : Addresses,
   is_revoked : BOOLEAN,
   expired    : BOOLEAN,
   parent     : RefreshIds \cup {None}]  \* the token it was rotated from
VerificationToken ==
  [user_id : Addresses,
   purpose : {"email_verify", "password_reset"},
   used    : BOOLEAN,
   expired : BOOLEAN,
   uses    : Nat]               \* commits that consumed it

(* The endpoints of src/auth/router.py that read or write these tables. *)
EndpointNames ==
  {"signup", "login", "refresh", "logout", "verify_email", "resend",
   "forgot", "reset", "google"}

ASSUME NormAssumption ==
  /\ Norm \in [Addresses -> Addresses]
  /\ \A a \in Addresses : Norm[Norm[a]] = Norm[a]
ASSUME RegisteredAssumption ==
  Registered \subseteq Addresses /\ \A a \in Registered : Norm[a] = a
ASSUME BoundAssumption ==
  TimePasses \in BOOLEAN /\ MaxRefresh \in Nat /\ MaxTokens \in Nat
ASSUME NoneAssumption ==
  /\ None \notin Addresses \cup Subs \cup Passwords \cup Browsers \cup Nat
  /\ None \notin User \cup RefreshToken \cup VerificationToken
  /\ None \notin EndpointNames

VARIABLES
  users,                \* Addresses -> User row or None
  auth_providers,       \* set of AuthProvider rows
  refresh_tokens,       \* RefreshIds -> RefreshToken row or None
  verification_tokens,  \* TokenIds -> VerificationToken row or None
  locks,                \* Requests -> rows locked by its open transaction
  pc,                   \* Requests -> the statement it runs next
  call,                 \* Requests -> what the client sent
  loc,                  \* Requests -> the local variables of the endpoint
  cookie,               \* Browsers -> refresh cookie, a token id or None
  outbox,               \* tokens of mails queued as background tasks
  inbox                 \* tokens of mails that reached their mailbox

db   == <<users, auth_providers, refresh_tokens, verification_tokens>>
mail == <<outbox, inbox>>
vars == <<db, locks, pc, call, loc, cookie, mail>>

-----------------------------------------------------------------------------
(* Requests *)

Statements ==
  {"idle", "insert_user", "insert_token", "select_user", "select_user_mail",
   "issue", "select_provider", "select_email", "link", "create_google",
   "select_refresh", "revoke_old", "commit_rotation", "revoke",
   "select_token", "select_owner", "commit_verify", "flush_reset", "snapshot_sessions",
   "revoke_sessions", "respond"}

Call ==
  [endpoint : EndpointNames \cup {None},
   browser  : Browsers \cup {None},
   email    : Addresses \cup {None},
   password : Passwords \cup {None},
   cred     : RefreshIds \cup TokenIds \cup Subs \cup {None},
   dead     : BOOLEAN,            \* history: cred was spent when it was sent
   seen     : SUBSET RefreshIds]  \* history: sessions that existed then
Locals ==
  [user   : Addresses \cup {None},            \* the account it resolved
   loaded : User \cup {None},                 \* users row as it read it
   out    : RefreshIds \cup TokenIds \cup {None},  \* token it created
   todo   : SUBSET RefreshIds,                \* rows the bulk UPDATE must lock
   status : {"none", "ok", "rejected", "error"},
   era    : Nat]                              \* history: user.resets it made

NoCall ==
  [endpoint |-> None, browser |-> None, email |-> None, password |-> None,
   cred |-> None, dead |-> FALSE, seen |-> {}]
NoLocals ==
  [user |-> None, loaded |-> None, out |-> None, todo |-> {},
   status |-> "none", era |-> 0]

Busy      == {r \in Requests : pc[r] # "idle"}
Sessions  == {k \in RefreshIds : refresh_tokens[k] # None}
TokenRows == {t \in TokenIds : verification_tokens[t] # None}

(* Bounds: a call that may create a row begins only while a row is left   *)
(* for it beside those the requests in flight may still create.            *)
RefreshRoom == Cardinality(Sessions) + Cardinality(Busy) < MaxRefresh
TokenRoom   == Cardinality(TokenRows) + Cardinality(Busy) < MaxTokens

(* Mutant: an insert may overwrite a revoked row. *)
NextRefreshReusing(k) == k \in Sessions => refresh_tokens[k].is_revoked

(* The id the next inserted row gets. *)
NextRefresh(k) == refresh_tokens[k] = None /\ \A j \in 1..k-1 : j \in Sessions
NextToken(t)   == verification_tokens[t] = None /\ \A j \in 1..t-1 : j \in TokenRows

(* History recorded with a call: whether the token it sends is spent.      *)
DeadSession(k) ==
  k = None \/ refresh_tokens[k].is_revoked \/ refresh_tokens[k].expired
DeadToken(t) == verification_tokens[t].used \/ verification_tokens[t].expired

(* A request arrives: the endpoint starts at its first statement. *)
Begin(r, c, first) ==
  /\ pc[r] = "idle"
  /\ c.endpoint \in Endpoints
  /\ pc' = [pc EXCEPT ![r] = first]
  /\ call' = [call EXCEPT ![r] = [c EXCEPT !.seen = Sessions]]
  /\ UNCHANGED <<db, locks, loc, cookie, mail>>

(* The endpoint goes on to statement s with local variables l. *)
Goto(r, s, l) ==
  /\ pc' = [pc EXCEPT ![r] = s]
  /\ loc' = [loc EXCEPT ![r] = l]
  /\ UNCHANGED <<call, cookie, mail>>
Reply(r, l) == Goto(r, "respond", l)
Reject(r) == Reply(r, [loc[r] EXCEPT !.status = "rejected"])

-----------------------------------------------------------------------------
(* Row locks of PostgreSQL *)

UserRow(a)    == <<"users", a>>
SessionRow(k) == <<"refresh_tokens", k>>
TokenRow(t)   == <<"verification_tokens", t>>
Rows == ({"users"} \X Addresses) \cup ({"refresh_tokens"} \X RefreshIds)
          \cup ({"verification_tokens"} \X TokenIds)

Unlocked(r, row) == \A q \in Requests \ {r} : row \notin locks[q]
Lock(r, rows)    == locks' = [locks EXCEPT ![r] = @ \cup rows]
Release(r)       == locks' = [locks EXCEPT ![r] = {}]
=============================================================================
