# A TLA+ model of the Hotspot Payment Gateway

The repository is a FastAPI backend. What it implements today is the auth
surface: signup, password and Google login, sessions with rotating refresh
tokens, email verification and password reset, over one PostgreSQL database,
with the migrations that build it and the tables of the domains to come
(`README.md`: "payment and hotspot domains are next"). This directory models
that system, checks it with TLC and proves its main safety properties with
TLAPS. Source paths below are short: `service.py` and `router.py` are those of
`src/auth/`, `rate_limit.py` and `middleware.py` those of `src/core/`.

## 1. The system

| Component | State | Operations | Interacts with |
|---|---|---|---|
| Sessions | table `refresh_tokens` (hash, owner, `expires_at`, `is_revoked`), the browser's cookie | issue (end of a login), verify, rotate (`/refresh`), revoke (`/logout`, and in bulk by a reset) | accounts (owner), mailed tokens (reset) |
| Mailed single-use tokens | table `verification_tokens` (hash, owner, purpose, `expires_at`, `used_at`) | request (`/signup`, `/verify-email/request`, `/forgot-password`), consume (`/verify-email`, `/reset-password`) | mail, accounts, sessions |
| Accounts and identity | tables `users`, `auth_providers` | signup, authenticate, Google callback: relogin, link or create | sessions (a login issues one) |
| Auth API | one coroutine and one database session per request | the endpoints of `router.py`; answers set or clear the cookie and start background tasks | all of the above |
| Outgoing mail | queued background tasks | `_safe_send_email`, `send_email` | mailbox of the user |
| Access tokens | none in the server (signed JWT); the workers' clocks | encode (login, refresh), decode, `get_current_user` | accounts, sessions |
| Rate limiting | counters per process (or redis) | check and count per route, the 429 | every limited endpoint |
| Password policy and hashing | none | strength check, bcrypt | signup, login, reset |
| Request pipeline | context variables, log lines | request id, validation, access log, handler for any exception | every endpoint |
| Database migrations | `alembic_version`, the schema, the running transaction and its locks | upgrade to head, downgrade by one | writers of `users` and `transactions` |
| Credential encryption | key in the environment | encrypt, decrypt, the migration of 2026-05-19 | table `transactions` |
| Payment, hotspot, tenant, audit | tables | getters and setters of the credentials; nothing else yet | migrations |

### What makes it hard

* **Interleaving.** Every `await` on the database lets other requests run, in
  the same event loop or in another worker. The code reads a row in one
  statement and writes it in a later one, and an ORM write is
  `UPDATE ... WHERE id = ?`, without a version check and without looking at
  `is_revoked` or `used_at` again.
* **PostgreSQL, READ COMMITTED.** A SELECT sees the last committed rows. An
  UPDATE locks its row until COMMIT and waits for a row that is locked. The
  bulk UPDATE of a reset works on the snapshot its statement starts with:
  uncommitted and later sessions are not in it. `session.execute(update(...))`
  autoflushes first, so a reset writes `users` and `verification_tokens`, then
  the sessions, then commits. Only changed columns are written. The foreign
  key lock an INSERT takes on its user does not conflict with an UPDATE that
  leaves the key alone. Unique indexes are the only guard of `create_user`
  and of the Google paths.
* **Failure.** A worker dies in the middle of a request: its transaction rolls
  back, what it had committed stays, its background tasks never start. A
  response is lost: the server has rotated, the browser keeps the old cookie.
  A mail is lost.
* **Time.** Tokens expire between any two statements. JWTs count in whole
  seconds of one worker's clock and are read by another's. Rate limits count
  in windows that open with their first hit.
* **Migrations.** One alembic command is one transaction over several
  revisions, with statements that wait for the application's transactions, a
  backfill, batches that encrypt and a key that may be missing or another one.

### What makes each component correct

* Sessions: a rotation is all or nothing; a spent token is never served; a
  logout and a reset end what they say they end; sessions belong to verified
  accounts.
* Mailed tokens: used once, for their purpose, by their owner's account.
* Accounts: one per mailbox whatever the spelling; verified only by proof; a
  password changes only through a mailed reset token; no committed write is
  lost; a Google subject enters the one account it is linked to.
* API: failures reach the client as the answers the docs name; every request
  finishes; every answer leaves a log line with its request's id.
* Access tokens: good for their time to live and not longer, whichever clocks
  they meet; gone with the sessions they came with, after that time.
* Rate limiting: a bound on what gets through, and none on how long a client
  that keeps trying stays out.
* Passwords: what signup accepts can be hashed and logs in.
* Migrations: a whole revision after whatever happens, every credential kept,
  an end.

## 2. The modules

| Module | Models |
|---|---|
| `AuthState` | the rows of the four tables, requests in flight (`pc`, `call`, `loc`), cookies, mail, row locks; what a request does to arrive, to go on and to answer |
| `RefreshTokens` | `issue_refresh_token`, `verify_refresh_token`, `rotate_refresh_token`, `revoke_refresh_token`, `/refresh`, `/logout`, expiry of sessions |
| `EmailTokens` | `_consume_token`, `request_email_verification`, `verify_email`, `request_password_reset`, `reset_password`, their endpoints, `_safe_send_email`, expiry of tokens |
| `Accounts` | `create_user`, `authenticate`, `link_or_create_google_user` and their endpoints |
| `Auth` | composes the three: answers, lost answers, crashes, `Init`, `Next`, `Spec`, `FairSpec`, the properties |
| `AuthInvariant` | the inductive invariant `IInv` and `Rely`, what no step takes back |
| `Orders` | what an operation of the ledger has been granted and has not carried out yet |
| `AccountLedger` | the abstract specification: accounts, Google links, sessions and mailed tokens that change by whole operations, each granted by its check and carried out once |
| `AuthLedger` | the refinement mapping from `Auth` to `AccountLedger`, and the invariants `Provenance` and `Standing` |
| `AccessTokens` | `encode_access_token`, `decode_access_token`, `get_current_user`, clocks of several workers, sessions as far as they lead to tokens |
| `RateLimit` | one client on one route: windows, limits in order, counters per process, restarts, the 429 |
| `Recovery` | `RateLimit` with `/verify-email/request`, its mail and `/verify-email`: a user who asks again |
| `RequestPipeline` | middleware, validation, limiter, each endpoint's status, password policy and bcrypt, exceptions, log lines |
| `Migrations` | the four alembic revisions up and down, `encryption.py`, sign-ups and payments meanwhile |
| `RevisionLedger` | the abstract specification of the migrations: whole commands, whole sign-ups and payments |
| `MigrationLedger` | the refinement mapping from `Migrations` to `RevisionLedger`, and the invariant `Carried` |
| `AuthProofs`, `LedgerProofs`, `RequestProofs`, `RecoveryProofs`, `AccessProofs`, `PipelineProofs`, `MigrationProofs`, `RevisionProofs` | the theorems and their proofs |
| `MCAuth`, `MCAccessTokens`, `MCRateLimit`, `MCRecovery`, `MCRequestPipeline`, `MCMigrations` | the instances TLC checks |

### Auth

**State.** `users` is keyed by normalized address (`users.email` is unique and
never updated, and no endpoint deletes a user); `refresh_tokens` and
`verification_tokens` by an id that stands for the random raw token as well as
for its SHA-256 hash; `auth_providers` is a set of rows. `pc[r]` is the
statement request `r` runs next, `call[r]` what the client sent, `loc[r]` the
local variables of the endpoint, `locks[r]` the rows its open transaction has
locked. Some fields are history, for properties only: `uses`, `resets`,
`parent`, `dead`, `seen`, `era`; no guard reads one. Of a login's `loaded`, the
row `authenticate` read, no later statement reads anything but whose it is; the
properties read it to say what has changed since.

**Steps.** One action per database statement of a handler:

| Endpoint | Actions |
|---|---|
| signup | `SignupCall`, `CreateUser`, `InsertToken` |
| login | `LoginCall`, `Authenticate`, `issue_refresh_token` |
| refresh | `RefreshCall`, `SelectRefresh`, `RevokeOld`, `CommitRotation` |
| logout | `LogoutCall`, `revoke_refresh_token` |
| resend, forgot | `ResendCall` or `ForgotCall`, `SelectUserMail`, `InsertToken` |
| verify-email | `VerifyCall`, `SelectToken`, `SelectOwner`, `CommitVerify` |
| reset-password | `ResetCall`, `SelectToken`, `SelectOwner`, `FlushReset`, `SnapshotSessions`, `RevokeSession` (row by row), `CommitReset` |
| Google callback | `GoogleCall`, `SelectProvider`, `SelectByEmail`, `LinkGoogle` or `CreateGoogleUser`, `issue_refresh_token` |
| all | `Respond`, `LoseResponse`, `Crash` |

The environment delivers or loses mail and lets tokens expire. Clients send
only what they can have: the cookie their browser holds, a token that was
delivered to a mailbox (of either kind, to either endpoint).

**Reductions.** Where nothing can be seen between two statements they are one
action. The flush and COMMIT of `verify_email`, of a Google link and of a
logout are merged: the transaction waits for its rows and then writes and
commits, and a request it makes wait finds the same rows either way. The
`session.get(User)` of a rotation and of Google path 1 are merged with the
SELECT before it: the row is never deleted and nothing of it is used later.
`session.refresh` after a COMMIT only fills the response. Passwords stand for
acceptable passwords and for their hashes; bcrypt compares by equality
(`RequestPipeline` says which passwords that is true of). Addresses are model values and `Norm` is the function `normalize_email`
computes, any idempotent one.

### The ledger

`AccountLedger` is what the docstrings of `service.py` promise of the tables,
without statements and locks. Clerks take orders and carry them out:

| Order | Granted by | Carried out by |
|---|---|---|
| open a session | `LogIn` (password of a verified account), `GoogleLogIn`, or with the account itself by `GoogleSignUp`, `GoogleLink` | `Open` |
| replace a session | `Present`: it is neither revoked nor expired | `Rotate`: revoked, and its successor there, in one step |
| end a session | `AskLogout` | `Retire` |
| mail a link | with the account itself by `SignUp`; `Ask` | `Mail` |
| verify an address | `Redeem`: an unspent verification link | `Verify`: the account is verified and the link used, in one step |
| reset a password | `AskReset`, then `Accept`: an unspent reset link | `Reset`: password, link and sessions, in one step |

An order names the rows it was granted for and is carried out whole and once,
or dropped. No other operation opens or revokes a session, uses a link or
changes a password. So a rotation in two transactions is no behaviour of the
ledger, whichever comes first: `Retire` needs a logout's order, `Open` a
login's. Nor is a reset that revokes later, or never: it has to revoke every
session of its account that was there when it was asked for, and may leave out
only sessions opened since (`reset_sessions` shows one).

`AuthLedger` instantiates it on the rows of `Auth`, with the requests as clerks:
`OrderAt` reads a request's order off the statement it runs next. The SELECT
that checks what the client sent is the step that takes the order, the COMMIT
the one that carries it out, every other statement is a stutter, and a crash
drops it. What the ledger does not promise is what the code does not: check and
step are two, so two requests may be granted orders on one session or link, and
both are carried out. Two refreshes of one cookie that both get through are two
`Rotate`s: the chain forks, but only within the account, and each successor
comes with the revoke. Two resets with one link are two `Reset`s
(`single_use`), and a logout between the two steps of a refresh is undone
(`logout`).

### Access tokens

Time passes in ticks (`now`), a second is `Second` ticks, and each worker's
clock is off by up to `Skew` ticks and may be set at any time. `Seconds(w)` is
`int(now.timestamp())` on worker `w`; `iat` and `exp` are written with one
worker's and compared with another's (PyJWT checks both). Sessions appear as
far as they lead to tokens: `issue_refresh_token` opens one,
`verify_refresh_token` and `rotate_refresh_token` are the two ends of a
refresh, `HandOut` signs the token after the COMMIT, `EndSession` is a logout,
a reset or an expiry. `minted` and `out` are history: when each token was
handed out, and since when a user is out. `rotating` is the set of sessions
that some refresh in flight has found valid: several may have, and a session
that one of them has replaced stays in the set as long as another may follow.
`RemoveUser` deletes a row, which no
code does and `get_current_user` is ready for.

### Rate limits and recovery

slowapi and limits are external; `RateLimit` models them as the code uses
them: fixed windows that open with the first hit, the limits of a route hit in
the order they are written until one refuses, and a hit that refuses counted
as well. A store is the memory of one worker, or redis for all (`Volatile`
tells which). Time is what is left of each window, so no horizon bounds it.
`recent[s][n]` is history: how many attempts got through in the last `n`
ticks, as far back as `Longest`, which no period exceeds. `Recovery` composes
it with the verification mail: requests are whole there (`AuthLedger` shows
that each changes the tables in whole steps), and a token that is spent may stand for a new one, so that its
behaviours are infinite.

### The request pipeline

`at[r]` is how far request `r` has come: received, its id bound, its body
valid, returned or raised, unhandled, answered. The rest of the state is what
it carries (`call`, `inbound`), its context (`context`), what the endpoint
made of it (`result`), the response (`answer`), the log lines, and the one
account all of the requests are about. A password is a record of its length in
characters, its length in UTF-8 bytes and its classes. `good` says whether a
call's token, cookie or code is accepted; when that is so is `Auth`'s subject.
An endpoint answers in one step, with its own log line (`Logged`) where
`service.py` writes one. It fails in one as well: before anything is committed,
or after, when what `Committed` names stays behind, and for a signup or a login
its line too, because a token is still to be inserted (`DatabaseError`). Google
may fail to answer (`GoogleError`).
`add_request_id_to_errors` is modelled by what it does: it calls
`http_exception_handler`, which reads `exc.status_code`.

### Migrations

`run.at` is the next statement of the running command, `work` the database as
its transaction sees it, `db` what everybody else sees, `locked` the tables it
has altered. An upgrade runs every later revision in one transaction
(`env.py` begins one), a downgrade undoes one. `ALTER TABLE` on `users` or
`transactions` waits for transactions that have written to it, and they wait
for it afterwards. While it waits, later writers queue behind it (`Awaited`):
without that, writers that overlap would keep it out for ever, and
`MigrationEnds` would fail. `writing` is what the application's transactions
have not committed yet. `SignUp`
and `Record` are this release, `EarlierSignUp` and `EarlierRecord` the one
before. A command may be interrupted at every statement and refused for want
of a key, a wrong key or a credential longer than the column.

`RevisionLedger` is what that comes to for those who own the rows: a version,
who has an account, and the credential of each transaction. A command is one
step, an `Upgrade` to the head or a `Downgrade` by one revision, and it happens
at the COMMIT; every other statement, refusal or interruption changes nothing,
and a sign-up or payment committed in between is a step of its own. The ledger
says what the code's four downgrades do: the first revision's takes the users
with it, the fourth's needs credentials that fit their column, and the third's
never happens (section 4).

## 3. What is checked

### Auth

Every instance of `Auth` has two request slots, which are reused: any number of requests
run one after the other, two at a time, and a third one adds no pair of
handlers that interleave. `Busy` requests reserve the rows they may create
(`RefreshRoom`, `TokenRoom`), so a bound stops new calls and never a request
half way.

| Run | Instance | Shows |
|---|---|---|
| `sessions` | 1 account, 3 sessions, 1 mailed token, fair, login, refresh, logout, forgot and reset | `TypeOK`, `RotationRetiresParent`, `DeadTokenStaysDead`, `ResetRevokesEarlier`, `NoCircularWait`, `Standing`, `EveryRequestFinishes` |
| `mail` | 2 addresses, 2 passwords, 2 mailed tokens, 1 session, signup, login, logout, resend, verify, forgot, reset | `CommittedWritesStick`, `VerifiedNeedsProof`, `PasswordNeedsResetToken`, `LoginsUseCurrentPassword` |
| `identity` | 3 spellings of 2 addresses, 2 Google subjects, 2 passwords, signup, both logins, verify | `SessionsVerified`, `GoogleLoginsLinked`, `OneAccountPerMailbox` |
| `everything` | 1 address, 1 Google subject, 2 sessions, 1 mailed token, expiry, all nine endpoints | `IInv`, `NothingTakenBack`, `Provenance`, `EveryAccountHasAWayIn`, `ImplementsLedger` |

The bounds (`MaxRefresh`, `MaxTokens`, the `Endpoints` of an instance, and
`TimePasses`, which turns expiry on) are enough for the interesting cases: 3
sessions hold a login, a rotation of it and another session of the same
account, so a bulk revocation meets rows in several orders; 2 mailed tokens
are one of each purpose for one account, or one for each of two; 3 spellings
are two of one mailbox and a stranger. `identity` has 1 mailed token because
only the first signup's matters to it. Expiry is left out of `sessions`, where
TLC also checks liveness and therefore cannot use symmetry; `everything` has
it, and what `sessions` checks of tokens that expire follows there from
`IInv`. It is left out of `mail` for its size: a token that expires can only
be refused, and what `mail` checks of tokens follows from `Provenance`, which
`everything` checks with expiry. The one session of `mail` lets a login be
overtaken by a reset between its two transactions. Logout without a cookie does nothing
and is in every instance, so that an instance whose tokens are spent does not
stop: what TLC reports as a deadlock would be one.

**Fairness.** `FairSpec` adds strong fairness of each request's steps
(`SF_vars(ServerStep(r))`). The event loop resumes every ready coroutine, and
PostgreSQL queues the transactions that wait for a row lock, so a request
whose lock comes free again and again is granted it. Clients, mail, crashes
and expiry are not fair: nothing makes them happen.

`EveryRequestFinishes` is about the order of locks: without the autoflush that
makes two resets of one account queue on its `users` row first, they would
lock its sessions in different orders and wait for each other.

### The other modules

| Run | Instance | Shows |
|---|---|---|
| `access` | 1 user, 3 sessions, 2 workers, seconds of 2 ticks, a time to live of 3 seconds, a skew of 1 tick, 10 ticks | `AInv`, `OldTokensRefused`, `GoodTokensAccepted`, `LogoutsTakeEffect` |
| `recovery` | two volatile stores, limits 1 in a tick and 2 in 3, 1 token outstanding, fair | `LimitTypeOK`, `BurstBound`, `LongLimitCountsServed`, `LetInAgain`, `VerifiedInTheEnd` |
| `pipeline` | 2 requests, 5 passwords around 8 and 72 characters, 72 bytes and the classes, 1 inbound id | `LinesCarryTheirId`, `EveryAnswerLogged`, `PInv`, `AcceptedPasswordsWork` |
| `migration` | 1 user, 2 transactions encrypted one at a time, 2 keys, 2 credentials (one too long for the column), 2 writers, from every revision, fair | `RevisionIsWhole`, `CredentialsKept`, `ReadsAreTrue`, `SignUpsNeverStopUpgrades`, `MInv`, `MigrationEnds`, `ImplementsRevisions` |

Why these are enough. `access`: 10 ticks are the 3 seconds of a token and twice
the skew, and room to hand it out later; three sessions are one and the
successors that two refreshes give it; two workers are one that signs and one
that checks. `recovery`: the short limit refuses within the
long one's window, and the long one lets its bursts through, a hit at the end
of a window and two at the beginning of the next, on either store; time has no
horizon, and a token that is spent is free again, so one token is any number
of mails. A further one that would be outstanding with it is not followed,
which can only keep the user from a verification. `pipeline`: two requests are
one that logs and one that has bound its id meanwhile; the passwords are the
shortest and the longest that are accepted, one byte too many, one character
too few, and a class too few. It allows a deadlock, because its requests are
answered once and then nothing is left to do. `migration`: two batches are one
that is through and one still to do when a command is refused or interrupted;
two writers are one that has committed and one in flight, or one that keeps
the table busy when the other ends.

**What the rate limit promises.** `BurstBound` is the truth about "5/minute":
within 60 seconds that begin anywhere up to 2 * 5 - 1 attempts get through,
and as many for each worker that counts in its own memory, as long as it does
not restart. `LongLimitCountsServed` says why the order in
`LOGIN_RATE_LIMIT` matters: with the shorter limit first, attempts it refuses
do not use up the hour's.

**Fairness.** `LetInAgain` needs of the fairness of `Recovery` only that time
goes on. `VerifiedInTheEnd` assumes that time goes on and links expire, that the user
asks at least once a tick until the account is verified (weak fairness of
`Persevering` and `Ask`, which is the user's doing), and that not every mail is
lost nor every link left until it expires (strong fairness of delivering one
and of following one); without these nobody can promise a verification. It
assumes nothing of the limiter: that the user is let in again is shown.
`MigrationEnds` assumes strong fairness of the migration's steps, as
PostgreSQL queues who waits for a table lock, and that no transaction of the
application stays open for ever.

## 4. Where the code departs from its words

Each of these runs checks one sentence of the repository and TLC finds a
behaviour of the code that breaks it.

| Run | The sentence | What happens |
|---|---|---|
| `single_use` | `models/verification_token.py:15` "Single-use token for email verification and password reset." | two requests read the token unused, both consume it |
| `reset_sessions` | `service.py:422` "Changing the password invalidates every existing session." | a rotation that had validated its token and waited for the row commits a successor the reset's snapshot did not hold |
| `logout` | `router.py:157` "Revoke the active refresh token and clear the cookie." | a refresh that validated the token before the logout still rotates it |
| `google_errors` | `service.py:217` "GoogleOAuthError: the orphan / race conditions in (1) and (3)." | path 2 raises IntegrityError, a 500 instead of a redirect |

Six more disagreements came up. Their properties are in the modules and each
has a configuration that shows how the code gets there; they are sequential,
a reading of the code finds them, and they are none of the project's runs.

| Module and configuration | Property | The sentence | What happens |
|---|---|---|---|
| `MCAuth`, `password_provider.cfg` | `PasswordHasProvider` | `models/auth_provider.py:22` "A linked authentication method for a user (password, google, etc.)" | a reset on a Google-only account sets a password without a provider row |
| `MCAuth`, `signup_session.cfg` | `SignupOpensSession` | `README.md:99` "POST /api/v1/auth/signup -> 201 + access_token + Set-Cookie: refresh_token" | signup opens no session and sets no cookie |
| `MCMigrations`, `downgrade.cfg` | `EveryRevisionHasADowngrade` | `2026-05-18_tenants_and_domain_models.py:208` "Downgrade schema." | its first statement drops a constraint it has no name for, and fails |
| `MCRateLimit`, `retry_after.cfg` | `RefusalsSayWhen` | `rate_limit.py:45` "Return a 429 in the API's standard {"detail": ...} shape, with Retry-After." | the `Limiter` is made without `headers_enabled`, so `_inject_headers` adds nothing |
| `MCRequestPipeline`, `stamps.cfg` | `EveryAnswerStamped` | `middleware.py:19` "Stamp every request with an ID, bind it to the log context, log access." | the handler for unexpected exceptions fails itself; the 500 sent in its place has no `X-Request-ID` |
| `MCRequestPipeline`, `credentials.cfg` | `CredentialFailuresShareAnAnswer` | `service.py:103` "every credential failure shares one message" | a login with more than 72 bytes of password at an account that has one ends in bcrypt's `ValueError`, a 500 |

`ResetRevokesEarlier`, which holds and is proved, is what the bulk UPDATE does
guarantee: the sessions that existed are revoked; `ResetEndsEverySession` asks
the same of what they were rotated to meanwhile.

## 5. What is proved

For every value of the constants that the named assumptions allow: any number
of addresses, passwords, subjects, browsers, requests, workers, sessions,
rows, keys and batches, and every bound.

| Module | Theorem | States |
|---|---|---|
| `AuthProofs` | `Inductive` | `Spec => []IInv` |
| | `MarksStay` | `Spec => NothingTakenBack`, that is `[][Rely]_vars` |
| | `TypeCorrect` | `Spec => []TypeOK` |
| | `RotationAtomic` | `Spec => []RotationRetiresParent` |
| | `OnlyVerifiedSessions` | `Spec => []SessionsVerified` |
| | `DeadTokensRefused` | `Spec => []DeadTokenStaysDead` |
| | `ResetReachesEarlier` | `Spec => []ResetRevokesEarlier` |
| `LedgerProofs` | `Refinement` | `Spec => ImplementsLedger` |
| | `WritesHaveCauses` | `Spec => []Provenance` |
| | `OnlyResetsChangePasswords` | `Spec => PasswordNeedsResetToken` |
| | `VerificationNeedsProof` | `Spec => []VerifiedNeedsProof` |
| | `MailboxHasOneAccount` | `Spec => []OneAccountPerMailbox` |
| | `WritesStick` | `Spec => []CommittedWritesStick` |
| | `GoogleEntersLinkedAccount` | `Spec => []GoogleLoginsLinked` |
| `RequestProofs` | `RequestsStand` | `Spec => []Standing` |
| | `NobodyWaitsInACircle` | `Spec => []NoCircularWait` |
| | `LoginsKnowThePassword` | `Spec => []LoginsUseCurrentPassword` |
| | `AccountsCanBeEntered` | `Spec => []EveryAccountHasAWayIn` |
| `RecoveryProofs` | `LimitInvariant` | `LimitSpec => []LimitInv` |
| | `LimiterBursts` | `LimitSpec => []BurstBound` |
| | `RecoveryUsesLimiter` | `Spec => LimitSpec` |
| | `RecoveryTypes` | `Spec => []LimitTypeOK` |
| | `RecoveryBursts` | `Spec => []BurstBound` |
| | `RecoveryLongLimit` | `Spec => LongLimitCountsServed` |
| `AccessProofs` | `AccessInductive` | `Spec => []AInv` |
| | `ExpiredRefused` | `Spec => []OldTokensRefused` |
| | `FreshAccepted` | `Spec => []GoodTokensAccepted` |
| | `OutMeansOut` | `Spec => []LogoutsTakeEffect` |
| `PipelineProofs` | `PipelineInductive` | `Spec => []PInv` |
| | `IdsDoNotMix` | `Spec => []LinesCarryTheirId` |
| | `AnswersLeaveALine` | `Spec => []EveryAnswerLogged` |
| | `PasswordsWork` | `Spec => []AcceptedPasswordsWork` |
| `MigrationProofs` | `MigrationInductive` | `Spec => []MInv` |
| | `RevisionsWhole` | `Spec => []RevisionIsWhole` |
| | `NoCredentialLost` | `Spec => []CredentialsKept` |
| | `BackfillComplete` | `Spec => []SignUpsNeverStopUpgrades` |
| | `ReadsTrue` | `Spec => []ReadsAreTrue` |
| `RevisionProofs` | `MigrationsRefine` | `Spec => ImplementsRevisions` |
| | `RowsCarried` | `Spec => []Carried` |

Every safety property the passing runs check is proved. The theorems
assume what the modules state: `NormAssumption` (normalizing twice is
normalizing once), `RegisteredAssumption` (accounts that exist at the start
are stored under their normalized address), `BoundAssumption`,
`ClockAssumption`, `PasswordsAssumption` and their like (the ranges of
numbers), and that NULL is no value. TLC evaluates them in the runs.

**Auth.** None of the properties is inductive: that a rotation leaves its
parent revoked depends on what a request remembers from statements ago.
`RequestOK(r)` therefore says, statement by statement, what request `r` may
count on: that it is at a statement of its endpoint (`EndpointsAt`), that what
it sent refers to rows that exist (`CallOK`), that what it read is still so as
far as it matters (`LocalsOK`), that no token spent at the start came past the
check (`DeadOK`), and that the sessions it has seen are revoked, locked or
still to do (`ResetOK`). `References`, `GoogleVerified`, `SessionsVerified`
and `RotationRetiresParent` say the rest about the tables.

The proof is rely-guarantee. `Rely` lists what no step takes back: rows, their
owners and parents, and the marks verified, revoked, used and expired. `Stable`
shows that what a request counts on survives any step of another that respects
`Rely`; one lemma per action shows that it respects `Rely`, keeps the table
invariants and leaves its own request at a statement it is entitled to;
`StepKeeps` joins the two, and `NextKeeps` collects the steps. `Initially` is
the base, and the theorems follow from `IInv` by temporal reasoning. `Rely` is
also a property of its own: `everything` checks it on every step, and
`MarksStay` proves it.

**The refinement.** That a COMMIT is a step of the ledger takes more than
`IInv`: `CommitReset` is a `Reset` only if the token it spends is a reset token
and belongs to the account it writes, which the request read statements before,
and only if it revokes every session its order names: those the request saw
when it arrived are revoked already, locked or still to do (`ResetOK`), and at
the COMMIT nothing is. `Provenance` says that for each request (`TokenProof`,
`LockProof`, `GoogleProof`, `PasswordProof`), and of the tables that their
unique constraints hold. `ProofStable` is the rely-guarantee argument again;
one lemma per action shows that it keeps `Provenance`, and that it takes or
carries out its request's order or leaves the ledger alone (`RowsShown` reads
the mapping row by row).
`Provenance` then gives the identity properties.

**Rows and logins.** `Standing` is what a request holds and what its login has
seen: no row is locked by two transactions, only three statements run with
rows locked, the scan of a reset holds the `users` row of its account
(`RowLocks`), and a login that has been let past `authenticate` was given the
password of the row it read (`LoginProof`). `NoCircularWait` follows without
another step (`OneGoesOn`): of any requests, one about to COMMIT or to take its
snapshot waits for nobody; failing that, one in its scan could only wait for
another scan of the same account, and both would hold its `users` row; failing
that, nobody holds anything. It is proved for every set of requests, where
`EveryRequestFinishes` follows two. `LoginProof` is stable because a password
changes with `resets` only (`RelyMore`). `EveryAccountHasAWayIn` is inductive
beside `IInv`: `WayInKept` says what a step has to respect, and the three
handlers that write `users` and `auth_providers` together have a lemma each.

**Rate limits.** `LimitInv` relates a window to the history of attempts let
through. A window that opened `Age` ticks ago has counted every attempt let
through since; whatever is older was let through by the window before, and of
that at most one less than the limit falls into the same period, because its
first hit is too old. That is where `2n - 1` comes from, and a restart only
shortens how far back the claim reaches (`Reach`). `LastWindow` is the other
half: the last limit counts nothing that was not let through, for an attempt
that reaches it has passed all the others. `Recovery` drives the limiter
through its own steps only (`RecoveryUsesLimiter`), so the promises hold there.

**Access tokens.** `AInv` says where a token comes from: `iat` is the second
some clock within the skew read at the tick it was handed out, `exp` is the
time to live later, and a user who is out has no session and no request on the
way to one. The rest is arithmetic of whole seconds over ticks, for every
`Second`, `Ttl` and `Skew`: the lemma `Division` is what the provers need of
`\div`.

**The pipeline.** `PInv` says of each stage what a request has by then: its
id, a valid body, its failure line, and that no password in the row is unfit.
`OneMoves` reduces a step to the one request that moves, and each action has a
lemma.

**Migrations.** `AtStatement` says what `work` looks like before each
statement, `Beside` which tables look the same to the migration and to
everybody else, `WriteOK` what a transaction in flight may still write. That a
backfill misses nobody is `WriteOK` with the lock on `users` taken statements
before: a sign-up in flight would hold the table.

**The second refinement.** `CredentialsKept` and `RevisionIsWhole` would also
hold of a migration that lost rows, or whose COMMIT undid a sign-up committed
beside it; `MigrationsRefine` excludes that. `Carried` is what it takes:
the command sees a row exactly where everybody does (`SameRows`), except for
the users a first downgrade is about to drop; it started from a version that
leads somewhere (`Underway`); and every writer in flight has a new user of its
own, or a credential that fits where it goes (`NewRows`), so that its COMMIT is
a whole operation of the ledger whatever a command has committed meanwhile.
At the COMMIT of a command the credentials are those of `db` because writers
have been kept off the tables it changed (`AtCommit`). `RowsAssumption` says
that NULL is no row.

**Only model-checked.** The liveness properties `EveryRequestFinishes`,
`MigrationEnds`, `LetInAgain` and `VerifiedInTheEnd`: liveness under fairness
and ENABLED are beyond the prover. `NoCircularWait` is the part of the first
that is proved, the absence of a deadlock on rows.

## 6. What is not modelled

* The domain tables (payment, hotspot, tenant, audit) beyond their creation
  and the encrypted credentials: the repository has declarations and no code
  that uses them.
* Google's side of OAuth, SMTP, the network, slowapi and limits, PyJWT, bcrypt
  and PostgreSQL themselves: external, modelled by what the code sees of them.
  The OAuth state cookie is authlib's and starlette's.
* Signatures and forged tokens: only tokens this code has signed occur.
* CORS, the layout of log lines, and settings, which are read once and have no
  behaviour; those that matter are constants of the modules.
* Alembic's offline mode, which prints SQL and changes nothing, and two
  commands at once, which alembic does not support.
* Session lengths in `Auth`: `expired` is a mark that may be set at any time,
  which covers every lifetime the settings can give.
* Names longer than their columns at signup (`schemas/auth.py:22` has no
  bound, `users.first_name` has): a `DBAPIError` like any other in
  `RequestPipeline`; no doc says what should happen.
* Which of a login and a reset that overlap ought to win: the login that has
  checked the old password may open its session after the reset, and no doc
  decides. `LoginsUseCurrentPassword` states that nothing else comes between.

## 7. Plan

Done: `Auth` and its proofs first, because every hazard that involves several
requests is in it; then its ledger and the refinement, the migrations and
theirs, rate limits and recovery, access tokens, and the pipeline, each with
its runs and, except for liveness, its proofs.

Left: the payment and hotspot domains, when the repository has code for them.
Their tables are in `Migrations` already; a module each for vouchers and
transactions would compose with `RequestPipeline` for the answers and with
`AccountLedger`, in place of `Auth`, for the accounts.
