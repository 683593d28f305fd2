----------------------------- MODULE Migrations -----------------------------
(***************************************************************************)
(* The alembic revisions and the rows they carry along: alembic/env.py,    *)
(* alembic/versions/, src/core/encryption.py, and what writes users and    *)
(* transactions meanwhile.                                                 *)
(*                                                                         *)
(* One `alembic` command is one transaction over all the revisions it      *)
(* runs: work is what that transaction sees, db what everybody else does.  *)
(* Each action is one statement (or one batch) of a revision.  A statement *)
(* that alters a table waits until no transaction has written to it and    *)
(* keeps it locked until COMMIT or ROLLBACK.                               *)
(*                                                                         *)
(* The credential of a transactions row stands for its MikroTik user name  *)
(* and password, which every statement treats alike.                       *)
(***************************************************************************)
EXTENDS Integers, FiniteSets, FiniteSetsExt

CONSTANTS
  Users, Transactions,  \* primary keys
  Creds,                \* MikroTik credentials
  Long,                 \* those of more than 80 characters
  Keys,                 \* values of ENCRYPTION_KEY
  BatchSize,            \* batch_size, 500 in the code
  DefaultTenant,        \* DEFAULT_TENANT_ID
  Writers,              \* transactions of the application in flight at once
  Deployed,             \* revisions the database may be at to begin with
  None                  \* NULL, and an environment variable that is not set

ASSUME CredsAssumption == Long \subseteq Creds /\ None \notin Creds \cup Keys
ASSUME BatchAssumption == BatchSize \in Nat \ {0}
ASSUME NullAssumption == None \notin [key : Keys, value : Creds]
ASSUME DeployedAssumption == Deployed \subseteq 0..3
ASSUME TenantAssumption == DefaultTenant # None

VARIABLES
  db,       \* the committed database
  work,     \* the database as the running migration's transaction sees it
  run,      \* the running alembic command
  locked,   \* tables it has locked
  writing,  \* rows of the application's transactions that are not committed
  outcome,  \* how the last alembic command ended
  truth     \* history: the credential last committed for each transaction

vars == <<db, work, run, locked, writing, outcome, truth>>

UserRow == [tenant_id : {None, DefaultTenant}]
Encrypted == [key : Keys, value : Creds]
TransactionRow ==
  [mikrotik : {None} \cup Creds, mikrotik_enc : {None} \cup Encrypted]

(* What the revisions create: tables, columns and constraints.              *)
TablesOf1 == {"users", "auth_providers", "refresh_tokens"}
TablesOf2 == {"verification_tokens"}
TablesOf3 == {"tenants", "audit_logs", "payment_configs", "plans", "routers",
              "transactions", "sessions"}
TenantColumn == {"users.tenant_id", "users.tenant_id NOT NULL"}
Plain == "transactions.mikrotik"
Enc   == "transactions.mikrotik_enc"
RestrictKeys == {"transactions.plan_id RESTRICT", "transactions.router_id RESTRICT"}

SchemaAt(v) ==
  (IF v >= 1 THEN TablesOf1 ELSE {})
  \cup (IF v >= 2 THEN TablesOf2 ELSE {})
  \cup (IF v >= 3 THEN TablesOf3 \cup TenantColumn ELSE {})
  \cup (IF v = 3 THEN {Plain} ELSE {})
  \cup (IF v = 4 THEN {Enc} \cup RestrictKeys ELSE {})

SchemaObjects ==
  TablesOf1 \cup TablesOf2 \cup TablesOf3 \cup TenantColumn
  \cup {Plain, Enc} \cup RestrictKeys
Head == 4
Empty(v) ==
  [version |-> v, schema |-> SchemaAt(v),
   users |-> [u \in Users |-> None],
   transactions |-> [t \in Transactions |-> None]]

Idle == [at |-> "idle", dir |-> "none", key |-> None, todo |-> {}]
Statements ==
  {"create_auth", "create_verification", "create_tenants", "add_tenant_id",
   "backfill", "not_null", "add_encrypted", "encrypt", "add_plain", "decrypt",
   "drop_tenant_fk",
   "drop_verification", "drop_auth", "commit"}
Outcomes ==
  {"none", "done", "interrupted", "no_key", "undecryptable", "too_long",
   "null_tenant", "unnamed"}

-----------------------------------------------------------------------------
(* src/core/encryption.py.  A Fernet token decrypts under the key it was    *)
(* made with and no other; Errors are no values.                            *)

Errors == {"RuntimeError", "DecryptionError"}

(* Mutant: no test for None.                                              *)
EncryptNull(value, key) == [key |-> key, value |-> value]
encrypt_value(value, key) ==
  IF value = None THEN None ELSE [key |-> key, value |-> value]

(* Mutant: a token that does not decrypt counts as no credential.         *)
DecryptSilently(token, key) ==
  IF token # None /\ key # None /\ token.key = key THEN token.value ELSE None
decrypt_value(token, key) ==
  CASE token = None      -> None
    [] token # None /\ key = None -> "RuntimeError"
    [] token # None /\ key # None /\ token.key = key -> token.value
    [] OTHER -> "DecryptionError"

-----------------------------------------------------------------------------
(* The alembic command: env.py *)

(* The first statement of the revision that leads from version v on.        *)
First(dir, v) ==
  IF dir = "up"
  THEN CASE v = 0 -> "create_auth"    [] v = 1 -> "create_verification"
         [] v = 2 -> "create_tenants" [] v = 3 -> "add_encrypted"
         [] OTHER -> "commit"
  ELSE CASE v = 1 -> "drop_auth"      [] v = 2 -> "drop_verification"
         [] v = 3 -> "drop_tenant_fk" [] v = 4 -> "add_plain"
         [] OTHER -> "commit"

(* `alembic upgrade head` runs every later revision, `alembic downgrade -1` *)
(* undoes one.  The command reads ENCRYPTION_KEY from its own environment.  *)
Start(dir, key) ==
  /\ run = Idle
  /\ IF dir = "up" THEN db.version < Head ELSE db.version > 0
  /\ run' = [at |-> First(dir, db.version), dir |-> dir, key |-> key, todo |-> {}]
  /\ work' = db
  /\ UNCHANGED <<db, locked, writing, outcome, truth>>

At(s) == run.at = s
Then(s) == run' = [run EXCEPT !.at = s]
(* A revision is through: alembic_version is updated and the next one runs. *)
Revised(view) ==
  LET v == IF run.dir = "up" THEN work.version + 1 ELSE work.version - 1 IN
  /\ work' = [view EXCEPT !.version = v]
  /\ run' = [run EXCEPT !.at = IF run.dir = "up" THEN First("up", v) ELSE "commit",
                        !.todo = {}]

(* ALTER TABLE, and CREATE TABLE for a table it references.                 *)
Free(table) == \A w \in Writers : writing[w] # None => writing[w].table # table
LockTable(table) == Free(table) /\ locked' = locked \cup {table}

(* Mutant: no context.begin_transaction(), each statement commits.        *)
RollbackNothing(why) ==
  /\ db' = work
  /\ work' = None /\ run' = Idle /\ locked' = {} /\ outcome' = why
  /\ UNCHANGED <<writing, truth>>

Rollback(why) ==
  /\ work' = None
  /\ run' = Idle
  /\ locked' = {}
  /\ outcome' = why
  /\ UNCHANGED <<db, writing, truth>>

Commit ==
  /\ At("commit")
  /\ db' = work
  /\ work' = None
  /\ run' = Idle
  /\ locked' = {}
  /\ outcome' = "done"
  /\ UNCHANGED <<writing, truth>>

(* The process dies, the connection is lost or PostgreSQL cancels it.       *)
Interrupt == run # Idle /\ Rollback("interrupted")

Others == UNCHANGED <<db, writing, outcome, truth>>
Adding(objects) == [work EXCEPT !.schema = @ \cup objects]
Without(objects) == [work EXCEPT !.schema = @ \ objects]

-----------------------------------------------------------------------------
(* The revisions of 2026-05-13 and 2026-05-15 *)

CreateAuth ==
  /\ At("create_auth")
  /\ Revised(Adding(TablesOf1))
  /\ Others /\ UNCHANGED locked

DropAuth ==
  /\ At("drop_auth")
  /\ LockTable("users")
  /\ Revised([Without(TablesOf1) EXCEPT !.users = [u \in Users |-> None]])
  /\ Others

CreateVerification ==
  /\ At("create_verification")
  /\ LockTable("users")
  /\ Revised(Adding(TablesOf2))
  /\ Others

DropVerification ==
  /\ At("drop_verification")
  /\ LockTable("users")
  /\ Revised(Without(TablesOf2))
  /\ Others

-----------------------------------------------------------------------------
(* 2026-05-18: tenants and the domain tables *)

CreateTenants ==
  /\ At("create_tenants")
  /\ work' = Adding(TablesOf3 \cup {Plain})
  /\ Then("add_tenant_id")
  /\ Others /\ UNCHANGED locked

(* Mutant: the column comes in a transaction of its own, as in a rollout  *)
(* of three, and its lock is gone when the others follow.                   *)
AddTenantIdEarlier ==
  /\ At("add_tenant_id")
  /\ work' = Adding({"users.tenant_id"})
  /\ Then("backfill")
  /\ Others /\ UNCHANGED locked

AddTenantId ==
  /\ At("add_tenant_id")
  /\ LockTable("users")
  /\ work' = Adding({"users.tenant_id"})
  /\ Then("backfill")
  /\ Others

Tenanted(row) == IF row = None THEN None ELSE [tenant_id |-> DefaultTenant]
Backfill ==
  /\ At("backfill")
  /\ work' = [work EXCEPT !.users = [u \in Users |-> Tenanted(work.users[u])]]
  /\ Then("not_null")
  /\ Others /\ UNCHANGED locked

Untenanted == {u \in Users : work.users[u] # None /\ work.users[u].tenant_id = None}
SetNotNull ==
  /\ At("not_null")
  /\ IF Untenanted = {}
     THEN Revised(Adding(TenantColumn)) /\ Others /\ UNCHANGED locked
     ELSE Rollback("null_tenant")

(* downgrade() begins by dropping a constraint it has no name for.          *)
DropTenantForeignKey == At("drop_tenant_fk") /\ Rollback("unnamed")

-----------------------------------------------------------------------------
(* 2026-05-19: credentials are encrypted *)

TransactionRows(view) == {t \in Transactions : view.transactions[t] # None}

(* fetchmany: the next rows, in the order the SELECT happens to give.       *)
Batches == kSubset(Min({BatchSize, Cardinality(run.todo)}), run.todo)

(* add_column, and the SELECT of every row.                                 *)
AddEncrypted ==
  /\ At("add_encrypted")
  /\ LockTable("transactions")
  /\ work' = Adding({Enc})
  /\ run' = [run EXCEPT !.at = "encrypt", !.todo = TransactionRows(work)]
  /\ Others

NeedsKey(b) == run.key = None /\ \E t \in b : work.transactions[t].mikrotik # None
EncryptedRow(row) ==
  [row EXCEPT !.mikrotik_enc = encrypt_value(row.mikrotik, run.key)]
EncryptBatch(b) ==
  [work EXCEPT !.transactions = [t \in Transactions |->
     IF t \in b THEN EncryptedRow(work.transactions[t]) ELSE work.transactions[t]]]

(* Mutant: every batch is fetched with a SELECT of its own.               *)
EncryptRefetching(b) ==
  /\ At("encrypt") /\ run.todo # {} /\ ~NeedsKey(b)
  /\ work' = EncryptBatch(b)
  /\ UNCHANGED run /\ Others /\ UNCHANGED locked

Encrypt(b) ==
  /\ At("encrypt")
  /\ run.todo # {}
  /\ ~NeedsKey(b)
  /\ work' = EncryptBatch(b)
  /\ run' = [run EXCEPT !.todo = @ \ b]
  /\ Others /\ UNCHANGED locked

RefuseEncrypt(b) ==
  At("encrypt") /\ run.todo # {} /\ NeedsKey(b) /\ Rollback("no_key")

(* Mutant: the first batch only, an `if` instead of the `while`.          *)
DropPlainEarly ==
  /\ At("encrypt")
  /\ run.todo # TransactionRows(work) \/ run.todo = {}
  /\ Revised([work EXCEPT
       !.schema = (@ \ {Plain}) \cup RestrictKeys,
       !.transactions = [t \in Transactions |->
          IF work.transactions[t] = None THEN None
          ELSE [work.transactions[t] EXCEPT !.mikrotik = None]]])
  /\ Others /\ UNCHANGED locked

(* drop_column, and _recreate_foreign_key for plan_id and router_id.        *)
DropPlain ==
  /\ At("encrypt")
  /\ run.todo = {}
  /\ Revised([work EXCEPT
       !.schema = (@ \ {Plain}) \cup RestrictKeys,
       !.transactions = [t \in Transactions |->
          IF work.transactions[t] = None THEN None
          ELSE [work.transactions[t] EXCEPT !.mikrotik = None]]])
  /\ Others /\ UNCHANGED locked

AddPlain ==
  /\ At("add_plain")
  /\ LockTable("transactions")
  /\ work' = Adding({Plain})
  /\ run' = [run EXCEPT !.at = "decrypt", !.todo = TransactionRows(work)]
  /\ Others

Decrypted(t) == decrypt_value(work.transactions[t].mikrotik_enc, run.key)
Readable(b) == \A t \in b : Decrypted(t) \notin Errors
DecryptBatch(b) ==
  [work EXCEPT !.transactions = [t \in Transactions |->
     IF t \in b THEN [work.transactions[t] EXCEPT !.mikrotik = Decrypted(t)]
     ELSE work.transactions[t]]]

(* Mutant: the column the credentials return to has no bound.             *)
DecryptUnbounded(b) ==
  /\ At("decrypt")
  /\ run.todo # {}
  /\ Readable(b)
  /\ work' = DecryptBatch(b)
  /\ run' = [run EXCEPT !.todo = @ \ b]
  /\ Others /\ UNCHANGED locked

(* The column the credentials return to is String(80).                      *)
Decrypt(b) ==
  /\ At("decrypt")
  /\ run.todo # {}
  /\ Readable(b) /\ \A t \in b : Decrypted(t) \notin Long
  /\ work' = DecryptBatch(b)
  /\ run' = [run EXCEPT !.todo = @ \ b]
  /\ Others /\ UNCHANGED locked

RefuseDecrypt(b) ==
  /\ At("decrypt")
  /\ run.todo # {}
  /\ \/ (\E t \in b : Decrypted(t) = "RuntimeError") /\ Rollback("no_key")
     \/ (\E t \in b : Decrypted(t) = "DecryptionError") /\ Rollback("undecryptable")
     \/ Readable(b) /\ (\E t \in b : Decrypted(t) \in Long) /\ Rollback("too_long")

DropEncrypted ==
  /\ At("decrypt")
  /\ run.todo = {}
  /\ Revised([work EXCEPT
       !.schema = @ \ ({Enc} \cup RestrictKeys),
       !.transactions = [t \in Transactions |->
          IF work.transactions[t] = None THEN None
          ELSE [work.transactions[t] EXCEPT !.mikrotik_enc = None]]])
  /\ Others /\ UNCHANGED locked

-----------------------------------------------------------------------------
(* What writes meanwhile.  An INSERT or UPDATE holds its table until its    *)
(* transaction ends.  It waits for a table a migration has locked, and      *)
(* queues behind a migration that waits for the table.                      *)

Awaited ==
  CASE run.at \in {"create_verification", "add_tenant_id",
                   "drop_verification", "drop_auth"} -> {"users"}
    [] run.at \in {"add_encrypted", "add_plain"} -> {"transactions"}
    [] OTHER -> {}

Write(w, table, id, row) ==
  /\ writing[w] = None
  /\ table \in db.schema \ (locked \cup {x \in Awaited : ~Free(x)})
  /\ \A x \in Writers : writing[x] # None => writing[x].id # id
  /\ writing' = [writing EXCEPT ![w] = [table |-> table, id |-> id, row |-> row]]
  /\ UNCHANGED <<db, work, run, locked, outcome, truth>>

(* create_user of this release, and of the release before tenants: since    *)
(* the 2026-05-18 revision the latter fails on NOT NULL.                    *)
SignUp(w, u) ==
  /\ TenantColumn \subseteq db.schema
  /\ db.users[u] = None
  /\ Write(w, "users", u, [tenant_id |-> DefaultTenant])
EarlierSignUp(w, u) ==
  /\ "users.tenant_id" \notin db.schema
  /\ db.users[u] = None
  /\ Write(w, "users", u, [tenant_id |-> None])

(* A transactions row gets its credential from this release's setter, or in *)
(* plain text from a release before the 2026-05-19 revision.                *)
Record(w, t, c, key) ==
  /\ Enc \in db.schema
  /\ c # None => key # None
  /\ Write(w, "transactions", t,
           [mikrotik |-> None, mikrotik_enc |-> encrypt_value(c, key)])
EarlierRecord(w, t, c) ==
  /\ Plain \in db.schema
  /\ c \notin Long
  /\ Write(w, "transactions", t, [mikrotik |-> c, mikrotik_enc |-> None])

Credential(row) ==
  IF row.mikrotik # None THEN row.mikrotik
  ELSE IF row.mikrotik_enc # None THEN row.mikrotik_enc.value ELSE None

(* What is committed is seen by a migration that has not locked the table.  *)
Written(view, x) ==
  IF x.table = "users" THEN [view EXCEPT !.users[x.id] = x.row]
  ELSE [view EXCEPT !.transactions[x.id] = x.row]
CommitWrite(w) ==
  /\ writing[w] # None
  /\ LET x == writing[w] IN
     /\ db' = Written(db, x)
     /\ work' = IF At("idle") THEN None ELSE Written(work, x)
     /\ truth' = IF x.table = "transactions"
                 THEN [truth EXCEPT ![x.id] = Credential(x.row)] ELSE truth
  /\ writing' = [writing EXCEPT ![w] = None]
  /\ UNCHANGED <<run, locked, outcome>>
AbandonWrite(w) ==
  /\ writing[w] # None
  /\ writing' = [writing EXCEPT ![w] = None]
  /\ UNCHANGED <<db, work, run, locked, outcome, truth>>

-----------------------------------------------------------------------------
Init ==
  /\ db \in {Empty(v) : v \in Deployed}
  /\ work = None
  /\ run = Idle
  /\ locked = {}
  /\ writing = [w \in Writers |-> None]
  /\ outcome = "none"
  /\ truth = [t \in Transactions |-> None]

MigrationStep ==
  \/ Commit
  \/ CreateAuth \/ DropAuth \/ CreateVerification \/ DropVerification
  \/ CreateTenants \/ AddTenantId \/ Backfill \/ SetNotNull
  \/ DropTenantForeignKey
  \/ AddEncrypted \/ DropPlain \/ AddPlain \/ DropEncrypted
  \/ \E b \in Batches :
       Encrypt(b) \/ RefuseEncrypt(b) \/ Decrypt(b) \/ RefuseDecrypt(b)

EndWrite(w) == CommitWrite(w) \/ AbandonWrite(w)
Next ==
  \/ \E dir \in {"up", "down"}, key \in Keys \cup {None} : Start(dir, key)
  \/ MigrationStep
  \/ Interrupt
  \/ \E w \in Writers :
       \/ EndWrite(w)
       \/ \E u \in Users : SignUp(w, u) \/ EarlierSignUp(w, u)
       \/ \E t \in Transactions, c \in Creds \cup {None} :
            \/ EarlierRecord(w, t, c)
            \/ \E key \in Keys \cup {None} : Record(w, t, c, key)

Spec == Init /\ [][Next]_vars

(* PostgreSQL queues who waits for a table lock, and no transaction of the  *)
(* application stays open for ever.                                         *)
FairSpec ==
  /\ Spec
  /\ SF_vars(MigrationStep)
  /\ \A w \in Writers : WF_vars(EndWrite(w))

-----------------------------------------------------------------------------
(* Properties *)

Database ==
  [version : 0..Head, schema : SUBSET SchemaObjects,
   users : [Users -> {None} \cup UserRow],
   transactions : [Transactions -> {None} \cup TransactionRow]]

TypeOK ==
  /\ db \in Database
  /\ work \in {None} \cup Database
  /\ run \in [at : Statements \cup {"idle"}, dir : {"up", "down", "none"},
              key : Keys \cup {None}, todo : SUBSET Transactions]
  /\ locked \subseteq {"users", "transactions"}
  /\ writing \in [Writers -> {None}
       \cup [table : {"users"}, id : Users, row : UserRow]
       \cup [table : {"transactions"}, id : Transactions, row : TransactionRow]]
  /\ outcome \in Outcomes
  /\ truth \in [Transactions -> {None} \cup Creds]

WholeView(view) ==
  /\ view.schema = SchemaAt(view.version)
  /\ \A u \in Users : view.users[u] # None =>
       (view.users[u].tenant_id = None <=> view.version < 3)
  /\ \A t \in TransactionRows(view) :
       /\ view.version # 3 => view.transactions[t].mikrotik = None
       /\ view.version # 4 => view.transactions[t].mikrotik_enc = None
KeptView(view) ==
  \A t \in TransactionRows(view) : Credential(view.transactions[t]) = truth[t]

(* A run that is refused or interrupted at any statement or batch leaves a  *)
(* whole revision behind: the tables, columns and constraints of the        *)
(* revision alembic_version names, users with a tenant from the third on    *)
(* and without before, credentials in plain text at the third and encrypted *)
(* at the fourth, whoever was signing up or recording meanwhile.            *)
RevisionIsWhole == WholeView(db)

(* No path of upgrades, downgrades, refusals and interruptions loses or     *)
(* changes a credential: every committed row still holds the one last       *)
(* written, in plain text or under a key that was in use.                   *)
CredentialsKept == KeptView(db)

(* What the model's getter answers under any key is the credential written, *)
(* or an error; never another one and never "no credential".                *)
ReadsAreTrue ==
  \A t \in TransactionRows(db), key \in Keys \cup {None} :
    Enc \in db.schema =>
      decrypt_value(db.transactions[t].mikrotik_enc, key) \in {truth[t]} \cup Errors

(* An upgrade ends at the head unless it is interrupted or a credential is  *)
(* to be encrypted without a key: sign-ups in flight, committed at any      *)
(* statement of it, never break the NOT NULL constraint.                    *)
SignUpsNeverStopUpgrades == outcome # "null_tenant"

(* Every alembic command ends, though it waits for the application's        *)
(* transactions.                                                            *)
MigrationEnds == (run # Idle) ~> (run = Idle)

-----------------------------------------------------------------------------
(* The inductive invariant *)

(* What a migration may count on at each of its statements.                 *)
AtStatement ==
  /\ run.at \in Statements \ {"add_tenant_id", "backfill", "not_null", "encrypt", "decrypt"} =>
       WholeView(work) /\ KeptView(work)
  /\ run.at \in Statements \ {"commit", "encrypt", "decrypt", "add_tenant_id", "backfill", "not_null"} =>
       run.at = First(run.dir, work.version)
  /\ run.at \in {"add_tenant_id", "backfill", "not_null"} =>
       /\ run.dir = "up" /\ work.version = 2
       /\ \A t \in TransactionRows(work) : work.transactions[t].mikrotik_enc = None
       /\ KeptView(work)
       /\ \A u \in Users : work.users[u] # None =>
            (work.users[u].tenant_id = None <=> run.at # "not_null")
       /\ work.schema \cup TenantColumn = SchemaAt(3)
  /\ run.at \in {"backfill", "not_null"} => "users" \in locked
  /\ run.at = "encrypt" => run.dir = "up" /\ work.version = 3
  /\ run.at = "decrypt" => run.dir = "down" /\ work.version = 4
  /\ run.at \in {"encrypt", "decrypt"} =>
       /\ "transactions" \in locked
       /\ work.schema = SchemaAt(work.version) \cup {Plain, Enc}
       /\ \A u \in Users : work.users[u] # None => work.users[u].tenant_id # None
       /\ run.todo \subseteq TransactionRows(work)
       /\ \A t \in TransactionRows(work) :
            LET row == work.transactions[t] IN
            /\ run.at = "encrypt" \/ t \notin run.todo => row.mikrotik = truth[t]
            /\ run.at = "decrypt" \/ t \notin run.todo =>
                 truth[t] = IF row.mikrotik_enc = None THEN None
                            ELSE row.mikrotik_enc.value

(* Tables that are written to while a migration runs look the same to it.   *)
Unlocked == db.schema \ locked
Beside ==
  /\ "users" \in Unlocked =>
       work.version >= 1 /\ (work.version < 3 <=> db.version < 3)
  /\ "transactions" \in Unlocked =>
       run.at = First(run.dir, work.version) /\ work.version = db.version

WriteOK(w) ==
  writing[w] # None =>
    LET x == writing[w] IN
    /\ x.table \in Unlocked
    /\ x.table = "users" => (x.row.tenant_id = None <=> db.version < 3)
    /\ x.table = "transactions" =>
         /\ db.version # 3 => x.row.mikrotik = None
         /\ db.version # 4 => x.row.mikrotik_enc = None

(* What the proofs need: the properties above, what the migration may count *)
(* on at its statement, and that writers and migration keep off each        *)
(* other's tables.                                                          *)
MInv ==
  /\ TypeOK
  /\ RevisionIsWhole
  /\ CredentialsKept
  /\ SignUpsNeverStopUpgrades
  /\ run.at = "idle" => locked = {} /\ work = None
  /\ run.at # "idle" =>
       work \in Database /\ run.dir \in {"up", "down"} /\ AtStatement /\ Beside
  /\ \A w \in Writers : WriteOK(w)

-----------------------------------------------------------------------------
(* "Downgrade schema." (2026-05-18_tenants_and_domain_models.py): the       *)
(* downgrade of that revision can run.                                      *)
EveryRevisionHasADowngrade == outcome # "unnamed"
=============================================================================
