-------------------------- MODULE MigrationProofs --------------------------
(***************************************************************************)
(* Proofs that MInv is inductive, and with it that every alembic command,  *)
(* whatever stops it and whatever is written meanwhile, leaves a whole     *)
(* revision behind and every credential as it was written.                 *)
(***************************************************************************)
EXTENDS Migrations, TLAPS

USE CredsAssumption, NullAssumption, TenantAssumption

-----------------------------------------------------------------------------
(* Which revisions have which tables *)

LEMMA Tables ==
  ASSUME NEW v \in 0..4
  PROVE  /\ "users" \in SchemaAt(v) <=> v >= 1
         /\ "transactions" \in SchemaAt(v) <=> v >= 3
         /\ "users.tenant_id" \in SchemaAt(v) <=> v >= 3
         /\ TenantColumn \subseteq SchemaAt(v) <=> v >= 3
         /\ Plain \in SchemaAt(v) <=> v = 3
         /\ Enc \in SchemaAt(v) <=> v = 4
         /\ SchemaAt(v) \subseteq SchemaObjects
BY DEF SchemaAt, SchemaObjects, TablesOf1, TablesOf2, TablesOf3, TenantColumn,
       Plain, Enc, RestrictKeys

(* What each revision adds or drops leads to the next or the one before.    *)
LEMMA Steps ==
  /\ SchemaAt(0) \cup TablesOf1 = SchemaAt(1)
  /\ SchemaAt(1) \ TablesOf1 = SchemaAt(0)
  /\ SchemaAt(1) \cup TablesOf2 = SchemaAt(2)
  /\ SchemaAt(2) \ TablesOf2 = SchemaAt(1)
  /\ SchemaAt(2) \cup (TablesOf3 \cup {Plain}) \cup TenantColumn = SchemaAt(3)
  /\ ((SchemaAt(3) \cup {Plain, Enc}) \ {Plain}) \cup RestrictKeys = SchemaAt(4)
  /\ (SchemaAt(4) \cup {Plain, Enc}) \ ({Enc} \cup RestrictKeys) = SchemaAt(3)
  /\ SchemaAt(3) \cup {Enc} = SchemaAt(3) \cup {Plain, Enc}
  /\ SchemaAt(4) \cup {Plain} = SchemaAt(4) \cup {Plain, Enc}
<1>1. SchemaAt(0) \cup TablesOf1 = SchemaAt(1)
  BY DEF SchemaAt, TablesOf1, TablesOf2, TablesOf3, TenantColumn, Plain, Enc, RestrictKeys
<1>2. SchemaAt(1) \ TablesOf1 = SchemaAt(0)
  BY DEF SchemaAt, TablesOf1, TablesOf2, TablesOf3, TenantColumn, Plain, Enc, RestrictKeys
<1>3. SchemaAt(1) \cup TablesOf2 = SchemaAt(2)
  BY DEF SchemaAt, TablesOf1, TablesOf2, TablesOf3, TenantColumn, Plain, Enc, RestrictKeys
<1>4. SchemaAt(2) \ TablesOf2 = SchemaAt(1)
  BY DEF SchemaAt, TablesOf1, TablesOf2, TablesOf3, TenantColumn, Plain, Enc, RestrictKeys
<1>5. SchemaAt(2) \cup (TablesOf3 \cup {Plain}) \cup TenantColumn = SchemaAt(3)
  BY DEF SchemaAt
<1> DEFINE T == TablesOf1 \cup TablesOf2 \cup TablesOf3 \cup TenantColumn
<1>t. SchemaAt(3) = T \cup {Plain} /\ SchemaAt(4) = T \cup {Enc} \cup RestrictKeys
  BY DEF SchemaAt
<1>d. /\ Plain \notin T /\ Enc \notin T /\ Plain # Enc
      /\ T \cap RestrictKeys = {} /\ Plain \notin RestrictKeys
  BY DEF TablesOf1, TablesOf2, TablesOf3, TenantColumn, Plain, Enc, RestrictKeys
<1> HIDE DEF T
<1>6. ((SchemaAt(3) \cup {Plain, Enc}) \ {Plain}) \cup RestrictKeys = SchemaAt(4)
  <2>1. ((T \cup {Plain}) \cup {Plain, Enc}) \ {Plain} = T \cup {Enc} BY <1>d
  <2>. QED BY <2>1, <1>t
<1>7. (SchemaAt(4) \cup {Plain, Enc}) \ ({Enc} \cup RestrictKeys) = SchemaAt(3)
  <2>1. ((T \cup {Enc} \cup RestrictKeys) \cup {Plain, Enc}) \ ({Enc} \cup RestrictKeys)
          = T \cup {Plain}
    BY <1>d
  <2>. QED BY <2>1, <1>t
<1>8. SchemaAt(3) \cup {Enc} = SchemaAt(3) \cup {Plain, Enc}
  BY DEF SchemaAt, TablesOf1, TablesOf2, TablesOf3, TenantColumn, Plain, Enc, RestrictKeys
<1>9. SchemaAt(4) \cup {Plain} = SchemaAt(4) \cup {Plain, Enc}
  BY DEF SchemaAt, TablesOf1, TablesOf2, TablesOf3, TenantColumn, Plain, Enc, RestrictKeys
<1>. QED BY <1>1, <1>2, <1>3, <1>4, <1>5, <1>6, <1>7, <1>8, <1>9

LEMMA Objects ==
  /\ TablesOf1 \subseteq SchemaObjects
  /\ TablesOf2 \subseteq SchemaObjects
  /\ TablesOf3 \cup {Plain} \subseteq SchemaObjects
  /\ TenantColumn \subseteq SchemaObjects
  /\ {Plain, Enc} \cup RestrictKeys \subseteq SchemaObjects
BY DEF SchemaObjects

-----------------------------------------------------------------------------
(* Parts shared by the steps *)

(* A statement of the migration leaves the database and the writers alone;  *)
(* it may lock a table nobody is writing to.                                *)
LEMMA WritersKept ==
  ASSUME MInv, UNCHANGED <<db, writing>>,
         \A w \in Writers : writing[w] # None => writing[w].table \notin locked' \ locked
  PROVE  \A w \in Writers : WriteOK(w)'
<1>1. \A w \in Writers : WriteOK(w) BY DEF MInv
<1>. QED BY <1>1 DEF WriteOK, Unlocked

LEMMA DatabaseKept ==
  ASSUME MInv, UNCHANGED <<db, truth>>
  PROVE  RevisionIsWhole' /\ CredentialsKept'
BY DEF MInv, RevisionIsWhole, CredentialsKept, WholeView, KeptView, TransactionRows,
       Credential

(* ROLLBACK, whatever the reason, keeps the invariant, unless the reason is *)
(* the one that never occurs.                                               *)
LEMMA RollbackKeeps ==
  ASSUME MInv, NEW why \in Outcomes \ {"null_tenant"}, Rollback(why)
  PROVE  MInv'
<1>1. TypeOK BY DEF MInv
<1>2. TypeOK'
  BY <1>1 DEF TypeOK, Rollback, Idle
<1>3. RevisionIsWhole' /\ CredentialsKept'
  BY DatabaseKept DEF Rollback
<1>4. \A w \in Writers : WriteOK(w)'
  BY WritersKept DEF Rollback
<1>5. run'.at = "idle" /\ locked' = {} /\ work' = None /\ outcome' # "null_tenant"
  BY DEF Rollback, Idle
<1>. QED BY <1>2, <1>3, <1>4, <1>5 DEF MInv, SignUpsNeverStopUpgrades

(* A statement that is not the last of the command.                         *)
LEMMA StatementKeeps ==
  ASSUME MInv, Others, run.at # "idle",
         work' \in Database,
         run' \in [at : Statements, dir : {"up", "down"},
                   key : Keys \cup {None}, todo : SUBSET Transactions],
         locked \subseteq locked', locked' \subseteq {"users", "transactions"},
         \A w \in Writers : writing[w] # None => writing[w].table \notin locked' \ locked,
         AtStatement', Beside'
  PROVE  MInv'
<1>1. TypeOK /\ SignUpsNeverStopUpgrades BY DEF MInv
<1>2. TypeOK'
  BY <1>1 DEF TypeOK, Others
<1>3. RevisionIsWhole' /\ CredentialsKept'
  BY DatabaseKept DEF Others
<1>4. \A w \in Writers : WriteOK(w)'
  BY WritersKept DEF Others
<1>5. run'.at # "idle" /\ run'.dir \in {"up", "down"}
  BY DEF Statements
<1>. QED BY <1>1, <1>2, <1>3, <1>4, <1>5 DEF MInv, SignUpsNeverStopUpgrades, Others
LEMMA Running ==
  ASSUME MInv, run.at # "idle"
  PROVE  /\ db \in Database /\ work \in Database
         /\ run \in [at : Statements, dir : {"up", "down"},
                     key : Keys \cup {None}, todo : SUBSET Transactions]
         /\ locked \subseteq {"users", "transactions"}
         /\ AtStatement /\ Beside
         /\ db.schema = SchemaAt(db.version)
         /\ truth \in [Transactions -> {None} \cup Creds]
<1>1. run \in [at : Statements \cup {"idle"}, dir : {"up", "down", "none"},
               key : Keys \cup {None}, todo : SUBSET Transactions]
  BY DEF MInv, TypeOK
<1>. QED BY <1>1 DEF MInv, TypeOK, RevisionIsWhole, WholeView

LEMMA Firsts ==
  ASSUME NEW dir \in {"up", "down"}, NEW v \in 0..4
  PROVE  /\ First(dir, v) \in Statements
         /\ First(dir, v) \notin {"add_tenant_id", "backfill", "not_null", "encrypt", "decrypt"}
         /\ First(dir, v) = "create_auth" => dir = "up" /\ v = 0
         /\ First(dir, v) = "create_verification" => dir = "up" /\ v = 1
         /\ First(dir, v) = "create_tenants" => dir = "up" /\ v = 2
         /\ First(dir, v) = "add_encrypted" => dir = "up" /\ v = 3
         /\ First(dir, v) = "drop_auth" => dir = "down" /\ v = 1
         /\ First(dir, v) = "drop_verification" => dir = "down" /\ v = 2
         /\ First(dir, v) = "drop_tenant_fk" => dir = "down" /\ v = 3
         /\ First(dir, v) = "add_plain" => dir = "down" /\ v = 4
BY DEF First, Statements

(* The last statement of a revision: what the next one, or COMMIT, finds.   *)
LEMMA RevisedKeeps ==
  ASSUME MInv, Others, run.at # "idle",
         NEW view \in Database, Revised(view),
         NEW v \in 0..4, v = IF run.dir = "up" THEN work.version + 1 ELSE work.version - 1,
         locked \subseteq locked', locked' \subseteq {"users", "transactions"},
         \A w \in Writers : writing[w] # None => writing[w].table \notin locked' \ locked,
         view.schema = SchemaAt(v),
         \A u \in Users : view.users[u] # None =>
           (view.users[u].tenant_id = None <=> v < 3),
         \A t \in TransactionRows(view) :
           /\ v # 3 => view.transactions[t].mikrotik = None
           /\ v # 4 => view.transactions[t].mikrotik_enc = None
           /\ Credential(view.transactions[t]) = truth[t],
         "users" \in Unlocked' => v >= 1 /\ (v < 3 <=> db.version < 3),
         "transactions" \notin Unlocked'
  PROVE  MInv'
<1>1. work' = [view EXCEPT !.version = v] /\ work' \in Database
  BY DEF Revised, Database, Head
<1>2. run' \in [at : Statements, dir : {"up", "down"},
               key : Keys \cup {None}, todo : SUBSET Transactions]
  BY Running, Firsts DEF Revised, Statements
<1>3. /\ run'.dir = run.dir
      /\ run'.at = "commit" \/ run'.at = First(run'.dir, work'.version)
  BY Running, <1>1 DEF Revised, Database
<1>4. WholeView(work)' /\ KeptView(work)'
  BY <1>1 DEF WholeView, KeptView, TransactionRows, Database, Others, Credential
<1>5. run'.at \notin {"add_tenant_id", "backfill", "not_null", "encrypt", "decrypt"}
  BY <1>1, <1>3, Running, Firsts DEF Database, Head
<1>6. AtStatement'
  BY <1>2, <1>3, <1>4, <1>5 DEF AtStatement
<1>7. Beside'
  BY <1>1 DEF Beside, Others, Database
<1>. QED BY <1>1, <1>2, <1>6, <1>7, StatementKeeps

-----------------------------------------------------------------------------
(* The statements that create and drop tables *)

LEMMA CreateAuthKeeps == ASSUME MInv, CreateAuth PROVE MInv'
<1>1. run.at # "idle" /\ Others /\ locked' = locked BY DEF CreateAuth, At
<1>2. /\ run.dir = "up" /\ work.version = 0
      /\ WholeView(work) /\ KeptView(work) /\ Beside
  BY <1>1, Running, Firsts DEF CreateAuth, At, AtStatement, Statements, Database, Head
<1> DEFINE view == Adding(TablesOf1)
<1>3. /\ view \in Database /\ Revised(view)
      /\ view.users = work.users /\ view.transactions = work.transactions
      /\ view.schema = SchemaAt(1)
  BY <1>1, <1>2, Running, Steps, Objects DEF CreateAuth, Adding, Database, WholeView
<1>4. Unlocked' = Unlocked BY <1>1 DEF Unlocked, Others
<1>5. "users" \notin Unlocked BY <1>2 DEF Beside
<1>6. "transactions" \notin Unlocked
  BY <1>1, <1>2, Running, Tables DEF Beside, Unlocked
<1>7. TransactionRows(view) = TransactionRows(work) BY <1>3 DEF TransactionRows
<1> HIDE DEF view
<1>. QED
  BY <1>1, <1>2, <1>3, <1>4, <1>5, <1>6, <1>7, Running, RevisedKeeps
  DEF WholeView, KeptView

(* A statement that locks the users table before it changes a revision.     *)
LEMMA LockUsers ==
  ASSUME MInv, LockTable("users")
  PROVE  /\ locked \subseteq locked' /\ locked' \subseteq {"users", "transactions"}
         /\ "users" \in locked'
         /\ \A w \in Writers : writing[w] # None => writing[w].table \notin locked' \ locked
BY DEF LockTable, Free, MInv, TypeOK

LEMMA CreateVerificationKeeps == ASSUME MInv, CreateVerification PROVE MInv'
<1>1. run.at # "idle" /\ Others BY DEF CreateVerification, At
<1>2. /\ run.dir = "up" /\ work.version = 1
      /\ WholeView(work) /\ KeptView(work) /\ Beside
  BY <1>1, Running, Firsts DEF CreateVerification, At, AtStatement, Statements, Database, Head
<1> DEFINE view == Adding(TablesOf2)
<1>3. /\ view \in Database /\ Revised(view)
      /\ view.users = work.users /\ view.transactions = work.transactions
      /\ view.schema = SchemaAt(2)
  BY <1>1, <1>2, Running, Steps, Objects DEF CreateVerification, Adding, Database, WholeView
<1>5. "users" \notin Unlocked' BY LockUsers DEF CreateVerification, Unlocked
<1>6. "transactions" \notin Unlocked'
  <2>1. "transactions" \notin Unlocked BY <1>1, <1>2, Running, Tables DEF Beside, Unlocked
  <2>. QED BY <2>1, <1>1, LockUsers DEF CreateVerification, Unlocked, Others
<1>7. TransactionRows(view) = TransactionRows(work) BY <1>3 DEF TransactionRows
<1>8. LockTable("users") BY DEF CreateVerification
<1> HIDE DEF view
<1>. QED
  BY <1>1, <1>2, <1>3, <1>5, <1>6, <1>7, <1>8, LockUsers, Running, RevisedKeeps
  DEF WholeView, KeptView

LEMMA DropVerificationKeeps == ASSUME MInv, DropVerification PROVE MInv'
<1>1. run.at # "idle" /\ Others BY DEF DropVerification, At
<1>2. /\ run.dir = "down" /\ work.version = 2
      /\ WholeView(work) /\ KeptView(work) /\ Beside
  BY <1>1, Running, Firsts DEF DropVerification, At, AtStatement, Statements, Database, Head
<1> DEFINE view == Without(TablesOf2)
<1>3. /\ view \in Database /\ Revised(view)
      /\ view.users = work.users /\ view.transactions = work.transactions
      /\ view.schema = SchemaAt(1)
  BY <1>1, <1>2, Running, Steps, Objects DEF DropVerification, Without, Database, WholeView
<1>5. "users" \notin Unlocked' BY LockUsers DEF DropVerification, Unlocked
<1>6. "transactions" \notin Unlocked'
  <2>1. "transactions" \notin Unlocked BY <1>1, <1>2, Running, Tables DEF Beside, Unlocked, Database
  <2>. QED BY <2>1, <1>1, LockUsers DEF DropVerification, Unlocked, Others
<1>7. TransactionRows(view) = TransactionRows(work) BY <1>3 DEF TransactionRows
<1>8. LockTable("users") BY DEF DropVerification
<1> HIDE DEF view
<1>. QED
  BY <1>1, <1>2, <1>3, <1>5, <1>6, <1>7, <1>8, LockUsers, Running, RevisedKeeps
  DEF WholeView, KeptView

LEMMA DropAuthKeeps == ASSUME MInv, DropAuth PROVE MInv'
<1>1. run.at # "idle" /\ Others BY DEF DropAuth, At
<1>2. /\ run.dir = "down" /\ work.version = 1
      /\ WholeView(work) /\ KeptView(work) /\ Beside
  BY <1>1, Running, Firsts DEF DropAuth, At, AtStatement, Statements, Database, Head
<1> DEFINE view == [Without(TablesOf1) EXCEPT !.users = [u \in Users |-> None]]
<1>3. /\ view \in Database /\ Revised(view)
      /\ \A u \in Users : view.users[u] = None
      /\ view.transactions = work.transactions
      /\ view.schema = SchemaAt(0)
  BY <1>1, <1>2, Running, Steps, Objects DEF DropAuth, Without, Database, WholeView
<1>5. "users" \notin Unlocked' BY LockUsers DEF DropAuth, Unlocked
<1>6. "transactions" \notin Unlocked'
  <2>1. "transactions" \notin Unlocked BY <1>1, <1>2, Running, Tables DEF Beside, Unlocked, Database
  <2>. QED BY <2>1, <1>1, LockUsers DEF DropAuth, Unlocked, Others
<1>7. TransactionRows(view) = TransactionRows(work) BY <1>3 DEF TransactionRows
<1>8. LockTable("users") BY DEF DropAuth
<1> HIDE DEF view
<1>. QED
  BY <1>1, <1>2, <1>3, <1>5, <1>6, <1>7, <1>8, LockUsers, Running, RevisedKeeps
  DEF WholeView, KeptView

-----------------------------------------------------------------------------
(* Tenants *)

LEMMA CreateTenantsKeeps == ASSUME MInv, CreateTenants PROVE MInv'
<1>1. run.at # "idle" /\ Others /\ locked' = locked BY DEF CreateTenants, At
<1>2. /\ run.dir = "up" /\ work.version = 2
      /\ WholeView(work) /\ KeptView(work) /\ Beside
  BY <1>1, Running, Firsts DEF CreateTenants, At, AtStatement, Statements, Database, Head
<1>3. /\ work' \in Database /\ work'.version = 2
      /\ work'.users = work.users /\ work'.transactions = work.transactions
      /\ work'.schema \cup TenantColumn = SchemaAt(3)
  BY <1>1, <1>2, Running, Steps, Objects DEF CreateTenants, Adding, Database, WholeView
<1>4. run' = [run EXCEPT !.at = "add_tenant_id"] BY DEF CreateTenants, Then
<1>5. run' \in [at : Statements, dir : {"up", "down"},
               key : Keys \cup {None}, todo : SUBSET Transactions]
  BY <1>1, <1>4, Running DEF Statements
<1>6. run'.at = "add_tenant_id" /\ run'.dir = "up" BY <1>1, <1>2, <1>4, Running
<1>7. \A t \in TransactionRows(work)' :
        /\ work'.transactions[t].mikrotik_enc = None
        /\ Credential(work'.transactions[t]) = truth'[t]
  BY <1>1, <1>2, <1>3 DEF WholeView, KeptView, TransactionRows, Others
<1>8. AtStatement'
  BY <1>2, <1>3, <1>6, <1>7 DEF AtStatement, WholeView, KeptView
<1>9. Beside'
  <2>1. "transactions" \notin Unlocked
    BY <1>1, <1>2, Running, Tables DEF Beside, Unlocked, CreateTenants, At, Database
  <2>. QED BY <1>1, <1>2, <1>3, <2>1 DEF Beside, Unlocked, Others
<1>. QED BY <1>1, <1>3, <1>5, <1>8, <1>9, Running, StatementKeeps

(* The three statements about users.tenant_id: what they share.             *)
LEMMA Tenanting ==
  ASSUME MInv, run.at \in {"add_tenant_id", "backfill", "not_null"}
  PROVE  /\ run.dir = "up" /\ work.version = 2
         /\ \A t \in TransactionRows(work) :
              /\ work.transactions[t].mikrotik_enc = None
              /\ Credential(work.transactions[t]) = truth[t]
         /\ \A u \in Users : work.users[u] # None =>
              (work.users[u].tenant_id = None <=> run.at # "not_null")
         /\ work.schema \cup TenantColumn = SchemaAt(3)
         /\ run.at \in {"backfill", "not_null"} => "users" \in locked
         /\ "transactions" \notin Unlocked
<1>1. AtStatement /\ Beside /\ run.at # "idle" BY Running
<1>2. run.dir = "up" /\ work.version = 2 BY <1>1 DEF AtStatement
<1>3. "transactions" \notin Unlocked
  <2>1. First("up", 2) = "create_tenants" BY DEF First
  <2>. QED BY <1>1, <1>2, <2>1 DEF Beside
<1>. QED BY <1>1, <1>2, <1>3 DEF AtStatement, KeptView

LEMMA AddTenantIdKeeps == ASSUME MInv, AddTenantId PROVE MInv'
<1>1. run.at = "add_tenant_id" /\ Others /\ LockTable("users") BY DEF AddTenantId, At
<1>2. /\ work' \in Database /\ work'.version = 2
      /\ work'.users = work.users /\ work'.transactions = work.transactions
      /\ work'.schema \cup TenantColumn = SchemaAt(3)
  BY <1>1, Running, Tenanting, Objects DEF AddTenantId, Adding, Database, TenantColumn
<1>3. run' = [run EXCEPT !.at = "backfill"] BY DEF AddTenantId, Then
<1>4. /\ run' \in [at : Statements, dir : {"up", "down"},
                  key : Keys \cup {None}, todo : SUBSET Transactions]
      /\ run'.at = "backfill" /\ run'.dir = "up"
  BY <1>1, <1>3, Running, Tenanting DEF Statements
<1>5. AtStatement'
  BY <1>1, <1>2, <1>4, LockUsers, Tenanting
  DEF AtStatement, WholeView, KeptView, TransactionRows, Others, Credential
<1>6. Beside'
  BY <1>1, LockUsers, Tenanting DEF Beside, Unlocked, Others
<1>. QED BY <1>1, <1>2, <1>4, <1>5, <1>6, LockUsers, Running, StatementKeeps

LEMMA BackfillKeeps == ASSUME MInv, Backfill PROVE MInv'
<1>1. run.at = "backfill" /\ Others /\ locked' = locked BY DEF Backfill, At
<1>2. /\ work' \in Database /\ work'.version = 2
      /\ work'.transactions = work.transactions /\ work'.schema = work.schema
      /\ \A u \in Users : work'.users[u] = Tenanted(work.users[u])
  BY <1>1, Running, Tenanting DEF Backfill, Database, Tenanted, UserRow
<1>3. run' = [run EXCEPT !.at = "not_null"] BY DEF Backfill, Then
<1>4. /\ run' \in [at : Statements, dir : {"up", "down"},
                  key : Keys \cup {None}, todo : SUBSET Transactions]
      /\ run'.at = "not_null" /\ run'.dir = "up"
  BY <1>1, <1>3, Running, Tenanting DEF Statements
<1>5. \A u \in Users : work'.users[u] # None => work'.users[u].tenant_id # None
  BY <1>2 DEF Tenanted
<1>6. AtStatement'
  BY <1>1, <1>2, <1>4, <1>5, Tenanting
  DEF AtStatement, WholeView, KeptView, TransactionRows, Others, Credential
<1>7. Beside'
  BY <1>1, Tenanting DEF Beside, Unlocked, Others
<1>. QED BY <1>1, <1>2, <1>4, <1>6, <1>7, Running, StatementKeeps

(* The backfill has reached every user, those who signed up while the       *)
(* upgrade waited for the table included.                                   *)
LEMMA NobodyUntenanted == ASSUME MInv, At("not_null") PROVE Untenanted = {}
BY Tenanting DEF At, Untenanted

LEMMA SetNotNullKeeps == ASSUME MInv, SetNotNull PROVE MInv'
<1>1. run.at = "not_null" /\ Others /\ locked' = locked
  BY NobodyUntenanted DEF SetNotNull, At
<1> DEFINE view == Adding(TenantColumn)
<1>2. /\ view \in Database /\ Revised(view)
      /\ view.users = work.users /\ view.transactions = work.transactions
      /\ view.schema = SchemaAt(3)
  BY <1>1, NobodyUntenanted, Running, Tenanting, Objects
  DEF SetNotNull, Adding, Database
<1>3. "users" \notin Unlocked' /\ "transactions" \notin Unlocked'
  BY <1>1, Tenanting DEF Unlocked, Others
<1>4. TransactionRows(view) = TransactionRows(work) BY <1>2 DEF TransactionRows
<1>5. \A t \in TransactionRows(view) :
        /\ view.transactions[t].mikrotik_enc = None
        /\ Credential(view.transactions[t]) = truth[t]
  BY <1>1, <1>2, <1>4, Tenanting
<1> HIDE DEF view
<1>. QED
  BY <1>1, <1>2, <1>3, <1>5, Running, Tenanting, RevisedKeeps

-----------------------------------------------------------------------------
(* Credentials *)

LEMMA LockTransactions ==
  ASSUME MInv, LockTable("transactions")
  PROVE  /\ locked \subseteq locked' /\ locked' \subseteq {"users", "transactions"}
         /\ "transactions" \in locked'
         /\ \A w \in Writers : writing[w] # None => writing[w].table \notin locked' \ locked
BY DEF LockTable, Free, MInv, TypeOK

(* What a batch finds, and what the rows beside it hold.                    *)
LEMMA Batching ==
  ASSUME MInv, run.at \in {"encrypt", "decrypt"}
  PROVE  /\ run.at = "encrypt" => run.dir = "up" /\ work.version = 3
         /\ run.at = "decrypt" => run.dir = "down" /\ work.version = 4
         /\ "transactions" \in locked
         /\ work.schema = SchemaAt(work.version) \cup {Plain, Enc}
         /\ \A u \in Users : work.users[u] # None => work.users[u].tenant_id # None
         /\ run.todo \subseteq TransactionRows(work)
         /\ \A t \in TransactionRows(work) :
              LET row == work.transactions[t] IN
              /\ run.at = "encrypt" \/ t \notin run.todo => row.mikrotik = truth[t]
              /\ run.at = "decrypt" \/ t \notin run.todo =>
                   truth[t] = IF row.mikrotik_enc = None THEN None
                              ELSE row.mikrotik_enc.value
         /\ Beside
BY Running DEF AtStatement

LEMMA AddEncryptedKeeps == ASSUME MInv, AddEncrypted PROVE MInv'
<1>1. run.at = "add_encrypted" /\ Others /\ LockTable("transactions")
  BY DEF AddEncrypted, At
<1>2. /\ run.dir = "up" /\ work.version = 3
      /\ WholeView(work) /\ KeptView(work) /\ Beside
  BY <1>1, Running, Firsts DEF AtStatement, Statements, Database, Head
<1>3. /\ work' \in Database /\ work'.version = 3
      /\ work'.users = work.users /\ work'.transactions = work.transactions
      /\ work'.schema = SchemaAt(3) \cup {Plain, Enc}
  BY <1>1, <1>2, Running, Steps, Objects DEF AddEncrypted, Adding, Database, WholeView
<1>4. run' = [run EXCEPT !.at = "encrypt", !.todo = TransactionRows(work)]
  BY DEF AddEncrypted
<1>5. /\ run' \in [at : Statements, dir : {"up", "down"},
                  key : Keys \cup {None}, todo : SUBSET Transactions]
      /\ run'.at = "encrypt" /\ run'.dir = "up" /\ run'.todo = TransactionRows(work)
  BY <1>1, <1>2, <1>4, Running DEF Statements, TransactionRows
<1>6. TransactionRows(work)' = TransactionRows(work) BY <1>3 DEF TransactionRows
<1>7. \A t \in TransactionRows(work) : work.transactions[t].mikrotik = truth[t]
  BY <1>2 DEF WholeView, KeptView, Credential
<1>8. \A u \in Users : work.users[u] # None => work.users[u].tenant_id # None
  BY <1>2 DEF WholeView
<1>9. AtStatement'
  BY <1>1, <1>3, <1>5, <1>6, <1>7, <1>8, LockTransactions
  DEF AtStatement, Others
<1>10. Beside'
  <2>1. "transactions" \notin Unlocked' BY <1>1, LockTransactions DEF Unlocked
  <2>2. "users" \in Unlocked' => "users" \in Unlocked
    BY <1>1, LockTransactions DEF Unlocked, Others
  <2>. QED BY <2>1, <2>2, <1>1, <1>2, <1>3 DEF Beside, Others
<1>. QED BY <1>1, <1>3, <1>5, <1>9, <1>10, LockTransactions, Running, StatementKeeps

LEMMA EncryptKeeps == ASSUME MInv, NEW b \in Batches, Encrypt(b) PROVE MInv'
<1>1. run.at = "encrypt" /\ Others /\ locked' = locked BY DEF Encrypt, At
<1>2. b \subseteq run.todo BY DEF Batches, kSubset
<1>3. /\ work'.version = 3 /\ work'.schema = work.schema /\ work'.users = work.users
      /\ \A t \in Transactions : work'.transactions[t] =
           IF t \in b THEN EncryptedRow(work.transactions[t]) ELSE work.transactions[t]
      /\ work' = [work EXCEPT !.transactions = work'.transactions]
      /\ DOMAIN work'.transactions = Transactions
  BY <1>1, Running, Batching DEF Encrypt, EncryptBatch, Database
<1>4. \A t \in b :
        LET row == work.transactions[t] IN
        /\ row \in TransactionRow
        /\ row.mikrotik # None => run.key \in Keys
  BY <1>1, <1>2, Running, Batching DEF Encrypt, NeedsKey, Database, TransactionRows
<1>5. \A t \in b :
        LET row == work.transactions[t] IN
        /\ EncryptedRow(row) \in TransactionRow
        /\ EncryptedRow(row).mikrotik = row.mikrotik
        /\ EncryptedRow(row).mikrotik_enc = encrypt_value(row.mikrotik, run.key)
        /\ row.mikrotik = IF EncryptedRow(row).mikrotik_enc = None THEN None
                          ELSE EncryptedRow(row).mikrotik_enc.value
  BY <1>4 DEF EncryptedRow, encrypt_value, TransactionRow, Encrypted
<1>6. work' \in Database
  <2>1. \A t \in Transactions : work'.transactions[t] \in {None} \cup TransactionRow
    BY <1>1, <1>3, <1>5, Running DEF Database
  <2>2. work'.transactions \in [Transactions -> {None} \cup TransactionRow]
    <3>1. work'.transactions = [t \in Transactions |->
            IF t \in b THEN EncryptedRow(work.transactions[t]) ELSE work.transactions[t]]
      BY <1>1, Running DEF Encrypt, EncryptBatch, Database
    <3>. QED BY <2>1, <3>1
  <2>. QED BY <2>2, <1>1, <1>3, Running DEF Database
<1>7. run' = [run EXCEPT !.todo = run.todo \ b] BY DEF Encrypt
<1>8. /\ run' \in [at : Statements, dir : {"up", "down"},
                  key : Keys \cup {None}, todo : SUBSET Transactions]
      /\ run'.at = "encrypt" /\ run'.dir = "up" /\ run'.todo = run.todo \ b
  BY <1>1, <1>7, Running, Batching
<1>9. \A t \in TransactionRows(work)' :
        LET row == work'.transactions[t] IN
        /\ row.mikrotik = truth[t]
        /\ t \notin run.todo \ b =>
             truth[t] = IF row.mikrotik_enc = None THEN None ELSE row.mikrotik_enc.value
  <2>. SUFFICES ASSUME NEW t \in TransactionRows(work)'
       PROVE  LET row == work'.transactions[t] IN
              /\ row.mikrotik = truth[t]
              /\ t \notin run.todo \ b =>
                   truth[t] = IF row.mikrotik_enc = None THEN None ELSE row.mikrotik_enc.value
    OBVIOUS
  <2>1. t \in Transactions BY DEF TransactionRows
  <2>2. CASE t \in b
    <3>1. t \in TransactionRows(work) BY <1>1, <1>2, <2>2, Batching
    <3>. QED BY <1>1, <1>3, <1>5, <2>1, <2>2, <3>1, Batching
  <2>3. CASE t \notin b
    <3>1. t \in TransactionRows(work) BY <1>3, <2>1, <2>3 DEF TransactionRows
    <3>. QED BY <1>1, <1>3, <2>1, <2>3, <3>1, Batching
  <2>. QED BY <2>2, <2>3
<1>10. run.todo \ b \subseteq TransactionRows(work)'
  BY <1>1, <1>3, Batching DEF TransactionRows
<1>11. AtStatement'
  BY <1>1, <1>3, <1>8, <1>9, <1>10, Batching DEF AtStatement, Others
<1>12. Beside'
  <2>1. Unlocked' = Unlocked /\ "transactions" \notin Unlocked
    BY <1>1, Batching DEF Unlocked, Others
  <2>. QED BY <2>1, <1>1, <1>3, Batching DEF Beside, Others
<1>. QED BY <1>1, <1>6, <1>8, <1>11, <1>12, Running, StatementKeeps

LEMMA DropPlainKeeps == ASSUME MInv, DropPlain PROVE MInv'
<1>1. run.at = "encrypt" /\ Others /\ locked' = locked /\ run.todo = {}
  BY DEF DropPlain, At
<1> DEFINE rows == [t \in Transactions |->
                     IF work.transactions[t] = None THEN None
                     ELSE [work.transactions[t] EXCEPT !.mikrotik = None]]
           view == [work EXCEPT !.schema = (work.schema \ {Plain}) \cup RestrictKeys,
                                !.transactions = rows]
<1>2. Revised(view) BY DEF DropPlain
<1>3. /\ view.version = 3 /\ view.users = work.users /\ view.transactions = rows
      /\ view.schema = SchemaAt(4)
  BY <1>1, Running, Batching, Steps DEF Database
<1>4. \A t \in Transactions : work.transactions[t] # None =>
        /\ rows[t] \in TransactionRow
        /\ rows[t].mikrotik = None
        /\ rows[t].mikrotik_enc = work.transactions[t].mikrotik_enc
  BY <1>1, Running DEF Database, TransactionRow
<1>5. view \in Database
  <2>1. rows \in [Transactions -> {None} \cup TransactionRow] BY <1>4
  <2>2. view.schema \in SUBSET SchemaObjects BY <1>3, Tables
  <2>. QED BY <2>1, <2>2, <1>1, Running DEF Database
<1>6. \A t \in TransactionRows(view) :
        /\ view.transactions[t].mikrotik = None
        /\ Credential(view.transactions[t]) = truth[t]
  <2>1. TransactionRows(view) \subseteq TransactionRows(work)
    BY <1>3 DEF TransactionRows
  <2>. QED BY <2>1, <1>1, <1>3, <1>4, Batching DEF TransactionRows, Credential
<1>7. "transactions" \notin Unlocked' /\ ("users" \in Unlocked' => db.version >= 3)
  BY <1>1, Running, Batching DEF Unlocked, Others, Beside, Database
<1>8. \A u \in Users : view.users[u] # None => view.users[u].tenant_id # None
  BY <1>1, <1>3, Batching
<1> HIDE DEF view, rows
<1>. QED
  BY <1>1, <1>2, <1>3, <1>5, <1>6, <1>7, <1>8, Running, Batching, RevisedKeeps
  DEF Database

LEMMA AddPlainKeeps == ASSUME MInv, AddPlain PROVE MInv'
<1>1. run.at = "add_plain" /\ Others /\ LockTable("transactions")
  BY DEF AddPlain, At
<1>2. /\ run.dir = "down" /\ work.version = 4
      /\ WholeView(work) /\ KeptView(work) /\ Beside
  BY <1>1, Running, Firsts DEF AtStatement, Statements, Database, Head
<1>3. /\ work' \in Database /\ work'.version = 4
      /\ work'.users = work.users /\ work'.transactions = work.transactions
      /\ work'.schema = SchemaAt(4) \cup {Plain, Enc}
  BY <1>1, <1>2, Running, Steps, Objects DEF AddPlain, Adding, Database, WholeView
<1>4. run' = [run EXCEPT !.at = "decrypt", !.todo = TransactionRows(work)]
  BY DEF AddPlain
<1>5. /\ run' \in [at : Statements, dir : {"up", "down"},
                  key : Keys \cup {None}, todo : SUBSET Transactions]
      /\ run'.at = "decrypt" /\ run'.dir = "down" /\ run'.todo = TransactionRows(work)
  BY <1>1, <1>2, <1>4, Running DEF Statements, TransactionRows
<1>6. TransactionRows(work)' = TransactionRows(work) BY <1>3 DEF TransactionRows
<1>7. \A t \in TransactionRows(work) :
        LET row == work.transactions[t] IN
        truth[t] = IF row.mikrotik_enc = None THEN None ELSE row.mikrotik_enc.value
  BY <1>2 DEF WholeView, KeptView, Credential
<1>8. \A u \in Users : work.users[u] # None => work.users[u].tenant_id # None
  BY <1>2 DEF WholeView
<1>9. AtStatement'
  BY <1>1, <1>3, <1>5, <1>6, <1>7, <1>8, LockTransactions
  DEF AtStatement, Others
<1>10. Beside'
  <2>1. "transactions" \notin Unlocked' BY <1>1, LockTransactions DEF Unlocked
  <2>2. "users" \in Unlocked' => "users" \in Unlocked
    BY <1>1, LockTransactions DEF Unlocked, Others
  <2>. QED BY <2>1, <2>2, <1>1, <1>2, <1>3 DEF Beside, Others
<1>. QED BY <1>1, <1>3, <1>5, <1>9, <1>10, LockTransactions, Running, StatementKeeps

LEMMA DecryptKeeps == ASSUME MInv, NEW b \in Batches, Decrypt(b) PROVE MInv'
<1>1. run.at = "decrypt" /\ Others /\ locked' = locked BY DEF Decrypt, At
<1>2. b \subseteq run.todo BY DEF Batches, kSubset
<1> DEFINE rows == [t \in Transactions |->
                     IF t \in b THEN [work.transactions[t] EXCEPT !.mikrotik = Decrypted(t)]
                     ELSE work.transactions[t]]
<1>3. work' = [work EXCEPT !.transactions = rows] BY DEF Decrypt, DecryptBatch
<1>4. /\ work'.version = 4 /\ work'.schema = work.schema /\ work'.users = work.users
      /\ work'.transactions = rows
  BY <1>1, <1>3, Running, Batching DEF Database
<1>5. \A t \in b :
        LET row == work.transactions[t] IN
        /\ t \in Transactions /\ row \in TransactionRow
        /\ Decrypted(t) = IF row.mikrotik_enc = None THEN None ELSE row.mikrotik_enc.value
        /\ Decrypted(t) = truth[t]
        /\ rows[t] \in TransactionRow
        /\ rows[t].mikrotik = truth[t]
        /\ rows[t].mikrotik_enc = row.mikrotik_enc
  <2>. SUFFICES ASSUME NEW t \in b
       PROVE  LET row == work.transactions[t] IN
              /\ t \in Transactions /\ row \in TransactionRow
              /\ Decrypted(t) = IF row.mikrotik_enc = None THEN None ELSE row.mikrotik_enc.value
              /\ Decrypted(t) = truth[t]
              /\ rows[t] \in TransactionRow
              /\ rows[t].mikrotik = truth[t]
              /\ rows[t].mikrotik_enc = row.mikrotik_enc
    OBVIOUS
  <2>1. /\ t \in TransactionRows(work) /\ t \in Transactions
        /\ work.transactions[t] \in TransactionRow
    BY <1>1, <1>2, Running, Batching DEF Database, TransactionRows
  <2>2. Decrypted(t) \notin Errors BY DEF Decrypt, Readable
  <2>3. Decrypted(t) = IF work.transactions[t].mikrotik_enc = None THEN None
                       ELSE work.transactions[t].mikrotik_enc.value
    BY <2>2 DEF Decrypted, decrypt_value, Errors
  <2>4. Decrypted(t) = truth[t] BY <2>1, <2>3, <1>1, Batching
  <2>5. truth[t] \in {None} \cup Creds BY <2>1, <1>1, Running
  <2>. QED BY <2>1, <2>3, <2>4, <2>5 DEF TransactionRow
<1>6. work' \in Database
  <2>1. \A t \in Transactions : rows[t] \in {None} \cup TransactionRow
    BY <1>1, <1>5, Running DEF Database
  <2>2. rows \in [Transactions -> {None} \cup TransactionRow] BY <2>1
  <2>. QED BY <2>2, <1>1, <1>3, Running DEF Database
<1>7. run' = [run EXCEPT !.todo = run.todo \ b] BY DEF Decrypt
<1>8. /\ run' \in [at : Statements, dir : {"up", "down"},
                  key : Keys \cup {None}, todo : SUBSET Transactions]
      /\ run'.at = "decrypt" /\ run'.dir = "down" /\ run'.todo = run.todo \ b
  BY <1>1, <1>7, Running, Batching
<1>9. \A t \in TransactionRows(work)' :
        LET row == work'.transactions[t] IN
        /\ t \notin run.todo \ b => row.mikrotik = truth[t]
        /\ truth[t] = IF row.mikrotik_enc = None THEN None ELSE row.mikrotik_enc.value
  <2>. SUFFICES ASSUME NEW t \in TransactionRows(work)'
       PROVE  LET row == work'.transactions[t] IN
              /\ t \notin run.todo \ b => row.mikrotik = truth[t]
              /\ truth[t] = IF row.mikrotik_enc = None THEN None ELSE row.mikrotik_enc.value
    OBVIOUS
  <2>1. t \in Transactions BY DEF TransactionRows
  <2>2. CASE t \in b
    <3>1. /\ work'.transactions[t].mikrotik = truth[t]
          /\ work'.transactions[t].mikrotik_enc = work.transactions[t].mikrotik_enc
      BY <1>4, <1>5, <2>2
    <3>2. t \in TransactionRows(work) BY <1>1, <1>2, <2>2, Batching
    <3>3. truth[t] = IF work.transactions[t].mikrotik_enc = None THEN None
                     ELSE work.transactions[t].mikrotik_enc.value
      BY <1>1, <3>2, Batching
    <3>. QED BY <3>1, <3>3
  <2>3. CASE t \notin b
    <3>1. t \in TransactionRows(work) BY <1>4, <2>1, <2>3 DEF TransactionRows
    <3>. QED BY <1>1, <1>4, <2>1, <2>3, <3>1, Batching
  <2>. QED BY <2>2, <2>3
<1>10. run.todo \ b \subseteq TransactionRows(work)'
  BY <1>1, <1>4, Batching DEF TransactionRows
<1> HIDE DEF rows
<1>11. AtStatement'
  BY <1>1, <1>4, <1>8, <1>9, <1>10, Batching DEF AtStatement, Others
<1>12. Beside'
  <2>1. Unlocked' = Unlocked /\ "transactions" \notin Unlocked
    BY <1>1, Batching DEF Unlocked, Others
  <2>. QED BY <2>1, <1>1, <1>4, Batching DEF Beside, Others
<1>. QED BY <1>1, <1>6, <1>8, <1>11, <1>12, Running, StatementKeeps

LEMMA DropEncryptedKeeps == ASSUME MInv, DropEncrypted PROVE MInv'
<1>1. run.at = "decrypt" /\ Others /\ locked' = locked /\ run.todo = {}
  BY DEF DropEncrypted, At
<1> DEFINE rows == [t \in Transactions |->
                     IF work.transactions[t] = None THEN None
                     ELSE [work.transactions[t] EXCEPT !.mikrotik_enc = None]]
           view == [work EXCEPT !.schema = work.schema \ ({Enc} \cup RestrictKeys),
                                !.transactions = rows]
<1>2. Revised(view) BY DEF DropEncrypted
<1>3. /\ view.version = 4 /\ view.users = work.users /\ view.transactions = rows
      /\ view.schema = SchemaAt(3)
  BY <1>1, Running, Batching, Steps DEF Database
<1>4. \A t \in Transactions : work.transactions[t] # None =>
        /\ rows[t] \in TransactionRow
        /\ rows[t].mikrotik_enc = None
        /\ rows[t].mikrotik = work.transactions[t].mikrotik
  BY <1>1, Running DEF Database, TransactionRow
<1>5. view \in Database
  <2>1. rows \in [Transactions -> {None} \cup TransactionRow] BY <1>4
  <2>2. view.schema \in SUBSET SchemaObjects BY <1>3, Tables
  <2>. QED BY <2>1, <2>2, <1>1, Running DEF Database
<1>6. \A t \in TransactionRows(view) :
        /\ view.transactions[t].mikrotik_enc = None
        /\ Credential(view.transactions[t]) = truth[t]
  <2>1. TransactionRows(view) \subseteq TransactionRows(work)
    BY <1>3 DEF TransactionRows
  <2>. QED BY <2>1, <1>1, <1>3, <1>4, Batching DEF TransactionRows, Credential
<1>7. "transactions" \notin Unlocked' /\ ("users" \in Unlocked' => db.version >= 3)
  BY <1>1, Running, Batching DEF Unlocked, Others, Beside, Database, Head
<1>8. \A u \in Users : view.users[u] # None => view.users[u].tenant_id # None
  BY <1>1, <1>3, Batching
<1> HIDE DEF view, rows
<1>. QED
  BY <1>1, <1>2, <1>3, <1>5, <1>6, <1>7, <1>8, Running, Batching, RevisedKeeps
  DEF Database, Head

LEMMA RefusalKeeps ==
  ASSUME MInv,
         \/ Interrupt
         \/ DropTenantForeignKey
         \/ \E b \in Batches : RefuseEncrypt(b) \/ RefuseDecrypt(b)
  PROVE  MInv'
<1>1. \E why \in Outcomes \ {"null_tenant"} : Rollback(why)
  BY DEF Interrupt, DropTenantForeignKey, RefuseEncrypt, RefuseDecrypt, Outcomes
<1>. QED BY <1>1, RollbackKeeps

-----------------------------------------------------------------------------
(* The two ends of a command *)

LEMMA StartKeeps ==
  ASSUME MInv, NEW dir \in {"up", "down"}, NEW key \in Keys \cup {None}, Start(dir, key)
  PROVE  MInv'
<1>1. /\ TypeOK /\ RevisionIsWhole /\ CredentialsKept /\ SignUpsNeverStopUpgrades
      /\ locked = {} /\ work' = db /\ db.version \in 0..4
      /\ UNCHANGED <<db, locked, writing, outcome, truth>>
  BY DEF MInv, Start, Idle, TypeOK, Database, Head
<1>2. /\ run' \in [at : Statements, dir : {"up", "down"},
                  key : Keys \cup {None}, todo : SUBSET Transactions]
      /\ run'.at = First(run'.dir, work'.version)
      /\ run'.at \notin {"add_tenant_id", "backfill", "not_null", "encrypt", "decrypt"}
  BY <1>1, Firsts DEF Start
<1>3. TypeOK' BY <1>1, <1>2 DEF TypeOK
<1>4. RevisionIsWhole' /\ CredentialsKept' BY <1>1, DatabaseKept
<1>5. WholeView(work)' /\ KeptView(work)'
  BY <1>1, <1>4 DEF RevisionIsWhole, CredentialsKept, WholeView, KeptView, TransactionRows,
     Credential
<1>6. AtStatement' BY <1>2, <1>5 DEF AtStatement
<1>7. Beside'
  BY <1>1, <1>2, Tables DEF Beside, Unlocked, RevisionIsWhole, WholeView
<1>8. \A w \in Writers : WriteOK(w)' BY <1>1, WritersKept
<1>9. run'.at # "idle" /\ run'.dir \in {"up", "down"} /\ work' \in Database
  BY <1>1, <1>2 DEF Statements, TypeOK
<1>. QED BY <1>1, <1>3, <1>4, <1>6, <1>7, <1>8, <1>9 DEF MInv, SignUpsNeverStopUpgrades

LEMMA CommitKeeps == ASSUME MInv, Commit PROVE MInv'
<1>1. run.at = "commit" /\ run.at # "idle" BY DEF Commit, At
<1>2. /\ work \in Database /\ WholeView(work) /\ KeptView(work) /\ Beside
      /\ db \in Database /\ db.schema = SchemaAt(db.version)
  BY <1>1, Running DEF AtStatement, Statements
<1>3. TypeOK /\ \A w \in Writers : WriteOK(w) BY DEF MInv
<1>4. TypeOK' BY <1>2, <1>3 DEF TypeOK, Commit, Idle, Outcomes
<1>5. RevisionIsWhole' /\ CredentialsKept'
  BY <1>2 DEF Commit, RevisionIsWhole, CredentialsKept, WholeView, KeptView,
     TransactionRows, Credential
<1>6. \A w \in Writers : WriteOK(w)'
  <2>. SUFFICES ASSUME NEW w \in Writers, writing[w] # None PROVE WriteOK(w)'
    BY DEF WriteOK, Commit
  <2>1. db' = work /\ locked' = {} /\ writing' = writing BY DEF Commit
  <2>2. WriteOK(w) /\ writing[w].table \in {"users", "transactions"}
    BY <1>3 DEF TypeOK
  <2>3. CASE writing[w].table = "users"
    <3>1. "users" \in work.schema /\ (work.version < 3 <=> db.version < 3)
      BY <1>2, <2>2, <2>3, Tables DEF WriteOK, Beside, WholeView, Database, Head
    <3>. QED BY <2>1, <2>2, <2>3, <3>1 DEF WriteOK, Unlocked
  <2>4. CASE writing[w].table = "transactions"
    <3>1. work.version = db.version BY <1>2, <2>2, <2>4 DEF WriteOK, Beside
    <3>2. work.schema = db.schema BY <1>2, <3>1 DEF WholeView
    <3>. QED BY <2>1, <2>2, <2>4, <3>1, <3>2 DEF WriteOK, Unlocked
  <2>. QED BY <2>2, <2>3, <2>4
<1>. QED
  BY <1>4, <1>5, <1>6 DEF MInv, SignUpsNeverStopUpgrades, Commit, Idle

-----------------------------------------------------------------------------
(* What writes meanwhile *)

LEMMA BesideWrites ==
  ASSUME MInv, UNCHANGED <<db, work, run, locked, outcome, truth>>,
         writing' \in [Writers -> {None}
           \cup [table : {"users"}, id : Users, row : UserRow]
           \cup [table : {"transactions"}, id : Transactions, row : TransactionRow]],
         \A w \in Writers : WriteOK(w)'
  PROVE  MInv'
<1>1. TypeOK' BY DEF MInv, TypeOK
<1>2. RevisionIsWhole' /\ CredentialsKept' BY DatabaseKept
<1>3. run.at # "idle" => AtStatement' /\ Beside'
  BY DEF MInv, AtStatement, Beside, Unlocked, WholeView, KeptView, TransactionRows,
     Credential
<1>. QED BY <1>1, <1>2, <1>3 DEF MInv, SignUpsNeverStopUpgrades

LEMMA WriteKeeps ==
  ASSUME MInv, NEW w \in Writers, NEW table, NEW id, NEW row, Write(w, table, id, row),
         \/ /\ table = "users" /\ id \in Users /\ row \in UserRow
            /\ row.tenant_id = None <=> db.version < 3
         \/ /\ table = "transactions" /\ id \in Transactions /\ row \in TransactionRow
            /\ db.version # 3 => row.mikrotik = None
            /\ db.version # 4 => row.mikrotik_enc = None
  PROVE  MInv'
<1>1. TypeOK /\ \A x \in Writers : WriteOK(x) BY DEF MInv
<1> DEFINE new == [table |-> table, id |-> id, row |-> row]
<1>2. /\ writing' = [writing EXCEPT ![w] = new]
      /\ table \in Unlocked
      /\ UNCHANGED <<db, work, run, locked, outcome, truth>>
  BY DEF Write, Unlocked
<1>3. writing' \in [Writers -> {None}
        \cup [table : {"users"}, id : Users, row : UserRow]
        \cup [table : {"transactions"}, id : Transactions, row : TransactionRow]]
  BY <1>1, <1>2 DEF TypeOK
<1>4. \A x \in Writers : WriteOK(x)'
  <2>. SUFFICES ASSUME NEW x \in Writers PROVE WriteOK(x)' OBVIOUS
  <2>1. CASE x = w
    <3>1. writing'[x] = new BY <1>1, <1>2, <2>1 DEF TypeOK
    <3>. QED BY <1>2, <3>1 DEF WriteOK, Unlocked
  <2>2. CASE x # w
    <3>1. writing'[x] = writing[x] BY <1>1, <1>2, <2>2 DEF TypeOK
    <3>. QED BY <1>1, <1>2, <3>1 DEF WriteOK, Unlocked
  <2>. QED BY <2>1, <2>2
<1>. QED BY <1>2, <1>3, <1>4, BesideWrites

LEMMA SignUpKeeps ==
  ASSUME MInv, NEW w \in Writers, NEW u \in Users, SignUp(w, u) \/ EarlierSignUp(w, u)
  PROVE  MInv'
<1>1. db.version \in 0..4 /\ db.schema = SchemaAt(db.version)
  BY DEF MInv, TypeOK, Database, Head, RevisionIsWhole, WholeView
<1>2. CASE SignUp(w, u)
  <2>1. ~(db.version < 3) BY <1>1, <1>2, Tables DEF SignUp
  <2>. QED BY <1>2, <2>1, WriteKeeps DEF SignUp, UserRow
<1>3. CASE EarlierSignUp(w, u)
  <2>1. db.version < 3 BY <1>1, <1>3, Tables DEF EarlierSignUp
  <2>. QED BY <1>3, <2>1, WriteKeeps DEF EarlierSignUp, UserRow
<1>. QED BY <1>2, <1>3

LEMMA RecordKeeps ==
  ASSUME MInv, NEW w \in Writers, NEW t \in Transactions, NEW c \in Creds \cup {None},
         NEW key \in Keys \cup {None}, Record(w, t, c, key) \/ EarlierRecord(w, t, c)
  PROVE  MInv'
<1>1. db.version \in 0..4 /\ db.schema = SchemaAt(db.version)
  BY DEF MInv, TypeOK, Database, Head, RevisionIsWhole, WholeView
<1>2. CASE Record(w, t, c, key)
  <2>1. db.version = 4 BY <1>1, <1>2, Tables DEF Record
  <2>2. [mikrotik |-> None, mikrotik_enc |-> encrypt_value(c, key)] \in TransactionRow
    BY <1>2 DEF Record, encrypt_value, TransactionRow, Encrypted
  <2>. QED BY <1>2, <2>1, <2>2, WriteKeeps DEF Record
<1>3. CASE EarlierRecord(w, t, c)
  <2>1. db.version = 3 BY <1>1, <1>3, Tables DEF EarlierRecord
  <2>. QED BY <1>3, <2>1, WriteKeeps DEF EarlierRecord, TransactionRow
<1>. QED BY <1>2, <1>3

LEMMA AbandonKeeps == ASSUME MInv, NEW w \in Writers, AbandonWrite(w) PROVE MInv'
<1>1. TypeOK /\ \A x \in Writers : WriteOK(x) BY DEF MInv
<1>2. writing' \in [Writers -> {None}
        \cup [table : {"users"}, id : Users, row : UserRow]
        \cup [table : {"transactions"}, id : Transactions, row : TransactionRow]]
  BY <1>1 DEF AbandonWrite, TypeOK
<1>3. \A x \in Writers : writing'[x] = None \/ writing'[x] = writing[x]
  BY <1>1 DEF AbandonWrite, TypeOK
<1>4. \A x \in Writers : WriteOK(x)'
  BY <1>1, <1>3 DEF AbandonWrite, WriteOK, Unlocked
<1>. QED BY <1>2, <1>4, BesideWrites DEF AbandonWrite

(* What one committed row does to a view of the database.                   *)
LEMMA UserWritten ==
  ASSUME NEW view \in Database, NEW u \in Users, NEW row \in UserRow,
         NEW x, x = [table |-> "users", id |-> u, row |-> row]
  PROVE  /\ Written(view, x) \in Database
         /\ Written(view, x).version = view.version
         /\ Written(view, x).schema = view.schema
         /\ Written(view, x).transactions = view.transactions
         /\ \A v \in Users : Written(view, x).users[v] = IF v = u THEN row ELSE view.users[v]
BY DEF Written, Database

LEMMA TransactionWritten ==
  ASSUME NEW view \in Database, NEW t \in Transactions, NEW row \in TransactionRow,
         NEW x, x = [table |-> "transactions", id |-> t, row |-> row]
  PROVE  /\ Written(view, x) \in Database
         /\ Written(view, x).version = view.version
         /\ Written(view, x).schema = view.schema
         /\ Written(view, x).users = view.users
         /\ \A s \in Transactions :
              Written(view, x).transactions[s] = IF s = t THEN row ELSE view.transactions[s]
BY DEF Written, Database

LEMMA CommitWriteKeeps == ASSUME MInv, NEW w \in Writers, CommitWrite(w) PROVE MInv'
<1>1. /\ TypeOK /\ RevisionIsWhole /\ CredentialsKept /\ SignUpsNeverStopUpgrades
      /\ \A y \in Writers : WriteOK(y)
      /\ db \in Database
  BY DEF MInv, TypeOK
<1> DEFINE x == writing[w]
<1>2. /\ x # None /\ writing' = [writing EXCEPT ![w] = None]
      /\ UNCHANGED <<run, locked, outcome>>
      /\ db' = Written(db, x)
      /\ work' = IF run.at = "idle" THEN None ELSE Written(work, x)
  BY DEF CommitWrite, At
<1>3. /\ x.table \in Unlocked
      /\ \/ x \in [table : {"users"}, id : Users, row : UserRow]
         \/ x \in [table : {"transactions"}, id : Transactions, row : TransactionRow]
  BY <1>1, <1>2 DEF TypeOK, WriteOK
<1>4. writing' \in [Writers -> {None}
        \cup [table : {"users"}, id : Users, row : UserRow]
        \cup [table : {"transactions"}, id : Transactions, row : TransactionRow]]
  BY <1>1, <1>2 DEF TypeOK
<1>5. /\ db' \in Database /\ db'.version = db.version /\ db'.schema = db.schema
      /\ run.at # "idle" =>
           /\ work \in Database /\ work' \in Database
           /\ work'.version = work.version /\ work'.schema = work.schema
  <2>1. run.at # "idle" => work \in Database BY Running
  <2>. QED BY <1>1, <1>2, <1>3, <2>1, UserWritten, TransactionWritten
<1>6. Unlocked' = Unlocked BY <1>2, <1>5 DEF Unlocked
<1>7. \A y \in Writers : WriteOK(y)'
  <2>1. \A y \in Writers : writing'[y] = None \/ writing'[y] = writing[y]
    BY <1>1, <1>2 DEF TypeOK
  <2>. QED BY <1>1, <1>5, <1>6, <2>1 DEF WriteOK
<1>8. run.at # "idle" => Beside /\ Beside' /\ AtStatement
  BY <1>2, <1>5, <1>6, Running DEF Beside
<1>9. CASE x.table = "users"
  <2>1. /\ x \in [table : {"users"}, id : Users, row : UserRow]
        /\ x.row.tenant_id = None <=> db.version < 3
        /\ truth' = truth
    BY <1>1, <1>2, <1>3, <1>9 DEF WriteOK, CommitWrite
  <2>2. /\ db'.transactions = db.transactions
        /\ \A v \in Users : db'.users[v] = IF v = x.id THEN x.row ELSE db.users[v]
    BY <1>1, <1>2, <2>1, UserWritten
  <2>3. RevisionIsWhole' /\ CredentialsKept'
    BY <1>1, <1>5, <2>1, <2>2
    DEF RevisionIsWhole, CredentialsKept, WholeView, KeptView, TransactionRows, Credential
  <2>4. run.at # "idle" => AtStatement'
    <3>. SUFFICES ASSUME run.at # "idle" PROVE AtStatement' OBVIOUS
    <3>1. /\ work'.transactions = work.transactions
          /\ \A v \in Users : work'.users[v] = IF v = x.id THEN x.row ELSE work.users[v]
      BY <1>2, <1>5, <2>1, UserWritten
    <3>2. /\ x.row.tenant_id = None <=> work.version < 3
          /\ "users" \notin locked
      BY <1>3, <1>8, <1>9, <2>1 DEF Beside, Unlocked
    <3>. QED
      BY <1>2, <1>5, <1>8, <2>1, <3>1, <3>2, SMTT(40)
      DEF AtStatement, WholeView, KeptView, TransactionRows, Credential
  <2>. QED
    BY <1>1, <1>2, <1>4, <1>5, <1>7, <1>8, <2>1, <2>3, <2>4
    DEF MInv, TypeOK, SignUpsNeverStopUpgrades
<1>10. CASE x.table = "transactions"
  <2>1. /\ x \in [table : {"transactions"}, id : Transactions, row : TransactionRow]
        /\ db.version # 3 => x.row.mikrotik = None
        /\ db.version # 4 => x.row.mikrotik_enc = None
        /\ truth' = [truth EXCEPT ![x.id] = Credential(x.row)]
    BY <1>1, <1>2, <1>3, <1>10 DEF WriteOK, CommitWrite
  <2>2. /\ db'.users = db.users
        /\ \A t \in Transactions :
             db'.transactions[t] = IF t = x.id THEN x.row ELSE db.transactions[t]
    BY <1>1, <1>2, <2>1, TransactionWritten
  <2>3. \A t \in Transactions :
          truth'[t] = IF t = x.id THEN Credential(x.row) ELSE truth[t]
    BY <1>1, <2>1 DEF TypeOK
  <2>4. truth' \in [Transactions -> {None} \cup Creds]
    <3>1. Credential(x.row) \in {None} \cup Creds
      BY <2>1 DEF Credential, TransactionRow, Encrypted
    <3>. QED BY <1>1, <2>1, <3>1 DEF TypeOK
  <2>5. RevisionIsWhole' /\ CredentialsKept'
    <3>1. WholeView(db)'
      BY <1>1, <1>5, <2>1, <2>2 DEF RevisionIsWhole, WholeView, TransactionRows
    <3>2. KeptView(db)'
      BY <1>1, <2>2, <2>3 DEF CredentialsKept, KeptView, TransactionRows, Credential
    <3>. QED BY <3>1, <3>2 DEF RevisionIsWhole, CredentialsKept
  <2>6. run.at # "idle" => AtStatement'
    <3>. SUFFICES ASSUME run.at # "idle" PROVE AtStatement' OBVIOUS
    <3>1. /\ work'.users = work.users
          /\ \A t \in Transactions :
               work'.transactions[t] = IF t = x.id THEN x.row ELSE work.transactions[t]
      BY <1>2, <1>5, <2>1, TransactionWritten
    <3>2. run.at = First(run.dir, work.version) /\ work.version = db.version
      BY <1>3, <1>8, <1>10 DEF Beside
    <3>3. run.at \in Statements
            /\ run.at \notin {"add_tenant_id", "backfill", "not_null", "encrypt", "decrypt"}
      BY <3>2, Running, Firsts DEF Database, Head
    <3>4. WholeView(work) /\ KeptView(work) BY <1>8, <3>3 DEF AtStatement
    <3>5. WholeView(work)'
      BY <1>5, <2>1, <3>1, <3>2, <3>4 DEF WholeView, TransactionRows
    <3>6. KeptView(work)'
      BY <2>3, <3>1, <3>4 DEF KeptView, TransactionRows, Credential
    <3>. QED BY <1>2, <1>5, <3>2, <3>3, <3>5, <3>6 DEF AtStatement
  <2>. QED
    BY <1>1, <1>2, <1>4, <1>5, <1>7, <1>8, <2>4, <2>5, <2>6
    DEF MInv, TypeOK, SignUpsNeverStopUpgrades
<1>. QED BY <1>3, <1>9, <1>10

-----------------------------------------------------------------------------
(* The theorems *)

LEMMA NextKeepsMInv == ASSUME MInv, [Next]_vars PROVE MInv'
<1>1. CASE UNCHANGED vars
  <2>1. writing' \in [Writers -> {None}
          \cup [table : {"users"}, id : Users, row : UserRow]
          \cup [table : {"transactions"}, id : Transactions, row : TransactionRow]]
    BY <1>1 DEF MInv, TypeOK, vars
  <2>2. \A w \in Writers : WriteOK(w)'
    BY <1>1 DEF MInv, WriteOK, Unlocked, vars
  <2>. QED BY <1>1, <2>1, <2>2, BesideWrites DEF vars
<1>2. ASSUME NEW dir \in {"up", "down"}, NEW key \in Keys \cup {None}, Start(dir, key)
      PROVE  MInv'
  BY <1>2, StartKeeps
<1>3. CASE MigrationStep
  BY <1>3, CommitKeeps, CreateAuthKeeps, DropAuthKeeps, CreateVerificationKeeps,
     DropVerificationKeeps, CreateTenantsKeeps, AddTenantIdKeeps, BackfillKeeps,
     SetNotNullKeeps, AddEncryptedKeeps, DropPlainKeeps,
     AddPlainKeeps, DropEncryptedKeeps, EncryptKeeps, DecryptKeeps, RefusalKeeps
  DEF MigrationStep
<1>4. CASE Interrupt BY <1>4, RefusalKeeps
<1>5. ASSUME NEW w \in Writers, EndWrite(w) PROVE MInv'
  BY <1>5, CommitWriteKeeps, AbandonKeeps DEF EndWrite
<1>6. ASSUME NEW w \in Writers, NEW u \in Users, SignUp(w, u) \/ EarlierSignUp(w, u)
      PROVE  MInv'
  BY <1>6, SignUpKeeps
<1>7. ASSUME NEW w \in Writers, NEW t \in Transactions, NEW c \in Creds \cup {None},
             NEW key \in Keys \cup {None}, Record(w, t, c, key) \/ EarlierRecord(w, t, c)
      PROVE  MInv'
  BY <1>7, RecordKeeps
<1>8. ASSUME NEW w \in Writers, NEW t \in Transactions, NEW c \in Creds \cup {None},
             EarlierRecord(w, t, c)
      PROVE  MInv'
  BY <1>8, <1>7
<1>. QED BY <1>1, <1>2, <1>3, <1>4, <1>5, <1>6, <1>7, <1>8 DEF Next

LEMMA InitMInv == Init => MInv
<1>. SUFFICES ASSUME Init PROVE MInv OBVIOUS
<1>1. PICK v \in Deployed : db = Empty(v) BY DEF Init
<1>2. v \in 0..4 /\ v < 4 BY DeployedAssumption
<1>3. db \in Database
  BY <1>1, <1>2, Tables DEF Empty, Database, Head
<1>4. TypeOK
  BY <1>3 DEF Init, TypeOK, Idle, Outcomes
<1>5. RevisionIsWhole /\ CredentialsKept
  BY <1>1, <1>2 DEF RevisionIsWhole, CredentialsKept, WholeView, KeptView, Empty,
     TransactionRows
<1>. QED
  BY <1>4, <1>5 DEF MInv, Init, Idle, WriteOK, SignUpsNeverStopUpgrades

(* Whatever statement a migration is stopped at and whatever the            *)
(* application writes beside it, what MInv says of tables, rows, locks and  *)
(* the migration's own view holds.                                          *)
THEOREM MigrationInductive == Spec => []MInv
<1>. QED BY InitMInv, NextKeepsMInv, PTL DEF Spec

(* No run of alembic leaves a revision half applied or half undone.         *)
THEOREM RevisionsWhole == Spec => []RevisionIsWhole
<1>1. MInv => RevisionIsWhole BY DEF MInv
<1>. QED BY <1>1, MigrationInductive, PTL

(* Encrypting in batches, decrypting, failing and being interrupted never   *)
(* lose a credential.                                                       *)
THEOREM NoCredentialLost == Spec => []CredentialsKept
<1>1. MInv => CredentialsKept BY DEF MInv
<1>. QED BY <1>1, MigrationInductive, PTL

(* The NOT NULL constraint of users.tenant_id never fails, whoever signs up *)
(* while the upgrade runs.                                                  *)
THEOREM BackfillComplete == Spec => []SignUpsNeverStopUpgrades
<1>1. MInv => SignUpsNeverStopUpgrades BY DEF MInv
<1>. QED BY <1>1, MigrationInductive, PTL

(* A reader with the wrong key or none gets an error, never a wrong         *)
(* credential and never none.                                               *)
THEOREM ReadsTrue == Spec => []ReadsAreTrue
<1>1. ASSUME MInv PROVE ReadsAreTrue
  <2>. SUFFICES ASSUME NEW t \in TransactionRows(db), NEW key \in Keys \cup {None},
                       Enc \in db.schema
       PROVE  decrypt_value(db.transactions[t].mikrotik_enc, key) \in {truth[t]} \cup Errors
    BY DEF ReadsAreTrue
  <2>1. /\ db.version \in 0..4 /\ db.schema = SchemaAt(db.version)
        /\ WholeView(db) /\ KeptView(db)
    BY <1>1 DEF MInv, TypeOK, Database, Head, RevisionIsWhole, WholeView, CredentialsKept
  <2>2. db.version = 4 BY <2>1, Tables
  <2>3. db.transactions[t].mikrotik = None BY <2>1, <2>2 DEF WholeView
  <2>4. truth[t] = IF db.transactions[t].mikrotik_enc = None THEN None
                   ELSE db.transactions[t].mikrotik_enc.value
    BY <2>1, <2>3 DEF KeptView, Credential
  <2>. QED BY <2>4 DEF decrypt_value, Errors
<1>. QED BY <1>1, MigrationInductive, PTL
=============================================================================
