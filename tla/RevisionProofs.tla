--------------------------- MODULE RevisionProofs ---------------------------
(***************************************************************************)
(* Proof that Migrations implements RevisionLedger, for any number of      *)
(* rows, writers, keys and batches.  MInv comes from MigrationProofs;      *)
(* Carried is shown beside it, one lemma per statement.                    *)
(***************************************************************************)
EXTENDS MigrationLedger, MigrationProofs

-----------------------------------------------------------------------------
(* Where a command is, and where it goes *)

(* Each statement belongs to one direction and one revision. *)
LEMMA Placed ==
  ASSUME MInv, run.at \notin {"idle", "commit"}
  PROVE  /\ \/ run.dir = "up" /\ work.version \in 0..3
            \/ run.dir = "down" /\ work.version \in 1..4
         /\ run.at = "create_auth" => run.dir = "up" /\ work.version = 0
         /\ run.at = "create_verification" => run.dir = "up" /\ work.version = 1
         /\ run.at \in {"create_tenants", "add_tenant_id", "backfill", "not_null"} =>
              run.dir = "up" /\ work.version = 2
         /\ run.at \in {"add_encrypted", "encrypt"} => run.dir = "up" /\ work.version = 3
         /\ run.at = "drop_auth" => run.dir = "down" /\ work.version = 1
         /\ run.at = "drop_verification" => run.dir = "down" /\ work.version = 2
         /\ run.at = "drop_tenant_fk" => run.dir = "down" /\ work.version = 3
         /\ run.at \in {"add_plain", "decrypt"} => run.dir = "down" /\ work.version = 4
<1>1. /\ run.at \in Statements /\ run.dir \in {"up", "down"} /\ work.version \in 0..4
      /\ AtStatement
  BY Running DEF Database, Head
<1>2. CASE run.at \in {"add_tenant_id", "backfill", "not_null", "encrypt", "decrypt"}
  BY <1>1, <1>2 DEF AtStatement
<1>3. CASE run.at \notin {"add_tenant_id", "backfill", "not_null", "encrypt", "decrypt"}
  <2>1. run.at = First(run.dir, work.version) BY <1>1, <1>3 DEF AtStatement
  <2>. QED BY <1>1, <1>3, <2>1, Firsts DEF Statements
<1>. QED BY <1>2, <1>3

(* What the last statement of a revision leaves behind. *)
LEMMA Revising ==
  ASSUME MInv, run.at \notin {"idle", "commit"},
         NEW view, DOMAIN view = {"version", "schema", "users", "transactions"},
         Revised(view)
  PROVE  /\ work'.users = view.users /\ work'.transactions = view.transactions
         /\ work'.version = IF run.dir = "up" THEN work.version + 1 ELSE work.version - 1
         /\ run'.dir = run.dir
         /\ run'.at \notin {"idle", "decrypt"}
         /\ run.dir = "up" /\ run'.at = "commit" => work'.version = Head
         /\ run.dir = "down" => run'.at = "commit"
<1> DEFINE v == IF run.dir = "up" THEN work.version + 1 ELSE work.version - 1
<1>1. v \in 0..4 BY Placed
<1>2. work' = [view EXCEPT !.version = v] BY DEF Revised
<1>3. run' = [run EXCEPT !.at = IF run.dir = "up" THEN First("up", v) ELSE "commit",
                         !.todo = {}]
  BY DEF Revised
<1>4. /\ run'.dir = run.dir
      /\ run'.at = IF run.dir = "up" THEN First("up", v) ELSE "commit"
  BY <1>3, Running
<1>5. First("up", v) \in Statements /\ First("up", v) # "decrypt" BY <1>1, Firsts
<1>6. First("up", v) = "commit" => v = 4 BY <1>1 DEF First
<1>. QED BY <1>2, <1>4, <1>5, <1>6 DEF Statements, Head

-----------------------------------------------------------------------------
(* The statements of a command *)

(* A statement that leaves every row in its table. *)
LEMMA RowsStay ==
  ASSUME MInv, Carried, Others, run.at \notin {"idle", "commit"},
         run'.at # "idle", run'.dir = run.dir,
         \A u \in Users : work'.users[u] = None <=> work.users[u] = None,
         \A t \in Transactions : work'.transactions[t] = None <=> work.transactions[t] = None,
         run.dir = "up" /\ run'.at = "commit" => work'.version = Head,
         run.dir = "down" =>
           /\ work'.version = IF run'.at = "commit" THEN work.version - 1 ELSE work.version
           /\ run'.at = "commit" => work.version \in {2, 4},
         run'.at = "decrypt" =>
           \A t \in TransactionRows(work)' \ run'.todo :
             work'.transactions[t].mikrotik \notin Long,
         run'.at = "commit" /\ run.dir = "down" /\ work.version = 4 =>
           \A t \in TransactionRows(work)' : Fits(work'.transactions[t])
  PROVE  Carried'
<1>1. Underway /\ SameRows /\ (\A w \in Writers : NewRows(w)) /\ UNCHANGED <<db, writing>>
  BY DEF Carried, Others
<1>2. db.version \in 0..4 /\ run.dir \in {"up", "down"}
  BY Running DEF Database, Head
<1>3. Underway' BY <1>1, <1>2 DEF Underway
<1>4. SameTransactions' /\ SameUsers'
  BY <1>1 DEF SameRows, SameTransactions, SameUsers
<1>5. SameRows'
  <2>1. ~(run'.dir = "down" /\ run'.at = "commit" /\ work'.version = 0) OBVIOUS
  <2>2. run'.at = "commit" /\ run'.dir = "down" /\ work'.version = 3 => work.version = 4
    OBVIOUS
  <2>. QED BY <1>4, <2>1, <2>2 DEF SameRows
<1>6. \A w \in Writers : NewRows(w)' BY <1>1 DEF NewRows
<1>. QED BY <1>3, <1>5, <1>6 DEF Carried

LEMMA CreatingCarries ==
  ASSUME MInv, Carried, CreateAuth \/ CreateVerification \/ DropVerification
  PROVE  Carried'
<1>1. Others /\ run.at \in {"create_auth", "create_verification", "drop_verification"}
  BY DEF CreateAuth, CreateVerification, DropVerification, At
<1>2. work \in Database BY <1>1, Running
<1>3. PICK S : Revised([work EXCEPT !.schema = S])
  BY DEF CreateAuth, CreateVerification, DropVerification, Adding, Without
<1> DEFINE view == [work EXCEPT !.schema = S]
<1>4. /\ DOMAIN view = {"version", "schema", "users", "transactions"}
      /\ view.users = work.users /\ view.transactions = work.transactions
  BY <1>2 DEF Database
<1> HIDE DEF view
<1>5. Revised(view) BY <1>3 DEF view
<1>. QED BY <1>1, <1>4, <1>5, Placed, Revising, RowsStay DEF Head

LEMMA DropAuthCarries == ASSUME MInv, Carried, DropAuth PROVE Carried'
<1>1. Others /\ run.at = "drop_auth" BY DEF DropAuth, At
<1>2. work \in Database /\ run.dir = "down" /\ work.version = 1 /\ db \in Database
  BY <1>1, Running, Placed
<1> DEFINE U == [u \in Users |-> None]
           view == [Without(TablesOf1) EXCEPT !.users = U]
<1>3. /\ DOMAIN view = {"version", "schema", "users", "transactions"}
      /\ view.users = U /\ view.transactions = work.transactions
  BY <1>2 DEF Database, Without
<1> HIDE DEF view
<1>4. Revised(view) BY DEF DropAuth, view
<1>5. /\ work'.users = U /\ work'.transactions = work.transactions /\ work'.version = 0
      /\ run'.dir = "down" /\ run'.at = "commit"
  BY <1>1, <1>2, <1>3, <1>4, Revising
<1>6. Underway /\ SameRows /\ (\A w \in Writers : NewRows(w)) /\ UNCHANGED <<db, writing>>
  BY <1>1 DEF Carried, Others
<1>7. db.version = 1 BY <1>1, <1>2, <1>6 DEF Underway, Database
<1>8. Underway' BY <1>5, <1>6, <1>7 DEF Underway
<1>9. SameRows' BY <1>5, <1>6 DEF SameRows, SameTransactions
<1>10. \A w \in Writers : NewRows(w)' BY <1>6 DEF NewRows
<1>. QED BY <1>8, <1>9, <1>10 DEF Carried

LEMMA TenantingCarries ==
  ASSUME MInv, Carried, CreateTenants \/ AddTenantId \/ Backfill
  PROVE  Carried'
<1>1. Others /\ run.at \in {"create_tenants", "add_tenant_id", "backfill"}
  BY DEF CreateTenants, AddTenantId, Backfill, At
<1>2. work \in Database /\ run.dir = "up" BY <1>1, Running, Placed
<1>3. run'.at \in {"add_tenant_id", "backfill", "not_null"} /\ run'.dir = "up"
  BY <1>1, <1>2, Running DEF CreateTenants, AddTenantId, Backfill, Then
<1>4. work'.transactions = work.transactions
  BY <1>2 DEF CreateTenants, AddTenantId, Backfill, Adding, Database
<1>5. \A u \in Users : work'.users[u] = None <=> work.users[u] = None
  <2>1. CASE CreateTenants \/ AddTenantId
    BY <1>2, <2>1 DEF CreateTenants, AddTenantId, Adding, Database
  <2>2. CASE Backfill
    <3>1. \A u \in Users : work'.users[u] = Tenanted(work.users[u])
      BY <1>2, <2>2 DEF Backfill, Database
    <3>2. [tenant_id |-> DefaultTenant] # None BY RowsAssumption DEF UserRow
    <3>. QED BY <3>1, <3>2 DEF Tenanted
  <2>. QED BY <2>1, <2>2
<1>. QED BY <1>1, <1>2, <1>3, <1>4, <1>5, RowsStay

LEMMA SetNotNullCarries == ASSUME MInv, Carried, SetNotNull PROVE Carried'
<1>1. Others /\ run.at = "not_null" /\ Revised(Adding(TenantColumn))
  BY NobodyUntenanted DEF SetNotNull, At
<1>2. work \in Database BY <1>1, Running
<1> DEFINE view == Adding(TenantColumn)
<1>3. /\ DOMAIN view = {"version", "schema", "users", "transactions"}
      /\ view.users = work.users /\ view.transactions = work.transactions
  BY <1>2 DEF Database, Adding
<1> HIDE DEF view
<1>4. Revised(view) BY <1>1 DEF view
<1>. QED BY <1>1, <1>3, <1>4, Placed, Revising, RowsStay

(* ADD COLUMN, and the SELECT of the rows to convert. *)
LEMMA AddingCarries == ASSUME MInv, Carried, AddEncrypted \/ AddPlain PROVE Carried'
<1>1. Others /\ run.at \in {"add_encrypted", "add_plain"}
  BY DEF AddEncrypted, AddPlain, At
<1>2. work \in Database BY <1>1, Running
<1>3. /\ work'.users = work.users /\ work'.transactions = work.transactions
      /\ work'.version = work.version
  BY <1>2 DEF AddEncrypted, AddPlain, Adding, Database
<1>4. /\ run'.at \in {"encrypt", "decrypt"} /\ run'.dir = run.dir
      /\ run'.todo = TransactionRows(work)
  BY <1>1, Running DEF AddEncrypted, AddPlain
<1>5. TransactionRows(work)' \ run'.todo = {} BY <1>3, <1>4 DEF TransactionRows
<1>. QED BY <1>1, <1>3, <1>4, <1>5, RowsStay

LEMMA EncryptCarries == ASSUME MInv, Carried, NEW b \in Batches, Encrypt(b) PROVE Carried'
<1>1. Others /\ run.at = "encrypt" BY DEF Encrypt, At
<1>2. work \in Database /\ run \in [at : Statements, dir : {"up", "down"},
                                    key : Keys \cup {None}, todo : SUBSET Transactions]
  BY <1>1, Running
<1>3. b \subseteq TransactionRows(work) BY <1>1, Batching DEF Batches, kSubset
<1>4. /\ work'.users = work.users
      /\ \A t \in Transactions : work'.transactions[t] =
           IF t \in b THEN EncryptedRow(work.transactions[t]) ELSE work.transactions[t]
  BY <1>2 DEF Encrypt, EncryptBatch, Database
<1>5. \A t \in b : EncryptedRow(work.transactions[t]) \in TransactionRow
  <2>. SUFFICES ASSUME NEW t \in b PROVE EncryptedRow(work.transactions[t]) \in TransactionRow
    OBVIOUS
  <2>1. work.transactions[t] \in TransactionRow
    BY <1>2, <1>3 DEF TransactionRows, Database
  <2>2. work.transactions[t].mikrotik # None => run.key \in Keys
    BY <1>2 DEF Encrypt, NeedsKey
  <2>. QED BY <2>1, <2>2 DEF EncryptedRow, encrypt_value, TransactionRow, Encrypted
<1>6. \A t \in Transactions : work'.transactions[t] = None <=> work.transactions[t] = None
  BY <1>3, <1>4, <1>5, RowsAssumption DEF TransactionRows
<1>7. run'.at = "encrypt" /\ run'.dir = run.dir BY <1>1, <1>2 DEF Encrypt
<1>8. run.dir = "up" BY <1>1, Placed
<1>. QED BY <1>1, <1>4, <1>6, <1>7, <1>8, RowsStay

LEMMA DropPlainCarries == ASSUME MInv, Carried, DropPlain PROVE Carried'
<1>1. Others /\ run.at = "encrypt" BY DEF DropPlain, At
<1>2. work \in Database /\ run.dir = "up" /\ work.version = 3 BY <1>1, Running, Placed
<1> DEFINE T == [t \in Transactions |->
                   IF work.transactions[t] = None THEN None
                   ELSE [work.transactions[t] EXCEPT !.mikrotik = None]]
           view == [work EXCEPT !.schema = (work.schema \ {Plain}) \cup RestrictKeys,
                                !.transactions = T]
<1>3. /\ DOMAIN view = {"version", "schema", "users", "transactions"}
      /\ view.users = work.users /\ view.transactions = T
  <2> HIDE DEF T
  <2>. QED BY <1>2 DEF Database
<1>4. Revised(view) BY DEF DropPlain
<1>5. \A t \in Transactions : T[t] = None <=> work.transactions[t] = None
  <2>1. \A t \in Transactions : work.transactions[t] # None =>
          [work.transactions[t] EXCEPT !.mikrotik = None] \in TransactionRow
    BY <1>2 DEF Database, TransactionRow
  <2>. QED BY <2>1, RowsAssumption
<1> HIDE DEF view, T
<1>. QED BY <1>1, <1>2, <1>3, <1>4, <1>5, Revising, RowsStay

LEMMA DecryptCarries == ASSUME MInv, Carried, NEW b \in Batches, Decrypt(b) PROVE Carried'
<1>1. Others /\ run.at = "decrypt" BY DEF Decrypt, At
<1>2. /\ work \in Database /\ truth \in [Transactions -> {None} \cup Creds]
      /\ run \in [at : Statements, dir : {"up", "down"},
                  key : Keys \cup {None}, todo : SUBSET Transactions]
  BY <1>1, Running
<1>3. b \subseteq run.todo /\ run.todo \subseteq TransactionRows(work)
  BY <1>1, Batching DEF Batches, kSubset
<1>4. /\ work'.users = work.users /\ work'.version = work.version
      /\ \A t \in Transactions : work'.transactions[t] =
           IF t \in b THEN [work.transactions[t] EXCEPT !.mikrotik = Decrypted(t)]
           ELSE work.transactions[t]
  BY <1>2 DEF Decrypt, DecryptBatch, Database
<1>5. \A t \in b :
        /\ [work.transactions[t] EXCEPT !.mikrotik = Decrypted(t)] \in TransactionRow
        /\ [work.transactions[t] EXCEPT !.mikrotik = Decrypted(t)].mikrotik \notin Long
  <2>. SUFFICES ASSUME NEW t \in b
       PROVE  /\ [work.transactions[t] EXCEPT !.mikrotik = Decrypted(t)] \in TransactionRow
              /\ [work.transactions[t] EXCEPT !.mikrotik = Decrypted(t)].mikrotik \notin Long
    OBVIOUS
  <2>1. t \in Transactions /\ work.transactions[t] \in TransactionRow
    BY <1>2, <1>3 DEF TransactionRows, Database
  <2>2. Decrypted(t) \notin Errors /\ Decrypted(t) \notin Long BY DEF Decrypt, Readable
  <2>3. Decrypted(t) = IF work.transactions[t].mikrotik_enc = None THEN None
                       ELSE work.transactions[t].mikrotik_enc.value
    BY <2>2 DEF Decrypted, decrypt_value, Errors
  <2>4. Decrypted(t) \in {None} \cup Creds BY <2>1, <2>3 DEF TransactionRow, Encrypted
  <2>. QED BY <2>1, <2>2, <2>4 DEF TransactionRow
<1>6. \A t \in Transactions : work'.transactions[t] = None <=> work.transactions[t] = None
  BY <1>3, <1>4, <1>5, RowsAssumption DEF TransactionRows
<1>7. run'.at = "decrypt" /\ run'.dir = run.dir /\ run'.todo = run.todo \ b
  BY <1>1, <1>2 DEF Decrypt
<1>8. \A t \in TransactionRows(work)' \ run'.todo : work'.transactions[t].mikrotik \notin Long
  <2>. SUFFICES ASSUME NEW t \in TransactionRows(work)' \ run'.todo
       PROVE  work'.transactions[t].mikrotik \notin Long
    OBVIOUS
  <2>1. t \in TransactionRows(work) /\ t \in Transactions BY <1>6 DEF TransactionRows
  <2>2. CASE t \in b BY <1>4, <1>5, <2>1, <2>2
  <2>3. CASE t \notin b BY <1>1, <1>4, <1>7, <2>1, <2>3 DEF Carried, SameRows
  <2>. QED BY <2>2, <2>3
<1>. QED BY <1>1, <1>4, <1>6, <1>7, <1>8, RowsStay

LEMMA DropEncryptedCarries == ASSUME MInv, Carried, DropEncrypted PROVE Carried'
<1>1. Others /\ run.at = "decrypt" /\ run.todo = {} BY DEF DropEncrypted, At
<1>2. work \in Database /\ run.dir = "down" /\ work.version = 4 BY <1>1, Running, Placed
<1> DEFINE T == [t \in Transactions |->
                   IF work.transactions[t] = None THEN None
                   ELSE [work.transactions[t] EXCEPT !.mikrotik_enc = None]]
           view == [work EXCEPT !.schema = work.schema \ ({Enc} \cup RestrictKeys),
                                !.transactions = T]
<1>3. /\ DOMAIN view = {"version", "schema", "users", "transactions"}
      /\ view.users = work.users /\ view.transactions = T
  <2> HIDE DEF T
  <2>. QED BY <1>2 DEF Database
<1>4. Revised(view) BY DEF DropEncrypted
<1>5. \A t \in Transactions : work.transactions[t] # None =>
        /\ T[t] \in TransactionRow
        /\ T[t].mikrotik = work.transactions[t].mikrotik /\ T[t].mikrotik_enc = None
  BY <1>2 DEF Database, TransactionRow
<1>6. \A t \in Transactions : T[t] = None <=> work.transactions[t] = None
  BY <1>5, RowsAssumption
<1>7. \A t \in TransactionRows(work) : Fits(T[t])
  <2>1. \A t \in TransactionRows(work) : work.transactions[t].mikrotik \notin Long
    BY <1>1 DEF Carried, SameRows
  <2>. QED BY <1>5, <2>1, CredsAssumption DEF Fits, Credential, TransactionRows
<1> HIDE DEF view, T
<1>8. /\ work'.users = work.users /\ work'.transactions = T /\ work'.version = 3
      /\ run'.at = "commit" /\ run'.dir = run.dir
  BY <1>1, <1>2, <1>3, <1>4, Revising
<1>9. \A t \in TransactionRows(work)' : Fits(work'.transactions[t])
  BY <1>6, <1>7, <1>8 DEF TransactionRows
<1>. QED BY <1>1, <1>2, <1>6, <1>8, <1>9, RowsStay

-----------------------------------------------------------------------------
(* The two ends of a command *)

LEMMA RollbackCarries == ASSUME Carried, NEW why, Rollback(why) PROVE Carried'
BY DEF Carried, NewRows, Rollback, Idle

LEMMA StartCarries ==
  ASSUME MInv, Carried, NEW dir \in {"up", "down"}, NEW key, Start(dir, key)
  PROVE  Carried'
<1>1. /\ work' = db /\ UNCHANGED <<db, writing>> /\ db.version \in 0..4
      /\ run'.dir = dir /\ run'.at = First(dir, db.version)
      /\ IF dir = "up" THEN db.version < 4 ELSE db.version > 0
  BY DEF Start, MInv, TypeOK, Database, Head
<1>2. run'.at \notin {"commit", "decrypt"} BY <1>1 DEF First
<1>3. Underway' BY <1>1, <1>2 DEF Underway, Head
<1>4. SameRows' BY <1>1, <1>2 DEF SameRows, SameUsers, SameTransactions
<1>5. \A w \in Writers : NewRows(w)' BY <1>1 DEF Carried, NewRows
<1>. QED BY <1>3, <1>4, <1>5 DEF Carried

(* A command about to COMMIT keeps every writer off the tables it changes.  *)
LEMMA AtCommit ==
  ASSUME MInv, Carried, run.at = "commit"
  PROVE  /\ "transactions" \notin Unlocked
         /\ "users" \in Unlocked => SameUsers
         /\ run.dir = "up" => db.version < 4 /\ work.version = 4
         /\ run.dir = "down" => db.version \in {1, 2, 4} /\ work.version = db.version - 1
<1>1. /\ Underway /\ SameRows /\ Beside /\ run.dir \in {"up", "down"}
      /\ db.version \in 0..4 /\ work.version \in 0..4
  BY Running DEF Carried, Database, Head
<1>2. /\ run.dir = "up" => db.version < 4 /\ work.version = 4
      /\ run.dir = "down" => db.version \in {1, 2, 4} /\ work.version = db.version - 1
  BY <1>1 DEF Underway, Head
<1>3. "transactions" \notin Unlocked BY <1>1, <1>2 DEF Beside
<1>4. "users" \in Unlocked => SameUsers BY <1>1 DEF Beside, SameRows
<1>. QED BY <1>2, <1>3, <1>4

LEMMA CommitCarries == ASSUME MInv, Carried, Commit PROVE Carried'
<1>1. /\ run.at = "commit" /\ db' = work /\ UNCHANGED writing /\ run'.at = "idle"
  BY DEF Commit, At, Idle
<1>2. ASSUME NEW w \in Writers, writing[w] # None PROVE NewRows(w)'
  <2>1. /\ writing[w].table \in Unlocked
        /\ \/ writing[w].table = "users" /\ writing[w].id \in Users
           \/ writing[w].table = "transactions"
    BY <1>2 DEF MInv, TypeOK, WriteOK
  <2>2. writing[w].table = "users" /\ SameUsers BY <1>1, <2>1, AtCommit
  <2>. QED BY <1>1, <1>2, <2>1, <2>2 DEF Carried, NewRows, SameUsers
<1>3. \A w \in Writers : NewRows(w)' BY <1>1, <1>2 DEF NewRows
<1>. QED BY <1>1, <1>3 DEF Carried

-----------------------------------------------------------------------------
(* What writes meanwhile *)

LEMMA WriteCarries ==
  ASSUME MInv, Carried, NEW w \in Writers, NEW table, NEW id, NEW row,
         Write(w, table, id, row),
         table = "users" => db.users[id] = None,
         table = "transactions" /\ db.version = 3 => Fits(row)
  PROVE  Carried'
<1> DEFINE new == [table |-> table, id |-> id, row |-> row]
<1>1. /\ writing' = [writing EXCEPT ![w] = new] /\ UNCHANGED <<db, work, run>>
      /\ \A x \in Writers : writing[x] # None => writing[x].id # id
      /\ DOMAIN writing = Writers
  BY DEF Write, MInv, TypeOK
<1>2. \A x \in Writers : writing'[x] = IF x = w THEN new ELSE writing[x] BY <1>1
<1>3. ASSUME NEW x \in Writers PROVE NewRows(x)'
  <2>1. CASE x = w BY <1>1, <1>2, <2>1 DEF NewRows
  <2>2. CASE x # w BY <1>1, <1>2, <2>2 DEF Carried, NewRows
  <2>. QED BY <2>1, <2>2
<1>4. run.at # "idle" => Underway' /\ SameRows'
  BY <1>1 DEF Carried, Underway, SameRows, SameUsers, SameTransactions, TransactionRows
<1>. QED BY <1>1, <1>3, <1>4 DEF Carried

LEMMA ArrivingCarries ==
  ASSUME MInv, Carried, NEW w \in Writers,
         \/ \E u \in Users : SignUp(w, u) \/ EarlierSignUp(w, u)
         \/ \E t \in Transactions, c \in Creds \cup {None} :
              \/ EarlierRecord(w, t, c)
              \/ \E key \in Keys \cup {None} : Record(w, t, c, key)
  PROVE  Carried'
<1>1. ASSUME NEW u \in Users, SignUp(w, u) \/ EarlierSignUp(w, u) PROVE Carried'
  BY <1>1, WriteCarries DEF SignUp, EarlierSignUp
<1>2. ASSUME NEW t \in Transactions, NEW c \in Creds \cup {None}, EarlierRecord(w, t, c)
      PROVE  Carried'
  <2>1. Fits([mikrotik |-> c, mikrotik_enc |-> None])
    BY <1>2, CredsAssumption DEF EarlierRecord, Fits, Credential
  <2>. QED BY <1>2, <2>1, WriteCarries DEF EarlierRecord
<1>3. ASSUME NEW t \in Transactions, NEW c \in Creds \cup {None},
             NEW key \in Keys \cup {None}, Record(w, t, c, key)
      PROVE  Carried'
  <2>1. db.version = 4
    BY <1>3, Tables DEF Record, MInv, TypeOK, Database, Head, RevisionIsWhole, WholeView
  <2>. QED BY <1>3, <2>1, WriteCarries DEF Record
<1>. QED BY <1>1, <1>2, <1>3

LEMMA AbandonCarries == ASSUME MInv, Carried, NEW w \in Writers, AbandonWrite(w) PROVE Carried'
<1>1. /\ UNCHANGED <<db, work, run>>
      /\ \A x \in Writers : writing'[x] = None \/ writing'[x] = writing[x]
  BY DEF AbandonWrite, MInv, TypeOK
<1>2. \A x \in Writers : NewRows(x)' BY <1>1 DEF Carried, NewRows
<1>3. run.at # "idle" => Underway' /\ SameRows'
  BY <1>1 DEF Carried, Underway, SameRows, SameUsers, SameTransactions, TransactionRows
<1>. QED BY <1>1, <1>2, <1>3 DEF Carried

(* One committed row, as everybody and a running command see it.            *)
LEMMA WriteSeen ==
  ASSUME MInv, NEW w \in Writers, CommitWrite(w)
  PROVE  LET x == writing[w] IN
         /\ x # None /\ x.table \in Unlocked
         /\ run' = run /\ db'.version = db.version
         /\ \A v \in Writers : writing'[v] = IF v = w THEN None ELSE writing[v]
         /\ run.at # "idle" => work'.version = work.version
         /\ x.table = "users" =>
              /\ x.id \in Users /\ x.row \in UserRow
              /\ db'.transactions = db.transactions
              /\ \A u \in Users : db'.users[u] = IF u = x.id THEN x.row ELSE db.users[u]
              /\ run.at # "idle" =>
                   /\ work'.transactions = work.transactions
                   /\ \A u \in Users :
                        work'.users[u] = IF u = x.id THEN x.row ELSE work.users[u]
         /\ x.table = "transactions" =>
              /\ x.id \in Transactions /\ x.row \in TransactionRow
              /\ db'.users = db.users
              /\ \A t \in Transactions :
                   db'.transactions[t] = IF t = x.id THEN x.row ELSE db.transactions[t]
              /\ run.at # "idle" =>
                   /\ work'.users = work.users
                   /\ \A t \in Transactions :
                        work'.transactions[t] = IF t = x.id THEN x.row ELSE work.transactions[t]
         /\ x.table \in {"users", "transactions"}
<1> DEFINE x == writing[w]
<1>1. /\ x # None /\ run' = run /\ db' = Written(db, x)
      /\ writing' = [writing EXCEPT ![w] = None]
      /\ work' = IF run.at = "idle" THEN None ELSE Written(work, x)
  BY DEF CommitWrite, At
<1>2. /\ x.table \in Unlocked /\ DOMAIN writing = Writers /\ db \in Database
      /\ \/ x \in [table : {"users"}, id : Users, row : UserRow]
         \/ x \in [table : {"transactions"}, id : Transactions, row : TransactionRow]
  BY <1>1 DEF MInv, TypeOK, WriteOK
<1>3. run.at # "idle" => work \in Database BY Running
<1>4. CASE x.table = "users"
  <2>1. /\ x \in [table : {"users"}, id : Users, row : UserRow]
        /\ x = [table |-> "users", id |-> x.id, row |-> x.row]
    BY <1>2, <1>4
  <2>2. /\ db'.version = db.version /\ db'.transactions = db.transactions
        /\ \A u \in Users : db'.users[u] = IF u = x.id THEN x.row ELSE db.users[u]
    BY <1>1, <1>2, <2>1, UserWritten
  <2>3. run.at # "idle" =>
          /\ work'.version = work.version /\ work'.transactions = work.transactions
          /\ \A u \in Users : work'.users[u] = IF u = x.id THEN x.row ELSE work.users[u]
    BY <1>1, <1>3, <2>1, UserWritten
  <2>. QED BY <1>1, <1>2, <1>4, <2>1, <2>2, <2>3
<1>5. CASE x.table = "transactions"
  <2>1. /\ x \in [table : {"transactions"}, id : Transactions, row : TransactionRow]
        /\ x = [table |-> "transactions", id |-> x.id, row |-> x.row]
    BY <1>2, <1>5
  <2>2. /\ db'.version = db.version /\ db'.users = db.users
        /\ \A t \in Transactions :
             db'.transactions[t] = IF t = x.id THEN x.row ELSE db.transactions[t]
    BY <1>1, <1>2, <2>1, TransactionWritten
  <2>3. run.at # "idle" =>
          /\ work'.version = work.version /\ work'.users = work.users
          /\ \A t \in Transactions :
               work'.transactions[t] = IF t = x.id THEN x.row ELSE work.transactions[t]
    BY <1>1, <1>3, <2>1, TransactionWritten
  <2>. QED BY <1>1, <1>2, <1>5, <2>1, <2>2, <2>3
<1>. QED BY <1>2, <1>4, <1>5

LEMMA CommitWriteCarries ==
  ASSUME MInv, Carried, NEW w \in Writers, CommitWrite(w)
  PROVE  Carried'
<1> DEFINE x == writing[w]
<1>1. /\ x # None /\ x.table \in Unlocked /\ x.table \in {"users", "transactions"}
      /\ run' = run /\ db'.version = db.version
      /\ run.at # "idle" => work'.version = work.version
      /\ \A v \in Writers : writing'[v] = IF v = w THEN None ELSE writing[v]
  BY WriteSeen
<1>2. \A v \in Writers : writing[v] # None /\ writing[v].table = "users" =>
        writing[v].id \in Users
  BY DEF MInv, TypeOK
<1>3. run.at # "idle" => Underway' BY <1>1 DEF Carried, Underway
<1>4. CASE x.table = "users"
  <2>1. /\ x.id \in Users /\ x.row # None /\ db'.transactions = db.transactions
        /\ \A u \in Users : db'.users[u] = IF u = x.id THEN x.row ELSE db.users[u]
        /\ run.at # "idle" =>
             /\ work'.transactions = work.transactions
             /\ \A u \in Users : work'.users[u] = IF u = x.id THEN x.row ELSE work.users[u]
    BY <1>4, WriteSeen, RowsAssumption
  <2>2. \A v \in Writers : NewRows(v)'
    BY <1>1, <1>2, <1>4, <2>1 DEF Carried, NewRows
  <2>3. run.at # "idle" => SameRows'
    <3>. SUFFICES ASSUME run.at # "idle" PROVE SameRows' OBVIOUS
    <3>1. SameTransactions' /\ TransactionRows(work)' = TransactionRows(work)
      BY <2>1 DEF Carried, SameRows, SameTransactions, TransactionRows
    <3>2. work.version >= 1 BY <1>1, <1>4, Running DEF Beside
    <3>3. SameUsers' BY <2>1, <3>2 DEF Carried, SameRows, SameUsers
    <3>. QED BY <1>1, <2>1, <3>1, <3>2, <3>3 DEF Carried, SameRows
  <2>. QED BY <1>1, <1>3, <2>2, <2>3 DEF Carried
<1>5. CASE x.table = "transactions"
  <2>1. /\ x.row # None /\ db'.users = db.users
        /\ \A t \in Transactions :
             db'.transactions[t] = IF t = x.id THEN x.row ELSE db.transactions[t]
        /\ run.at # "idle" =>
             /\ work'.users = work.users
             /\ \A t \in Transactions :
                  work'.transactions[t] = IF t = x.id THEN x.row ELSE work.transactions[t]
    BY <1>5, WriteSeen, RowsAssumption
  <2>2. \A v \in Writers : NewRows(v)'
    BY <1>1, <2>1 DEF Carried, NewRows
  <2>3. run.at # "idle" => SameRows'
    <3>. SUFFICES ASSUME run.at # "idle" PROVE SameRows' OBVIOUS
    <3>1. run.at # "commit" BY <1>1, <1>5, AtCommit
    <3>2. run.at # "decrypt" BY <1>1, <1>5, Batching DEF Unlocked
    <3>3. SameTransactions' BY <2>1 DEF Carried, SameRows, SameTransactions
    <3>4. SameUsers' BY <2>1, <3>1 DEF Carried, SameRows, SameUsers
    <3>. QED BY <1>1, <3>1, <3>2, <3>3, <3>4 DEF SameRows
  <2>. QED BY <1>1, <1>3, <2>2, <2>3 DEF Carried
<1>. QED BY <1>1, <1>4, <1>5

-----------------------------------------------------------------------------
(* The invariant *)

LEMMA NextCarries == ASSUME MInv, Carried, [Next]_vars PROVE Carried'
<1>1. CASE UNCHANGED vars
  BY <1>1 DEF vars, Carried, Underway, SameRows, SameUsers, SameTransactions,
     TransactionRows, NewRows
<1>2. ASSUME NEW dir \in {"up", "down"}, NEW key \in Keys \cup {None}, Start(dir, key)
      PROVE  Carried'
  BY <1>2, StartCarries
<1>3. CASE \/ Interrupt \/ DropTenantForeignKey
           \/ \E b \in Batches : RefuseEncrypt(b) \/ RefuseDecrypt(b)
  <2>1. \E why : Rollback(why)
    BY <1>3 DEF Interrupt, DropTenantForeignKey, RefuseEncrypt, RefuseDecrypt
  <2>. QED BY <2>1, RollbackCarries
<1>4. CASE MigrationStep
  BY <1>3, <1>4, CommitCarries, CreatingCarries, DropAuthCarries, TenantingCarries,
     SetNotNullCarries, AddingCarries, EncryptCarries, DropPlainCarries,
     DecryptCarries, DropEncryptedCarries
  DEF MigrationStep
<1>5. ASSUME NEW w \in Writers, EndWrite(w) PROVE Carried'
  BY <1>5, CommitWriteCarries, AbandonCarries DEF EndWrite
<1>6. ASSUME NEW w \in Writers,
             \/ \E u \in Users : SignUp(w, u) \/ EarlierSignUp(w, u)
             \/ \E t \in Transactions, c \in Creds \cup {None} :
                  \/ EarlierRecord(w, t, c)
                  \/ \E key \in Keys \cup {None} : Record(w, t, c, key)
      PROVE  Carried'
  BY <1>6, ArrivingCarries
<1>. QED BY <1>1, <1>2, <1>3, <1>4, <1>5, <1>6 DEF Next

(* At every statement of every revision the command sees the rows that      *)
(* everybody sees, and those alone, whatever is committed beside it.        *)
THEOREM RowsCarried == Spec => []Carried
<1>1. Init => Carried BY DEF Init, Idle, Carried, NewRows
<1>2. MInv /\ Carried /\ [Next]_vars => Carried' BY NextCarries
<1>. QED BY <1>1, <1>2, MigrationInductive, PTL DEF Spec

-----------------------------------------------------------------------------
(* The refinement *)

LEMMA LedgerBegins == Init => Ledger!Init
<1>. SUFFICES ASSUME Init PROVE Ledger!Init OBVIOUS
<1>1. PICK v \in Deployed : db = Empty(v) BY DEF Init
<1>. QED BY <1>1 DEF Empty, Ledger!Init, ReceiptOf

(* What the ledger says of a row that neither goes nor comes. *)
LEMMA CommitRows ==
  ASSUME MInv, Carried, Commit
  PROVE  \A t \in Transactions :
           ReceiptOf(db'.transactions[t]) = ReceiptOf(db.transactions[t])
<1>1. run.at = "commit" /\ db' = work BY DEF Commit, At
<1>2. KeptView(work) /\ KeptView(db) /\ SameTransactions
  BY <1>1, Running DEF AtStatement, Statements, MInv, CredentialsKept, Carried, SameRows
<1>. QED BY <1>1, <1>2 DEF KeptView, TransactionRows, SameTransactions, ReceiptOf

LEMMA CommitIsRevision ==
  ASSUME MInv, Carried, Commit
  PROVE  Ledger!Upgrade \/ Ledger!Downgrade
<1>1. /\ run.at = "commit" /\ db' = work /\ run.dir \in {"up", "down"} /\ SameRows
  BY Running DEF Commit, At, Carried
<1>2. [t \in Transactions |-> ReceiptOf(db'.transactions[t])] =
      [t \in Transactions |-> ReceiptOf(db.transactions[t])]
  BY CommitRows
<1>3. CASE run.dir = "up"
  <2>1. db.version < 4 /\ db'.version = 4 BY <1>1, <1>3, AtCommit
  <2>2. SameUsers BY <1>1, <1>3 DEF SameRows
  <2>3. {u \in Users : db'.users[u] # None} = {u \in Users : db.users[u] # None}
    BY <1>1, <2>2 DEF SameUsers
  <2>. QED BY <1>2, <2>1, <2>3 DEF Ledger!Upgrade
<1>4. CASE run.dir = "down"
  <2>1. db.version \in {1, 2, 4} /\ db'.version = db.version - 1
    BY <1>1, <1>4, AtCommit
  <2>2. {u \in Users : db'.users[u] # None} =
          IF db.version = 1 THEN {} ELSE {u \in Users : db.users[u] # None}
    BY <1>1, <1>4, <2>1 DEF SameRows, SameUsers
  <2>3. db.version = 4 =>
          \A t \in Transactions : ReceiptOf(db.transactions[t]) # None =>
            ReceiptOf(db.transactions[t]).secret \notin Long
    <3>. SUFFICES ASSUME db.version = 4, NEW t \in Transactions,
                         ReceiptOf(db.transactions[t]) # None
         PROVE  ReceiptOf(db.transactions[t]).secret \notin Long
      OBVIOUS
    <3>1. db.transactions[t] # None BY DEF ReceiptOf
    <3>2. work.transactions[t] # None /\ Fits(work.transactions[t])
      BY <1>1, <1>4, <2>1, <3>1 DEF SameRows, SameTransactions, TransactionRows
    <3>3. ReceiptOf(work.transactions[t]).secret \notin Long
      BY <3>2 DEF ReceiptOf, Fits
    <3>. QED BY <1>1, <3>3, CommitRows
  <2>. QED BY <1>2, <2>1, <2>2, <2>3 DEF Ledger!Downgrade
<1>. QED BY <1>1, <1>3, <1>4

LEMMA CommitWriteIsWrite ==
  ASSUME MInv, Carried, NEW w \in Writers, CommitWrite(w)
  PROVE  \/ \E u \in Users : Ledger!SignUp(u)
         \/ \E t \in Transactions, c \in Creds \cup {None} : Ledger!Record(t, c)
<1> DEFINE x == writing[w]
<1>1. /\ x # None /\ x.table \in Unlocked /\ x.table \in {"users", "transactions"}
      /\ db'.version = db.version /\ NewRows(w)
  BY WriteSeen DEF Carried
<1>2. db.version \in 0..4 /\ x.table \in SchemaAt(db.version)
  BY <1>1 DEF Unlocked, MInv, TypeOK, Database, Head, RevisionIsWhole, WholeView
<1>3. CASE x.table = "users"
  <2>1. /\ x.id \in Users /\ x.row # None /\ db'.transactions = db.transactions
        /\ \A u \in Users : db'.users[u] = IF u = x.id THEN x.row ELSE db.users[u]
    BY <1>3, WriteSeen, RowsAssumption
  <2>2. db.version >= 1 /\ db.users[x.id] = None
    BY <1>1, <1>2, <1>3, Tables DEF NewRows
  <2>3. {u \in Users : db'.users[u] # None} =
          {u \in Users : db.users[u] # None} \cup {x.id}
    BY <2>1
  <2> SUFFICES ASSUME NEW p \in Users, p = x.id PROVE Ledger!SignUp(p)
    BY <2>1
  <2>4. p \notin {u \in Users : db.users[u] # None} BY <2>2
  <2>5. [t \in Transactions |-> ReceiptOf(db'.transactions[t])] =
          [t \in Transactions |-> ReceiptOf(db.transactions[t])]
    BY <2>1
  <2> HIDE DEF x
  <2>. QED BY <1>1, <2>2, <2>3, <2>4, <2>5 DEF Ledger!SignUp
<1>4. CASE x.table = "transactions"
  <2>1. /\ x.id \in Transactions /\ x.row \in TransactionRow /\ db'.users = db.users
        /\ \A t \in Transactions :
             db'.transactions[t] = IF t = x.id THEN x.row ELSE db.transactions[t]
    BY <1>4, WriteSeen
  <2>2. db.version >= 3 /\ (db.version = 3 => Fits(x.row))
    BY <1>1, <1>2, <1>4, Tables DEF NewRows
  <2>3. Credential(x.row) \in Creds \cup {None}
    BY <2>1 DEF Credential, TransactionRow, Encrypted
  <2>4. ReceiptOf(x.row) = [secret |-> Credential(x.row)]
    BY <2>1, RowsAssumption DEF ReceiptOf
  <2>5. [t \in Transactions |-> ReceiptOf(db'.transactions[t])] =
          [[t \in Transactions |-> ReceiptOf(db.transactions[t])]
             EXCEPT ![x.id] = [secret |-> Credential(x.row)]]
    BY <2>1, <2>4
  <2>6. Ledger!Record(x.id, Credential(x.row))
    BY <1>1, <2>1, <2>2, <2>5 DEF Ledger!Record, Fits
  <2>. QED BY <2>1, <2>3, <2>6
<1>. QED BY <1>1, <1>3, <1>4

LEMMA Unseen == UNCHANGED db => UNCHANGED Ledger!vars
BY DEF Ledger!vars

LEMMA LedgerStep ==
  ASSUME MInv, Carried, [Next]_vars
  PROVE  [Ledger!Next]_(Ledger!vars)
<1>1. CASE Commit BY <1>1, CommitIsRevision DEF Ledger!Next
<1>2. ASSUME NEW w \in Writers, CommitWrite(w) PROVE Ledger!Next
  BY <1>2, CommitWriteIsWrite DEF Ledger!Next
<1>3. CASE MigrationStep
  <2>1. Commit \/ UNCHANGED db
    BY <1>3
    DEF MigrationStep, CreateAuth, DropAuth, CreateVerification, DropVerification,
        CreateTenants, AddTenantId, Backfill, SetNotNull, DropTenantForeignKey,
        AddEncrypted, DropPlain, AddPlain, DropEncrypted, Encrypt, RefuseEncrypt,
        Decrypt, RefuseDecrypt, Rollback, Others
  <2>. QED BY <1>1, <2>1, Unseen
<1>4. ASSUME NEW w \in Writers,
             \/ AbandonWrite(w)
             \/ \E u \in Users : SignUp(w, u) \/ EarlierSignUp(w, u)
             \/ \E t \in Transactions, c \in Creds \cup {None} :
                  \/ EarlierRecord(w, t, c)
                  \/ \E key \in Keys \cup {None} : Record(w, t, c, key)
      PROVE  UNCHANGED db
  BY <1>4 DEF AbandonWrite, SignUp, EarlierSignUp, Record, EarlierRecord, Write
<1>5. CASE \/ Interrupt \/ UNCHANGED vars
           \/ \E dir \in {"up", "down"}, key \in Keys \cup {None} : Start(dir, key)
  BY <1>5, Unseen DEF Interrupt, Rollback, Start, vars
<1>. QED BY <1>2, <1>3, <1>4, <1>5, Unseen DEF Next, EndWrite

(* However a command is interleaved with sign-ups and payments, refused or  *)
(* interrupted, it is one whole upgrade or downgrade, or nothing: it loses  *)
(* no row and no credential, and undoes nothing committed beside it.        *)
THEOREM MigrationsRefine == Spec => ImplementsRevisions
<1>1. MInv /\ Carried /\ [Next]_vars => [Ledger!Next]_(Ledger!vars) BY LedgerStep
<1>. QED
  BY <1>1, LedgerBegins, RowsCarried, MigrationInductive, PTL
  DEF Spec, ImplementsRevisions, Ledger!Spec
=============================================================================
