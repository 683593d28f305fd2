-------------------------- MODULE MigrationLedger --------------------------
(***************************************************************************)
(* Migrations implements RevisionLedger: a command is an Upgrade or a      *)
(* Downgrade at its COMMIT and nothing before, and what the application    *)
(* commits at any of its statements is there afterwards.                   *)
(*                                                                         *)
(* Carried is the invariant this takes beside MInv: which rows the         *)
(* transaction of the command and everybody else see.                      *)
(***************************************************************************)
EXTENDS Migrations

(* NULL is no row, neither of a table nor of the ledger. *)
ASSUME RowsAssumption ==
  None \notin UserRow \cup TransactionRow \cup [secret : Creds \cup {None}]

ReceiptOf(row) ==
  IF row = None THEN None ELSE [secret |-> Credential(row)]

Ledger == INSTANCE RevisionLedger WITH
  People   <- Users,
  Receipts <- Transactions,
  Secrets  <- Creds,
  version  <- db.version,
  member   <- {u \in Users : db.users[u] # None},
  receipt  <- [t \in Transactions |-> ReceiptOf(db.transactions[t])]

(* Upgrades and downgrades, refused or interrupted anywhere, lose no row,   *)
(* make none up and undo no write that was committed beside them: what the  *)
(* tables show is a sequence of whole revisions and whole writes.           *)
ImplementsRevisions == Ledger!Spec

-----------------------------------------------------------------------------
SameUsers ==
  \A u \in Users : work.users[u] = None <=> db.users[u] = None
SameTransactions ==
  \A t \in Transactions : work.transactions[t] = None <=> db.transactions[t] = None

Fits(row) == Credential(row) \notin Long

(* Where the command comes from and how far it is. *)
Underway ==
  /\ run.dir = "up" => db.version < Head /\ (run.at = "commit" => work.version = Head)
  /\ run.dir = "down" =>
       /\ db.version > 0
       /\ work.version = IF run.at = "commit" THEN db.version - 1 ELSE db.version
       /\ run.at = "commit" => db.version # 3

(* The command sees the rows that everybody sees, until the first revision  *)
(* is undone; what it has decrypted fits its column.                        *)
SameRows ==
  /\ SameTransactions
  /\ IF run.dir = "down" /\ run.at = "commit" /\ work.version = 0
     THEN \A u \in Users : work.users[u] = None
     ELSE SameUsers
  /\ run.at = "decrypt" =>
       \A t \in TransactionRows(work) \ run.todo : work.transactions[t].mikrotik \notin Long
  /\ run.dir = "down" /\ run.at = "commit" /\ work.version = 3 =>
       \A t \in TransactionRows(work) : Fits(work.transactions[t])

(* Sign-ups in flight are new users, each another one; a credential in      *)
(* plain text fits its column.                                              *)
NewRows(w) ==
  writing[w] # None =>
    LET x == writing[w] IN
    /\ x.table = "users" =>
         /\ db.users[x.id] = None
         /\ \A v \in Writers \ {w} :
              writing[v] # None /\ writing[v].table = "users" => writing[v].id # x.id
    /\ x.table = "transactions" /\ db.version = 3 => Fits(x.row)

(* At every statement of a command and of the writers beside it.            *)
Carried ==
  /\ run.at # "idle" => Underway /\ SameRows
  /\ \A w \in Writers : NewRows(w)
=============================================================================
