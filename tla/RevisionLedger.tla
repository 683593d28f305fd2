--------------------------- MODULE RevisionLedger ---------------------------
(***************************************************************************)
(* What the revisions under alembic/versions/ promise of the rows they     *)
(* carry along, without statements, batches, locks and transactions: a     *)
(* command changes the version and no row, sign-ups and payments change    *)
(* one row and no version.  Migrations, statement by statement, implements *)
(* it.                                                                     *)
(***************************************************************************)
EXTENDS Naturals

CONSTANTS
  People, Receipts,  \* primary keys of users and of transactions
  Secrets,           \* MikroTik credentials
  Long,              \* those that are longer than the plain column
  Deployed,          \* revisions the database may be at to begin with
  None

VARIABLES
  version,  \* 0..4, the revision of the database
  member,   \* the people that have an account
  receipt   \* Receipts -> [secret] or None

vars == <<version, member, receipt>>

(* upgrade(): to the head, whatever the revision; every row stays and keeps *)
(* its credential.                                                          *)
Upgrade ==
  /\ version < 4
  /\ version' = 4
  /\ UNCHANGED <<member, receipt>>

(* downgrade(): back by one revision, from all but the third.  The first    *)
(* one takes the users with it; the last needs credentials that fit the     *)
(* column they return to.                                                   *)
Downgrade ==
  /\ version \in {1, 2, 4}
  /\ version = 4 =>
       \A t \in Receipts : receipt[t] # None => receipt[t].secret \notin Long
  /\ version' = version - 1
  /\ member' = IF version = 1 THEN {} ELSE member
  /\ UNCHANGED receipt

(* A user signs up. *)
SignUp(u) ==
  /\ version >= 1
  /\ u \notin member
  /\ member' = member \cup {u}
  /\ UNCHANGED <<version, receipt>>

(* A transaction is recorded, or its credential is set anew. *)
Record(t, c) ==
  /\ version >= 3
  /\ version = 3 => c \notin Long
  /\ receipt' = [receipt EXCEPT ![t] = [secret |-> c]]
  /\ UNCHANGED <<version, member>>

Init ==
  /\ version \in Deployed
  /\ member = {}
  /\ receipt = [t \in Receipts |-> None]

Next ==
  \/ Upgrade \/ Downgrade
  \/ \E u \in People : SignUp(u)
  \/ \E t \in Receipts, c \in Secrets \cup {None} : Record(t, c)

Spec == Init /\ [][Next]_vars
=============================================================================
