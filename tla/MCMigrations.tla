---------------------------- MODULE MCMigrations ----------------------------
(* Small instances of Migrations for TLC. *)
EXTENDS MigrationLedger, TLC

MCDeployed == 0..3

(* No definition tells these apart; Long is a set of one credential. *)
Interchangeable ==
  Permutations(Users) \cup Permutations(Transactions) \cup Permutations(Keys)
    \cup Permutations(Writers)
=============================================================================
