SPECIFICATION FairSpec
CONSTANTS
  None = None
  Users = {u1}
  Transactions = {t1, t2}
  Creds = {c, long}
  Long = {long}
  Keys = {k1, k2}
  BatchSize = 1
  DefaultTenant = default
  Writers = {w1, w2}
  Deployed <- MCDeployed
INVARIANT RevisionIsWhole
INVARIANT CredentialsKept
INVARIANT ReadsAreTrue
INVARIANT SignUpsNeverStopUpgrades
INVARIANT MInv
PROPERTY MigrationEnds
PROPERTY ImplementsRevisions
