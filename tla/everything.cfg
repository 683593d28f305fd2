SPECIFICATION Spec
CONSTANTS
  None = None
  alice = alice
  Alice = Alice
  bob = bob
  Addresses = {alice}
  Norm <- MCNormOne
  Subs = {s}
  Passwords = {p}
  Browsers = {b1}
  Requests = {r1, r2}
  Endpoints <- Everything
  Registered = {}
  TimePasses = TRUE
  MaxRefresh = 2
  MaxTokens = 1
SYMMETRY Interchangeable
INVARIANT IInv
PROPERTY NothingTakenBack
INVARIANT Provenance
INVARIANT EveryAccountHasAWayIn
PROPERTY ImplementsLedger
