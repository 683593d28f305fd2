SPECIFICATION FairSpec
CONSTANTS
  None = None
  alice = alice
  Alice = Alice
  bob = bob
  Addresses = {alice}
  Norm <- MCNormOne
  Subs = {}
  Passwords = {p}
  Browsers = {b1}
  Requests = {r1, r2}
  Endpoints <- Sessioned
  Registered = {alice}
  TimePasses = FALSE
  MaxRefresh = 3
  MaxTokens = 1
INVARIANT TypeOK
INVARIANT RotationRetiresParent
INVARIANT DeadTokenStaysDead
INVARIANT ResetRevokesEarlier
INVARIANT NoCircularWait
INVARIANT Standing
PROPERTY EveryRequestFinishes
