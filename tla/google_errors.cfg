SPECIFICATION Spec
CONSTANTS
  None = None
  alice = alice
  Alice = Alice
  bob = bob
  Addresses = {alice, bob}
  Norm <- MCNormTwo
  Subs = {s, t}
  Passwords = {p}
  Browsers = {b1}
  Requests = {r1, r2}
  Endpoints <- Googling
  Registered = {alice}
  TimePasses = FALSE
  MaxRefresh = 3
  MaxTokens = 1
SYMMETRY Interchangeable
INVARIANT GoogleFailuresMapped
