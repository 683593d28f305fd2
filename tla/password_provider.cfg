SPECIFICATION Spec
CONSTANTS
  None = None
  alice = alice
  Alice = Alice
  bob = bob
  Addresses = {alice}
  Norm <- MCNormOne
  Subs = {s}
  Passwords = {p}
  Browsers = {b1}
  Requests = {r1, r2}
  Endpoints <- GoogleResetting
  Registered = {}
  TimePasses = FALSE
  MaxRefresh = 3
  MaxTokens = 1
SYMMETRY Interchangeable
INVARIANT PasswordHasProvider
