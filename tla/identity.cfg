SPECIFICATION Spec
CONSTANTS
  None = None
  alice = alice
  Alice = Alice
  bob = bob
  Addresses = {alice, Alice, bob}
  Norm <- MCNorm
  Subs = {s, t}
  Passwords = {p, q}
  Browsers = {b1}
  Requests = {r1, r2}
  Endpoints <- Identifying
  Registered = {}
  TimePasses = FALSE
  MaxRefresh = 2
  MaxTokens = 1
SYMMETRY Interchangeable
INVARIANT SessionsVerified
INVARIANT GoogleLoginsLinked
INVARIANT OneAccountPerMailbox
