SPECIFICATION Spec
CONSTANTS
  None = None
  alice = alice
  Alice = Alice
  bob = bob
  Addresses = {alice, bob}
  Norm <- MCNormTwo
  Subs = {}
  Passwords = {p, q}
  Browsers = {b1}
  Requests = {r1, r2}
  Endpoints <- Mailing
  Registered = {}
  TimePasses = FALSE
  MaxRefresh = 1
  MaxTokens = 2
SYMMETRY Interchangeable
INVARIANT CommittedWritesStick
INVARIANT VerifiedNeedsProof
INVARIANT LoginsUseCurrentPassword
PROPERTY PasswordNeedsResetToken
