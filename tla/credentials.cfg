SPECIFICATION Spec
CONSTANTS
  None = None
  Requests = {r1, r2}
  Passwords <- FewPasswords
  Inbound = {h}
SYMMETRY Interchangeable
CHECK_DEADLOCK FALSE
INVARIANT CredentialFailuresShareAnAnswer
