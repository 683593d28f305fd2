SPECIFICATION Spec
CONSTANTS
  None = None
  Requests = {r1, r2}
  Passwords <- MCPasswords
  Inbound = {h}
CHECK_DEADLOCK FALSE
INVARIANT LinesCarryTheirId
INVARIANT EveryAnswerLogged
INVARIANT PInv
INVARIANT AcceptedPasswordsWork
SYMMETRY Interchangeable
