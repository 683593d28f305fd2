SPECIFICATION Spec
CONSTANTS
  None = None
  Users = {u1}
  Workers = {w1, w2}
  Sessions = {s1, s2, s3}
  Second = 2
  Ttl = 3
  Skew = 1
  Horizon = 10
SYMMETRY Interchangeable
INVARIANT AInv
INVARIANT OldTokensRefused
INVARIANT GoodTokensAccepted
INVARIANT LogoutsTakeEffect
