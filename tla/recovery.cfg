SPECIFICATION Spec
CONSTANTS
  Stores = {s1, s2}
  Volatile = TRUE
  Limits <- TwoLimits
  Amount <- SmallAmounts
  Longest = 3
  Period <- SmallPeriods
  Tokens = {k1}
INVARIANT LimitTypeOK
INVARIANT BurstBound
PROPERTY LongLimitCountsServed
PROPERTY LetInAgain
PROPERTY VerifiedInTheEnd
