SPECIFICATION LimitSpec
CONSTANTS
  Stores = {s1}
  Volatile = FALSE
  Limits <- TwoLimits
  Amount <- TwoAmounts
  Longest = 6
  Period <- TwoPeriods
INVARIANT RefusalsSayWhen
