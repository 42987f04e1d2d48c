SPECIFICATION Spec
CONSTANTS
  m1 = m1
  l1 = l1
  Orders = {m1}
  Market = {m1}
  MaxRestarts = 0
CHECK_DEADLOCK FALSE
INVARIANT MarketKindKept
