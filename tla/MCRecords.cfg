SPECIFICATION Spec
CONSTANTS
  m1 = m1
  l1 = l1
  Orders = {m1, l1}
  Market = {m1}
  MaxRestarts = 1
CHECK_DEADLOCK FALSE
INVARIANTS TypeOK NoLostWakeup SuccessIsReal MarketSharesReady
