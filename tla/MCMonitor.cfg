SPECIFICATION FairSpec
CONSTANTS
  o1 = o1
  g1 = g1
  g2 = g2
  j1 = j1
  Orders = {o1}
  Threads = {g1, g2}
  Jobs = {j1}
  MaxRetries = 2
  Callbacks = {TRUE, FALSE}
  MaxCrashes = 1
  NoOrder = NoOrder
  NoThread = NoThread
CHECK_DEADLOCK FALSE
INVARIANTS TypeOK OneTrigger OneWatcher PendingAttended
PROPERTIES ExecutingResolves StopsTriggering
