SPECIFICATION Spec
CONSTANTS
  o1 = o1
  g1 = g1
  g2 = g2
  j1 = j1
  Orders = {o1}
  Threads = {g1, g2}
  Jobs = {j1}
  MaxRetries = 1
  Callbacks = {TRUE}
  MaxCrashes = 1
  NoOrder = NoOrder
  NoThread = NoThread
CHECK_DEADLOCK FALSE
PROPERTY DoneIsFinal
