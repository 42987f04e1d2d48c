SPECIFICATION Spec
CONSTANTS
  h1 = h1 Hashes = {h1} KindOf <- OrderFill
  Feeds = {feeds} NoFile = NoFile
  Reuses = {{}, {"ORDER_FILL", "DCA", "adapter", "gasVault"}}
  Skips = {{"gasVault"}, {"vault"}}
  Lists <- EitherList
  MaxContracts = 8 MaxFree = 1
INVARIANTS TypeOK ArtifactTrue PendingReachable LocksBacked
PROPERTIES BalancesReturned
CHECK_DEADLOCK FALSE
