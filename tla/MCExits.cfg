SPECIFICATION FairSpec
CONSTANTS
  A = A
  B = B
  h1 = h1
  h2 = h2
  n1 = n1
  n2 = n2
  u1 = u1
  u2 = u2
  keeper = keeper
  v1 = v1
  v2 = v2
  g1 = g1
  registry = registry
  newRegistry = newRegistry
  adapter = adapter
  mock = mock
  admin = admin
  Users = {u1, u2}
  Keepers = {keeper}
  Tokens = {A, B}
  Hashes = {h1, h2}
  Nullifiers = {n1, n2}
  Vaults = {v1}
  GasVaults = {g1}
  Registries = {registry}
  This = registry
  Adapters = {adapter, mock}
  ChecksMinOut = {mock}
  Guardians = {admin}
  NoOwner = NoOwner
  NoFeed = NoFeed
  Strategy <- MCStrategy
  Offers <- CommittedOffers
  InitialWallet <- MCWallet
  Answers <- TwoAnswers
  InitialAnswer <- AtLimit
  Decimals <- MCDecimals
  InitialVerifiers = {"ORDER_FILL", "DCA"}
  Amounts = {3}
  AmountsOut = {0, 1}
  GasAmounts = {1}
  GasCosts = {1}
  MaxGas = 1
  MaxPrice = 2
  NormDecimals = 0
  Staleness = {1}
  MaxBatch = 2
  FillRefMaxAge = 1
  MaxTime = 4
  Horizon = 3
INVARIANT Solvent
PROPERTIES FillsOnTerms GasSpentOnOwnFills PendingResolves
