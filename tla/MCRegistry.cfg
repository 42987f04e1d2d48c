SPECIFICATION Spec
CONSTANTS
  A = A
  B = B
  h1 = h1
  h2 = h2
  n1 = n1
  n2 = n2
  u1 = u1
  u2 = u2
  keeper = keeper
  v1 = v1
  v2 = v2
  g1 = g1
  registry = registry
  newRegistry = newRegistry
  adapter = adapter
  mock = mock
  admin = admin
  Users = {u1}
  Keepers = {keeper}
  Tokens = {A, B}
  Hashes = {h1, h2}
  Nullifiers = {n1, n2}
  Vaults = {v1, v2}
  GasVaults = {g1}
  Registries = {registry, newRegistry}
  This = registry
  Adapters = {adapter}
  ChecksMinOut = {}
  Guardians = {admin}
  NoOwner = NoOwner
  NoFeed = NoFeed
  Strategy <- MCStrategy
  Offers <- BatchOffers
  InitialWallet <- MCWallet
  Answers <- FixedAnswers
  InitialAnswer <- AtLimit
  Decimals <- MCDecimals
  InitialVerifiers = {"ORDER_FILL", "DCA"}
  Amounts = {3}
  AmountsOut = {1}
  GasAmounts = {1}
  GasCosts = {0}
  MaxGas = 0
  MaxPrice = 2
  NormDecimals = 0
  Staleness = {1}
  MaxBatch = 2
  FillRefMaxAge = 1
  MaxTime = 3
  Horizon = 2
INVARIANTS TypeOK CollateralEarmarked Solvent OneFillPerNullifier
PROPERTIES ImplementsLedger
