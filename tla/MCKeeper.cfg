SPECIFICATION Spec
CONSTANTS
  o1 = o1
  Settings <- TwoSettings
  MaxGenerations = 2 MaxCrashes = 1
  NoFile = NoFile TornFile = TornFile
  Sources = {s1} Rate = 1 Cost = 2 BucketTtl = 1 MaxTime = 2 NoAnswer = NoAnswer
  NormDecimals = 2 MaxPrice = 8 OracleDecimals = 0 NoFeed = NoFeed
  Batches = {{o1}} Kinds <- EitherKind Limit <- SellAtTwo Window <- WindowZeroOne
  Expiry <- ExpiryOne MaxAge = 0 PageN = 2 PageK = 2
  Markets <- ThreeMarkets Verifiers = {"real", "mock"}
  Jobs = {1} MaxRetries = 2 Callbacks = {TRUE} NoOrder = NoOrder
INVARIANTS TypeOK PricesAgree AcceptedHasSecret FillsProved
PROPERTIES KeysOutliveProcess ImplementsBucket ImplementsJobs
CHECK_DEADLOCK FALSE
