SPECIFICATION FairSpec
CONSTANTS
  a1 = a1
  a2 = a2
  Attempts = {a1, a2}
  MaxDraws = 5
  MaxMounts = 4
  MaxTxs = 2
  MaxSwitches = 2
  Instants = {70, 150}
  Inputs <- SellOrMarket
  OracleDecimals = 1
  MaxPrice = 1000
  Rounds = 2
  Interval = 60
  BaseAnswers = {25, 30, 35}
  QuoteAnswers = {9, 10, 11}
  BaseDecimals = 1
  NormDecimals = 2
  QuoteDecimals = 1
CHECK_DEADLOCK FALSE
INVARIANTS TypeOK ChainFirst Recoverable ConfirmedIsPosted OrderPostedOnce FreshRounds FillsAsAsked
PROPERTIES RoundsInTurn MarketWaitEnds
