SPECIFICATION Spec
CONSTANTS
  a1 = a1
  a2 = a2
  Attempts = {a1, a2}
  MaxDraws = 4
  MaxMounts = 4
  MaxTxs = 2
  MaxSwitches = 2
  Instants = {70}
  Inputs <- AllInputs
  OracleDecimals = 1
  MaxPrice = 1000
  Rounds = 2
  Interval = 60
  BaseAnswers = {25, 30, 35}
  QuoteAnswers = {9, 10, 11}
  BaseDecimals = 1
  NormDecimals = 2
  QuoteDecimals = 1
CHECK_DEADLOCK FALSE
INVARIANT PressSubmits
