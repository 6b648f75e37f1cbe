SPECIFICATION LiveSpec
CONSTANTS
  Txid = {x1, x2}
  Lookback = 5
  Giveup = 2
  Batch = 1
  Codes = {"SUCCESS", "REVERT"}
  Punctual = TRUE
  SettleWithin = 1
  Faults = {}
  MaxTime = 7
  CommitBy = 1
  MaxRpcErrors = 1
  MaxSlowStops = 0
PROPERTIES
  EveryPaymentResolved
