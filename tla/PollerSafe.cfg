SPECIFICATION Spec
CONSTANTS
  Txid = {x1, x2}
  Lookback = 2
  Giveup = 2
  Batch = 2
  Codes = {"SUCCESS", "REVERT"}
  Punctual = FALSE
  SettleWithin = 4
  Faults = {"audit_error", "db_error"}
  MaxTime = 3
  CommitBy = 1
  MaxRpcErrors = 1
  MaxSlowStops = 1
SYMMETRY Symmetry
INVARIANTS
  VerdictIsTrue
  GiveupIsPatient
  OneReceiptPerPayment
PROPERTIES
  VerdictIsFinal
