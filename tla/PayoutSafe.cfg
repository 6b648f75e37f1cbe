SPECIFICATION Spec
CONSTANTS
  Key = {k1, k2}
  Txid = {x1, x2}
  Thread = {t1, t2}
  NoTx = NoTx
  NoKey = NoKey
  NoThread = NoThread
  Faults = {"audit_error"}
  Backends = {"sqlite"}
SYMMETRY Symmetry
INVARIANTS
  AtMostOnePayment
  PaidKeyRemembered
  SameAnswerForSameKey
  PendingIsInFlight
PROPERTIES
  ImplementsLedger
