SPECIFICATION Spec
CONSTANTS
  Key = {k1}
  Txid = {x1, x2}
  Thread = {t1, t2}
  NoTx = NoTx
  NoKey = NoKey
  NoThread = NoThread
  Faults = {"lost_response"}
  Backends = {"sqlite"}
INVARIANTS
  AtMostOnePayment
