SPECIFICATION FairSpec
CONSTANTS
  Key = {k1}
  Txid = {x1, x2}
  Thread = {t1}
  NoTx = NoTx
  NoKey = NoKey
  NoThread = NoThread
  Faults = {"lost_response", "db_error", "audit_error"}
  Backends = {"sqlite", "memory"}
INVARIANTS
  TypeOK
  AnswersAreOnChain
  AnswersAreAudited
  AuditIsTrue
PROPERTIES
  ReservedOnDiskBeforeBroadcast
  CommittedIsFinal
  LockIsReleased
