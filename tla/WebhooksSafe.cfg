SPECIFICATION FairSpec
CONSTANTS
  Event <- OneEvent
  Url = {u1, u2}
  Backoff <- Schedule
  Limit = 2
  Operator = {o1, o2}
  Faults = {"db_error", "lost_response"}
  MaxTrouble = 1
  MaxStops = 1
  MaxForced = 1
  MaxDelay = 2
  AuditRecord <- Records
  EventFilter = {"SEND_FAILED", "WEBHOOK_GIVEUP"}
  Threshold = 2
  SanctionsNotify = TRUE
  HoursInDay = 3
INVARIANTS
  DeliveredWasAccepted
  AttemptsMatchSchedule
  QuietHoursKept
PROPERTIES
  BackoffIsKept
  DeliveredIsFinal
  EveryDeliveryEnds
