SPECIFICATION Spec
CONSTANTS
  Client = {a}
  Capacity = 2
  Cost = 3
  Refill = 2
  IdleThreshold = 6
  CheckTime = 1
  MaxTime = 15
  MaxStepBack = 1
  MaxFaults = 2
INVARIANTS
  NoExtraBurst
  RefusalCostsNothing
CHECK_DEADLOCK FALSE
