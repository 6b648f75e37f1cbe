SPECIFICATION Spec
CONSTANTS
  Recipient <- MCRecipient
  Facts <- MCFacts
  MaxStarts = 2
  Pool <- MCPool
  MaxBalance = 3
  Price = {1, 2}
  Fallback = 1
  TTL = 2
  MinFee = 1
  MaxFee = 9
  MaxBurn = 4
  MarginNum = 3
  MarginDen = 2
  MaxTime = 5
  Malformed = {"bad"}
  Amount = {1, 2, 3}
  Energy = {2, 4}
  MaxPending = 2
  Focus = {"risk", "funds", "price"}
  Listable = {"plain", "tether"}
INVARIANTS HazardStopsPayment CoveredUnlessCrossed BurnGateHolds
CHECK_DEADLOCK FALSE
