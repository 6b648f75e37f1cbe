SPECIFICATION Spec
CONSTANTS
  Entry <- MCEntry
  Process = {1, 2}
  Base = 2
  DayLen = 2
  Msk = 1
  MaxDays = 2
  Limit = 2
  MaxRecords <- MCMaxRecords
  MaxWriters <- MCMaxWriters
  MaxFaults = 2
  MaxTime = 2
INVARIANTS
  TearLosesOneRecord
  PagingIsComplete
  ReportsAddUp
PROPERTIES
  StartupOkIsTrue
CHECK_DEADLOCK FALSE
