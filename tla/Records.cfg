SPECIFICATION Spec
CONSTANTS
  Name = {"a", "b"}
  Version = {1, 2}
  Goroutine = {"g", "h", "k"}
  Limit = 2
  MaxEntries = 4
  MaxBytes = 2
  MaxSessions = 3
  MaxFaults = 2
  Torn = Torn
  None = None
INVARIANTS
  HistoryComplete
  TotalsAreReal
  StatisticsKept
PROPERTIES
  ProfilesSpec
CHECK_DEADLOCK FALSE
