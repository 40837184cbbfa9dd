SPECIFICATION Spec
CONSTANTS
  Profile = {"a", "b"}
  TwoFactor = {}
  MaxSessions = 2
  MaxDaemons = 1
  MaxFaults = 0
PROPERTY
  StopSparesOthers
CHECK_DEADLOCK FALSE
