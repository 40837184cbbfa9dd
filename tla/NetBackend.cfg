SPECIFICATION NetSpec
CONSTANTS
  Tx = {1, 2}
  MaxLen = 4
  MaxFaults = 2
  Platform <- Platforms
  Dest = {"lan", "lab"}
  Domain = {"corp", "test"}
  Network <- Disjoint
  HostEntries <- SomeEntries
  MaxSilent = 1
INVARIANTS
  ActiveIsInstalled
  HostIsAccounted
PROPERTIES
  RecoveryTakesClaimed
CHECK_DEADLOCK FALSE
