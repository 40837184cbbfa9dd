SPECIFICATION NetSpec
CONSTANTS
  Tx = {1}
  MaxLen = 4
  MaxFaults = 1
  Platform = {"darwin"}
  Dest = {"lan", "lab"}
  Domain = {"corp", "test"}
  Network <- Disjoint
  HostEntries <- ResolverFile
  MaxSilent = 0
PROPERTY
  RecoverySparesOthers
CHECK_DEADLOCK FALSE
