SPECIFICATION NetSpec
CONSTANTS
  Tx = {1, 2}
  MaxLen = 4
  MaxFaults = 0
  Platform = {"linux"}
  Dest = {"lan", "lab"}
  Domain = {"corp", "test"}
  Network <- SharedRoute
  HostEntries <- NoEntries
  MaxSilent = 0
INVARIANT
  ActiveIsInstalled
CHECK_DEADLOCK FALSE
