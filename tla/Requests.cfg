SPECIFICATION Spec
CONSTANTS
  MaxLines = 7
  Bits = 2
  MaxRoutes = 3
  MaxDomains = 1
  MaxServers = 2
  Malformed = Malformed
  Words <- MCWords
  Files <- MCFiles
INVARIANTS
  AcceptedIffSound
  ServersAreRouted
  EngineTextIsTame
  FlowsFollowRoutes
CHECK_DEADLOCK FALSE
