SPECIFICATION FairSpec
CONSTANTS
  Profile = {"a", "b", "c"}
  OpenVPN = {"c"}
  MaxSessions = 2
  MaxMixed = 1
  MaxFaults = 1
INVARIANTS
  SingleEngine
  RecordIsOwned
  NetworkIsJournaled
  ConnectedHasRoutes
  LiveIsWatched
PROPERTIES
  NegotiationEnds
  StopReleases
  ReaderLeaves
CHECK_DEADLOCK FALSE
