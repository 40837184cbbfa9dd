SPECIFICATION FairSpec
CONSTANTS
  Profile = {"a", "b"}
  TwoFactor = {"a", "b"}
  MaxSessions = 2
  MaxDaemons = 2
  MaxFaults = 1
INVARIANTS
  ConnectedIsServed
  SingleDaemon
  ChannelStays
  SecretsHaveSession
PROPERTIES
  NegotiationEnds
CHECK_DEADLOCK FALSE
