SPECIFICATION FairSpec
CONSTANTS
  Profile = {"a"}
  UserCalls = {"u"}
  Reconnects = {"r", "s"}
INVARIANTS
  DismissedStaysDown
  BusyHasCall
  SingleReconnect
PROPERTIES
  KeepsTrying
  CallsEnd
CHECK_DEADLOCK FALSE
