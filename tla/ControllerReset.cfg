SPECIFICATION Spec
CONSTANTS
  Profile = {"a"}
  UserCalls = {}
  Reconnects = {"r"}
INVARIANT
  ResetHolds
CHECK_DEADLOCK FALSE
