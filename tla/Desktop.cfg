SPECIFICATION Spec
CONSTANTS
  Name = {a, b}
  Password = {p}
  Task = {t, w}
  Window = w
  a = a
  b = b
  p = p
  t = t
  w = w
  Stores = {"hybrid", "file", "mixed", "windows"}
  MaxFaults = 1
SYMMETRY Symmetry
INVARIANTS
  SecretsHaveProfile
  LastWrittenIsRead
  FlagFollowsDialogs
CHECK_DEADLOCK FALSE
