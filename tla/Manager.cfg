SPECIFICATION FairSpec
CONSTANTS
  Tx = {1, 2}
  MaxLen = 2
  MaxFaults = 3
INVARIANTS
  JournalCoversEffects
  ReleasedIsGone
  ActiveIsJournaled
PROPERTIES
  ServingStartsClean
  UndoneTopDown
  LedgerSpec
  RecoveryTerminates
  OperationsTerminate
CHECK_DEADLOCK FALSE
