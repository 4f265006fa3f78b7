SPECIFICATION DbFairSpec
CONSTANTS
  Caller = {1, 2}
  MaxTime = 2
  MaxOpen = 1
  MaxIdle = 1
  MaxRetries = 2
  MaxCalls = 3
CHECK_DEADLOCK FALSE
INVARIANTS
  DbTypeOK
  ReportedWrites
  TransactionsAtomic
  ConnectionsReturned
  MaxMissesOnlyOverlapped
PROPERTIES
  CallsReturn
