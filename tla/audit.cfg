CHECK_DEADLOCK FALSE
SPECIFICATION FairAuditSpec
CONSTANTS
  Callers = {c1, c2}
  Keys = {global}
  Contents = {x}
  QueueSize = 1
  BatchSize = 2
  HasFallback = TRUE
  MaxEvents = 3
  MaxStarts = 2
  MaxCrashes = 1
INVARIANTS
  Accounting
  PersistedInOrder
  StopLosesNothing
PROPERTIES
  AcceptedSettles
  ImplementsLedger
