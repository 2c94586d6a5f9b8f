SPECIFICATION AuditSpec
CONSTANTS
  Callers = {c1}
  Keys = {global}
  Contents = {x}
  QueueSize = 2
  BatchSize = 2
  HasFallback = TRUE
  MaxEvents = 2
  MaxStarts = 1
  MaxCrashes = 0
INVARIANT IntactVerifies
CHECK_DEADLOCK FALSE
