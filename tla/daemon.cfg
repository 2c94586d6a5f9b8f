SPECIFICATION FairDaemonSpec
CONSTANTS
  Posts <- TwoPosts
  Workers = {w1, w2}
  Issues = {i1}
  QueueSize = 1
  Waiting = Waiting
  Ended = Ended
INVARIANTS
  NoAlertVanishes
  AuditOutlivesWorkers
PROPERTIES
  EverythingDiagnosed
  ShutdownEnds
CHECK_DEADLOCK FALSE
