SPECIFICATION FairSessionsSpec
CONSTANTS
  Runs = {1}
  Others = {2}
  RunIds = {1}
  ImportIds = {2}
  Columns = {"tools"}
  Marks = {"exported"}
  TTL = 0
  BatchSize = 1
  MaxSize = 1
  Postgres = TRUE
INVARIANTS
  NothingLost
PROPERTIES
  SuccessIsApplied
  LivesItsTTL
  ExpiredGoes
CHECK_DEADLOCK FALSE
