SPECIFICATION LoopSpec
SYMMETRY RunSymmetry
CONSTANTS
  MaxL2Operations = 1
  MaxConsecutiveWrite = 2
  OpsBound = 0
  Runs = {r1, r2}
  NoTool = NoTool
  SchedulerTool = sched
  Ticker = Ticker
  get = get
  scale = scale
  Tools <- LoopTools
  ToolLevel <- LoopLevel
  EvalLevels <- LoopEvals
  Configs <- Attended
  MaxIterations = 1
  MaxTokens = 2
  MaxCalls = 1
  MaxDue = 1
  CanEvalFail = TRUE
  CanPanic = TRUE
INVARIANTS
  ExecutedL2Capped
