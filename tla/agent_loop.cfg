SPECIFICATION FairLoopSpec
CONSTANTS
  MaxL2Operations = 2
  MaxConsecutiveWrite = 2
  OpsBound = 0
  Runs = {r1}
  NoTool = NoTool
  SchedulerTool = sched
  Ticker = Ticker
  get = get
  scale = scale
  Tools <- LoopTools
  ToolLevel <- LoopLevel
  EvalLevels <- LoopEvals
  Configs <- AllConfigs
  MaxIterations = 2
  MaxTokens = 3
  MaxCalls = 2
  MaxDue = 1
  CanEvalFail = FALSE
  CanPanic = FALSE
INVARIANTS
  PolicyRespected
  DryRunHasNoEffect
  SuccessesSurvive
PROPERTIES
  RequestsFollowProtocol
  RunsReturn
