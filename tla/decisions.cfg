SPECIFICATION MCDecisionsSpec
CONSTANTS
  Tools = {"k8s_get", "k8s_logs", "k8s_restart", "k8s_scale", "k8s_patch", "k8s_rollout", "k8s_delete", "k8s_workflow"}
  Resources = {"clusterrole", "namespace", "pv", "secret", "deployment", "pod"}
  Environments = {"", "production", "prod", "staging", "development"}
  Sizes = {0, 1, 3}
  Limits = {2, 4}
  WindowSize = 2
  MaxMessages = 4
  MaxSaved = 1
  ToolNames = {"k8s_scale", "k8s_get", "k8s_describe", "k8s_logs", "k8s_events"}
  Objects = {"a", "b", ""}
  MaxParallel = 2
  MaxCalls = 3
  Runs = {r1, r2}
  ToolSets = {"", "a"}
  MaxIterations = 10
  MaxHistory = 7
  Callers = {c1, c2}
  Configurations <- SomeConfigurations
  MaxUpdates = 1
  K8sNames = {"k8s_scale", "k8s_get"}
  OtherNames = {"web_search"}
  GivenIds = {"a", "b"}
  MadeIds = {"call_1", "call_2"}
  MaxAnswer = 2
  MaxL2Operations = 4
  MaxConsecutiveWrite = 2
  OpsBound = 12
INVARIANTS
  L2Capped
  WritesInterrupted
  MutationsAreAsked
  TokensAddUp
  ResultsAreTheCalls
  DependenciesFirst
  FailoverInOrder
  CallsAreTheModels
PROPERTIES
  TrimKeepsKeyContext
  StuckIsWarned
CHECK_DEADLOCK FALSE
