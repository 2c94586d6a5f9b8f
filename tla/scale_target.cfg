SPECIFICATION K8sSpec
CONSTANTS
  Callers = {c1}
  Kinds = {"deployment"}
  Origins = {"llm"}
  Numbers = {0, 2}
  MaxTemplates = 2
  MaxCalls = 1
  MaxOthers = 0
PROPERTIES
  ScaleReachesTarget
CHECK_DEADLOCK FALSE
