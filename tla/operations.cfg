SPECIFICATION MCOperationsSpec
CONSTANTS
  Callers = {c1, c2}
  Kinds = {"deployment", "hpa", "pod"}
  Origins = {"go", "llm"}
  Numbers <- SomeNumbers
  MaxTemplates = 2
  MaxCalls = 2
  MaxOthers = 1
INVARIANTS
  CompletedIsComplete
PROPERTIES
  OnlyItsFields
  CallsReturn
CHECK_DEADLOCK FALSE
