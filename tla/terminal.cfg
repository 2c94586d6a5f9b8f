SPECIFICATION MCTerminalSpec
CONSTANTS
  Questions = {q1, q2}
  NoQuestion = NoQuestion
  MaxEvents = 1
  Names = {p1, p2}
  NoName = NoName
  MaxProviders = 2
INVARIANTS
  StreamingSettles
PROPERTIES
  QuestionsEnd
  SavedStays
CHECK_DEADLOCK FALSE
