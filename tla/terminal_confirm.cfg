SPECIFICATION FairTerminalSpec
CONSTANTS
  Questions = {q1}
  NoQuestion = NoQuestion
  MaxEvents = 1
PROPERTY
  ConfirmationsAnswered
CHECK_DEADLOCK FALSE
