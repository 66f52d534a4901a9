SPECIFICATION Spec
CONSTANTS
  None = None
  Messages = {m1, m2}
  Notes = {n1}
INVARIANTS AnswersItsOwnMessage
CHECK_DEADLOCK FALSE
