SPECIFICATION FairSpec
CONSTANTS
  End = End
  continue_as_new_per_turns = 6
  MaxPrompts = 4
PROPERTIES EndedChatCloses
CHECK_DEADLOCK FALSE
