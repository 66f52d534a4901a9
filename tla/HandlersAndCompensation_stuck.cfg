SPECIFICATION FairSpec
CONSTANTS
  Updates = {u1, u2}
  ExitTypes = {"SUCCESS", "FAILURE", "CANCELLATION"}
  Cancellers = {"SUCCESS", "FAILURE", "CANCELLATION"}
PROPERTIES CallerIsAnswered
CHECK_DEADLOCK FALSE
