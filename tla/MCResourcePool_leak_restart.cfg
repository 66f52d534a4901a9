SPECIFICATION Spec
CONSTANTS
  None = None
  Resources = {r1, r2}
  InitialResources = {r1, r2}
  Users = {u1}
  Inputs <- StarterInputs
  MaxStarts = 2
  MaxPoolRuns = 1
  MaxOperatorSteps = 0
  WaitMayTimeOut = TRUE
  UserMayTerminate = FALSE
  GrantMayFail = FALSE
  PromptAck = TRUE
INVARIANTS NoLeak
CHECK_DEADLOCK FALSE
