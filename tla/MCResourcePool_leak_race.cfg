SPECIFICATION Spec
CONSTANTS
  None = None
  Resources = {r1}
  InitialResources = {r1}
  Users = {u1, u2}
  Inputs <- StarterInputs
  MaxStarts = 1
  MaxPoolRuns = 1
  MaxOperatorSteps = 0
  WaitMayTimeOut = FALSE
  UserMayTerminate = FALSE
  GrantMayFail = FALSE
  PromptAck = FALSE
INVARIANTS NoLeak
CHECK_DEADLOCK FALSE
