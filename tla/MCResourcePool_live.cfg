SPECIFICATION FairSpec
CONSTANTS
  None = None
  Resources = {r1, r2}
  InitialResources = {r1}
  Users = {u1, u2, u3}
  Inputs <- StarterInputs
  MaxStarts = 1
  MaxPoolRuns = 2
  MaxOperatorSteps = 0
  WaitMayTimeOut = TRUE
  UserMayTerminate = FALSE
  GrantMayFail = FALSE
  PromptAck = TRUE
INVARIANTS NoLeak
PROPERTIES WaiterIsServed
CHECK_DEADLOCK FALSE
