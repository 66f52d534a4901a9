SPECIFICATION Spec
CONSTANTS
  None = None
  Resources = {r1, r2}
  InitialResources = {r1}
  Users = {u1, u2}
  Inputs <- StarterInputs
  MaxStarts = 2
  MaxPoolRuns = 2
  MaxOperatorSteps = 1
  WaitMayTimeOut = TRUE
  UserMayTerminate = TRUE
  GrantMayFail = TRUE
  PromptAck = FALSE
SYMMETRY UserSymmetry
INVARIANTS TypeOK MutualExclusion KeysMatchHolders ClaimsAreOnTheBooks WaiterIsQueued
PROPERTIES HolderKeepsResource ImplementsLock
CHECK_DEADLOCK FALSE
