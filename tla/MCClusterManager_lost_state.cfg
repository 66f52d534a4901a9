SPECIFICATION Spec
CONSTANTS
  None = None
  Bad = Bad
  HealthCheck = HealthCheck
  Shutdown = Shutdown
  Jobs = {j1, j2}
  Nodes = {n1, n2}
  Calls = {c1, c2}
  Sizes = {1}
  MaxRuns = 2
INVARIANTS AssignedNodesStay
CHECK_DEADLOCK FALSE
