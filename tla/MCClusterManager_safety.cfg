SPECIFICATION Spec
CONSTANTS
  None = None
  Bad = Bad
  HealthCheck = HealthCheck
  Shutdown = Shutdown
  Jobs = {j1, j2}
  Nodes = {n1, n2, n3}
  Calls = {c1, c2, c3}
  Sizes = {1, 2}
  MaxRuns = 2
SYMMETRY Symmetry
INVARIANTS TypeOK NoDoubleAssignment BooksMatchCluster NodesStayInFirstRun
PROPERTIES FirstAssignmentIsExact ImplementsAtomic
CHECK_DEADLOCK FALSE
