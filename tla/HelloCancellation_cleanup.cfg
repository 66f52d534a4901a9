SPECIFICATION Spec
CONSTANT MaxLost = 1
INVARIANT CleanupWhenComplete
CHECK_DEADLOCK FALSE
