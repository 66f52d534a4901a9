SPECIFICATION BatchSpec
CONSTANTS
  None = None
  RecordCount = 5
  Partitions = 2
  SlidingWindowSize = 3
  PageSize = 2
  Windows <- Parts
  From <- PartitionFrom
  To <- PartitionTo
  Size <- WindowSizes
  MaxLost = 1
  MaxInbox = 2
INVARIANTS BatchTypeOK WindowHolds NoReportIsLost EachRecordCounts ReturnsWhenAllDone
PROPERTIES NeverStartedTwice ImplementsBounded BatchReturns
CHECK_DEADLOCK FALSE
