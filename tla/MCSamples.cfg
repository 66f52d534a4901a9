SPECIFICATION Spec
CONSTANTS
  Languages = {English, Chinese, French, Hindi}
  English = English
  Known = {English, Chinese}
  Served = {English, Chinese, French}
  Calls = {c1, c2, c3}
  UpdateCalls = {u1, u2}
  ExitTypes = {"SUCCESS", "FAILURE", "CANCELLATION"}
  Cancellers = {"SUCCESS", "FAILURE", "CANCELLATION"}
  r1 = r1
  r2 = r2
  r3 = r3
  Requests = {r1, r2, r3}
  Price <- Prices
  MaxCarts = 2
  Callers = {w1, w2}
  NoAnswer = NoAnswer
  MaxLostAnswers = 1
  continue_as_new_per_turns = 6
  MaxPrompts = 6
  End = End
  MaxUserPrompts = 4
  Messages = {m1, m2, m3}
  Notes = {n1}
  None = None
  Inquiries = {m1, m2}
  MaxRuns = 2
  MaxTime = 3
  MaxSignals = 2
  Month = 2
  MaxDays = 6
  MaxLostMails = 1
  MaxSeconds = 6
  Others = {"user4"}
  Users = {ua, ub}
  Nobody = Nobody
  MaxCalls = 2
  MaxLostAttempts = 1
  MaxFaults = 2
  MaxQueries = 1
  max_concurrent_workflow_tasks = 1
  max_concurrent_activities = 1
  Workflows = {w1, w2}
  WorkflowWorkers = {p1, p2}
  ActivityWorkers = {p3}
  Language = {EN, FR, DE}
  MaxLostTries = 2
  Documents <- DocumentNames
  NoStore = 0
  Items = {i1, i2, i3}
  MaxRounds = 2
  MaxLostCalls = 1
  MaxCronRuns = 2
  PageSize = 2
  MaxFiles = 3
  num_delay_hour = 2
  maximum_attempts = 2
  MaxHour = 3
  MaxLostPuts = 2
  Bad = Bad
  HealthCheck = HealthCheck
  Shutdown = Shutdown
  Jobs = {j1}
  Nodes = {n1, n2}
  Sizes = {2}
  Trees <- YamlTrees
  MaxActivitySignals = 3
INVARIANTS
  TypeOK PromptsAreKept AnswersFit RestsOnAll VersionsAndOrdersAgree
  SleepFollowsUpdates WorkIsNotAbandoned HandlersAreAwaited ResultOrCompensation
  OneFetchAtATime OrderIsWhatWasAdded WorksForItsCaller EachFailureIsReported
  RoomForEveryCall MainEndsLast OperationsAreRight
PROPERTIES SamplesGoOn
CHECK_DEADLOCK FALSE
