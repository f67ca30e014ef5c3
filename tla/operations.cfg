SPECIFICATION OpsSpec
CONSTANTS
  Requests = {1, 2, 3}
  Containers = 3
  Polls = 2
  Restarts = 1
  Booters = {1, 2}
  Faults = 3
  MaxIssues = 3
  Writes = 5
  Reruns = 2
  Mishaps = 1
  Tolerance = 1
CHECK_DEADLOCK FALSE
INVARIANTS
  OpsTypeOK
  BootsEndInShape
  AnswersForItself
PROPERTIES
  EveryRequestEnds
  OnlyARaceTakesBack
  RacedPageReturns
