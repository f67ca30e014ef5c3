SPECIFICATION JudgingSpec
CONSTANTS
  Count = 3
  Inputs <- MCInputs
  Groups = {"g", "h"}
  BatchSize = 2
  MaxScore = 2
  Threshold = 1
  MaxParts = 2
  MaxNamed = 2
  Articles = {a, b}
  Horizon = 3
  Window = 3
  Clock = 2
  Misreads = 1
  Urls = {u, v}
  Issues = {1, 2}
  Entries = 2
  Savers = {p, q}
  Saves = 2
SYMMETRY MCSymmetry
CHECK_DEADLOCK FALSE
INVARIANTS
  JudgingTypeOK
  OnePlaceEach
  HoldsKeepToVotes
  VoteFindsItsTopic
PROPERTIES
  ImplementsJudgement
  HeldStaysOut
  IssueKeepsTopics
