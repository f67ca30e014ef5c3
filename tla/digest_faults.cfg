SPECIFICATION Spec
CONSTANTS
  Articles <- MCTwoArticles
  Slots = 2
  Cap = 2
  ChunkSize = 1
  Window = 2
  CatchUpHours = 3
  Faults = {"kill", "fetch", "update", "store", "publish", "record"}
CHECK_DEADLOCK FALSE
INVARIANTS
  TypeOK
  OneIssuePerArticle
  DoneIsPublished
PROPERTIES
  DecisionStands
  DoneIsFinal
