SPECIFICATION Spec
CONSTANTS
  Articles <- MCThreeArticles
  Slots = 2
  Cap = 2
  ChunkSize = 1
  Window = 2
  CatchUpHours = 2
  Faults = {"publish"}
CHECK_DEADLOCK FALSE
PROPERTY
  IssueIsNeverThinned
