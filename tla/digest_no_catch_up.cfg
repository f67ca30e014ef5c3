SPECIFICATION Spec
CONSTANTS
  Articles <- MCThreeArticles
  Slots = 2
  Cap = 2
  ChunkSize = 1
  Window = 2
  CatchUpHours = 1
  Faults = {"fetch", "publish"}
CHECK_DEADLOCK FALSE
INVARIANT
  AcceptedReachesReader
