SPECIFICATION Spec
CONSTANTS
  MaxIssues = 3
  MaxBuilding = 2
  Attempts = 2
  Tolerance = 1
  Faults = {"kill", "d1", "store", "record", "index", "deploy", "answer", "verdict", "slow", "save"}
  Restores = TRUE
INVARIANTS
  TypeOK
  LinkedStaysUp
  LossIsTolerated
