SPECIFICATION FairSpec
CONSTANTS
  MaxIssues = 2
  MaxBuilding = 2
  Attempts = 2
  Tolerance = 1
  Faults = {"kill", "d1", "store", "record", "index", "deploy", "answer", "verdict", "slow", "save"}
  Restores = FALSE
PROPERTIES
  StoredIsPublished
