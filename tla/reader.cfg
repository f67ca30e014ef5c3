SPECIFICATION ReaderSpec
CONSTANTS
  a = a
  b = b
  t = t
  Groups <- MCGroups
  Held <- MCHeld
  Topics <- MCTopics
  TopicOf <- MCTopicOf
  Spread = 2
  Window = 2
  MaxNow = 4
  MaxClicks = 2
  Faults = {"post", "record", "topics", "ack"}
  MidSync = FALSE
  Articles = {x, z}
  Drawers = {1, 2}
  MaxClock = 3
  LabelMishaps = 2
  e = e
  ee = ee
  y = y
  o = o
  Unplaced = {o}
  SourceNames = {1}
  Runs = 2
  MaxAreas = 2
  MaxAsked = 1
  Acts = 2
  Providers = {p, q}
  Models = {m, n}
  Efforts = {"high"}
  Embedders = {"gemini"}
  Saves = 3
  Feeds = {f, g}
  Sends = 2
  Presses = 2
  Out = 2
  Mishaps = 1
SYMMETRY MCSymmetry
CHECK_DEADLOCK FALSE
INVARIANTS
  ReaderTypeOK
  VoteIsKept
  OneVotePerClick
  LabelsStand
  AreasAgree
  RunMeetsTested
  CardsTellTrue
