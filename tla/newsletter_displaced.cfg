SPECIFICATION Spec
CONSTANTS
  Mails = {1, 2}
  Sources = {a, b}
  Subjects = {s, t}
  Links = {u, v}
  NoLink = NoLink
  Deliveries = 3
  Runs = 2
CHECK_DEADLOCK FALSE
INVARIANTS
  RepeatedLinkKeepsIssues
