SPECIFICATION FilesSpec
CONSTANTS
  i = i
  j = j
  a = a
  b = b
  x = x
  r1 = r1
  r2 = r2
  r3 = r3
  Ids = {i, j}
  Agents = {a, b}
  RuleIds = {x}
  Reqs = {r1, r2, r3}
  Tasks <- MCTasks
  NoDir = NoDir
  Founder = a
  Absent = Absent
  Torn = Torn
  Garbled = Garbled
  Holders = {b}
  MaxTokens = 2
SYMMETRY Perms
CHECK_DEADLOCK FALSE
INVARIANTS
  MembersAsBooked
  PruneExact
  IndexCurrent
