SPECIFICATION HostSpec
CONSTANTS
  t1 = t1
  t2 = t2
  t3 = t3
  t4 = t4
  local = local
  other = other
  hatchling = hatchling
  audit = audit
  l1 = l1
  l2 = l2
  w1 = w1
  w2 = w2
  x = x
  y = y
  z = z
  f1 = f1
  f2 = f2
  TopLevel = TopLevel
  NoRuntime = NoRuntime
  Task <- MCTask
  Budget <- MCBudget
  Capacity = 3
  Runtime = {local, other}
  Accepts <- MCAccepts
  SinkMax = 1
  Tool = {hatchling, audit}
  ToolVersion = {1, 2}
  FirstVersion = 1
  Literal = {l1, l2}
  ToolOf <- MCToolOf
  Worker = {w1, w2}
  MaxCommits = 4
  Mutation <- MCMutation
  Function = {f1, f2}
  Where <- MCWhere
  MaxKills = 1
INVARIANTS
  HostTypeOK
  ReservedExact
  CommitsPinned
  HeadNotCancelled
  ScoredRanMutant
  GreenMeansClean
PROPERTIES
  ImplementsAdmission
CHECK_DEADLOCK FALSE
