CONSTANTS
  p1 = p1
  p2 = p2
  s1 = s1
  s2 = s2
  m1 = m1
  m2 = m2
  i1 = i1
  Procs = {p1, p2}
  Ids = {1, 2}
  Suites = {s1, s2}
  Models = {m1, m2}
  Items = {i1}
  CheckpointEvery = 1
  MaxRuns = 1
  MaxCommands = 3
  MaxFaults = 1
  MaxExpired = 1
  HasTtl = FALSE
  CleanRules <- SomeRules
  Absent = Absent
  NoState = NoState
  NoId = NoId
  AnySuite = AnySuite
SPECIFICATION Spec
SYMMETRY Interchangeable
INVARIANT TypeOK CompletedRunsAreWhole
PROPERTY WorkedOnRunsSurvive CompletedStaysCompleted SuitesKeepTheirNewest
\* The users give no more commands.
CHECK_DEADLOCK FALSE
