SPECIFICATION Spec
CONSTANTS
  s1 = s1
  p1 = p1
  p2 = p2
  Nobody = Nobody
  Servers = {s1}
  Slots = {p1, p2}
  Selections = {"latest", "once", "always"}
  SlowCommits = TRUE
  HastyRestarts = FALSE
  MaxRestarts = 0
  MaxDbFailures = 0
INVARIANT FlagHasProcess
CHECK_DEADLOCK FALSE
