SPECIFICATION Spec
CONSTANTS
  s1 = s1
  p1 = p1
  Nobody = Nobody
  Servers = {s1}
  Slots = {p1}
  Selections = {"latest", "once", "always"}
  SlowCommits = FALSE
  HastyRestarts = FALSE
  MaxRestarts = 0
  MaxDbFailures = 0
PROPERTY StoppedWasTold
CHECK_DEADLOCK FALSE
