SPECIFICATION Spec
CONSTANTS
  s1 = s1
  s2 = s2
  p1 = p1
  p2 = p2
  Nobody = Nobody
  Servers = {s1, s2}
  Slots = {p1, p2}
  Selections = {"latest"}
  SlowCommits = TRUE
  HastyRestarts = TRUE
  MaxRestarts = 0
  MaxDbFailures = 1
SYMMETRY ServerSymmetry
INVARIANT AliveIsActive
INVARIANT ScheduleFollowsProcess
PROPERTY KeepsSingleServerRule
CHECK_DEADLOCK FALSE
