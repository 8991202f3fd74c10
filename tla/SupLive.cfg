SPECIFICATION FairSpec
CONSTANTS
  s1 = s1
  p1 = p1
  p2 = p2
  Nobody = Nobody
  Servers = {s1}
  Slots = {p1, p2}
  Selections = {"latest", "once"}
  SlowCommits = FALSE
  HastyRestarts = FALSE
  MaxRestarts = 1
  MaxDbFailures = 1
INVARIANT FlagHasProcess
INVARIANT RunningIsFlagged
PROPERTY StopEndsProcess
PROPERTY DeadIsUnflagged
CHECK_DEADLOCK FALSE
