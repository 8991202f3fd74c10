SPECIFICATION FairSpec
CONSTANTS
    n1 = n1  n2 = n2   p1 = p1  a1 = a1
    Worker = Worker
    Schedulers = {n1, n2}
    Patches = {p1}
    Askers = {a1}
    MaxQueue = 1
    MaxTools = 2
    Overlaps = {}
    None = None
CHECK_DEADLOCK FALSE
INVARIANT ServerAlone
INVARIANT ToolsReaped
INVARIANT SchedulerFollowsSettings
PROPERTY PatchEnds
CONSTRAINT TwoAtOnce
CONSTRAINT OneLeft
