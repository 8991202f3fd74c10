SPECIFICATION Spec
CONSTANTS
  j1 = j1
  j2 = j2
  c1 = c1
  NoJob = NoJob
  Jobs = {j1, j2}
  Clients = {c1}
  Registered = {j1, j2}
  MaxRestarts = 1
  MaxDbFailures = 0
PROPERTY QueuedSurvivesStop
CHECK_DEADLOCK FALSE
