SPECIFICATION Spec
CONSTANTS
  j1 = j1
  c1 = c1
  NoJob = NoJob
  Jobs = {j1}
  Clients = {c1}
  Registered = {j1}
  MaxRestarts = 0
  MaxDbFailures = 0
PROPERTY TerminalIsFinal
CHECK_DEADLOCK FALSE
