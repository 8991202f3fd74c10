SPECIFICATION FairSpec
CONSTANTS
  j1 = j1
  j2 = j2
  c1 = c1
  NoJob = NoJob
  Jobs = {j1, j2}
  Clients = {c1}
  Registered = {j1}
  MaxRestarts = 1
  MaxDbFailures = 1
INVARIANT QueuedIsTracked
INVARIANT RunningIsOwned
INVARIANT SettledMeansOver
PROPERTY ExecutesSerially
PROPERTY WithdrawnStaysCancelled
PROPERTY QueuedEventuallySettles
PROPERTY InterruptedEventuallySettles
CHECK_DEADLOCK FALSE
