SPECIFICATION FairSpec
CONSTANTS
  Keepalive = Keepalive
  Closer = Closer
  Callers = {c1}
  Modulus = 3
  Shapes = {0, 2}
  MaxCommands = 4
  MaxInbox = 1
INVARIANT AnswersMatch
PROPERTY ImplementsRemoteCall
PROPERTY CallsEnd
CHECK_DEADLOCK FALSE
