SPECIFICATION FairSpec
CONSTANTS
  Conns = {c1, c2}
  Tasks = {t1, t2}
  NumFds = 2
  QueueSize = 1
  MaxLate = 1
  MaxNoTask = 1
  NoConn = none
  Listener = listener
  NoTask = NULL
INVARIANT
  OwnDescriptor
PROPERTIES
  ClientsAccepted
  DeparturesTold
\* stop() without a live task to delete ends the application's task, or worse.
CHECK_DEADLOCK FALSE
