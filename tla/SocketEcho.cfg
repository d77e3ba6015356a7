SPECIFICATION Spec
CONSTANTS
  Conns = {c1, c2}
  Tasks = {t1, t2, t3}
  NumFds = 3
  QueueSize = 3
  MaxLate = 0
  MaxNoTask = 0
  NoConn = none
  Listener = listener
  NoTask = NULL
INVARIANT
  EchoReachesSender
