SPECIFICATION Spec
CONSTANTS
  Callers = {t1, t2}
  Streaming = {t1}
  Conns = {k1, k2, k3}
  Sockets = {s1, s2}
  Attempts = {1, 2}
  MaxIdle = 1
  Pieces = 2
  NoConn = NoConn
INVARIANTS PoolIsolation SinkSeesOneBody RetryDiscipline IoOutlivesItsUsers
PROPERTY CallsAndDestructorsReturn
CHECK_DEADLOCK FALSE
