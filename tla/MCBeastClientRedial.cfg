\* One call after another over one pooled connection.
SPECIFICATION Spec
CONSTANTS
  Callers = {t1, t2}
  Streaming = {}
  Conns = {k1, k2, k3}
  Sockets = {}
  Attempts = {1}
  MaxIdle = 1
  Pieces = 1
  NoConn = NoConn
INVARIANT RedialOnlyUnprocessed
CHECK_DEADLOCK FALSE
