SPECIFICATION Spec
CONSTANTS
  Conns = {c1, c2}
  Workers = {w1}
  None = None
  MaxBacklog = 1
  MaxConnections = 3
  MaxQueue = 10
  MaxPackets = 1
  EpollMayFail = FALSE
  HandlerMayThrow = FALSE
CONSTRAINT Serving
PROPERTY NotDeletedWhileRegistering
