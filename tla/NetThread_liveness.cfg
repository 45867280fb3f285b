SPECIFICATION FairSpec
CONSTANTS
  Conns = {c1}
  Workers = {w1, w2}
  None = None
  MaxBacklog = 2
  MaxConnections = 2
  MaxQueue = 10
  MaxPackets = 2
  EpollMayFail = FALSE
  HandlerMayThrow = FALSE
INVARIANTS
  NoLostWakeup
  WorkersOutlived
PROPERTIES
  AnsweredEventually
  ShutdownCompletes
  TimeoutEnforced
