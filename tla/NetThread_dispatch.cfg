SPECIFICATION Spec
CONSTANTS
  Conns = {c1, c2}
  Workers = {w1, w2}
  None = None
  MaxBacklog = 1
  MaxConnections = 3
  MaxQueue = 10
  MaxPackets = 1
  EpollMayFail = TRUE
  HandlerMayThrow = TRUE
SYMMETRY Symmetry
CONSTRAINT Serving
INVARIANTS
  BacklogBounded
  RefusedUnderLoad
  OneOwner
  ValidIffLive
PROPERTY NothingSentAfterDelete
