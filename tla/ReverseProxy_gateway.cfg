SPECIFICATION Spec
CONSTANTS
  Users = {"net", "peer"}
  NoUser = NoUser
  Weights <- TwoServers
  Rules = {"kPoll", "kWeight", "kIpHash"}
  Addresses = {0, 1}
  Conns = {c1, c2, d1, d2}
  Accepted = {c1, c2}
  None = None
  kEnlargeUnit = 2
  MaxConnections = 9
INVARIANTS
  ResponseToItsClient
  ForwardedIsMapped
PROPERTY HandlerReturns
CHECK_DEADLOCK FALSE
