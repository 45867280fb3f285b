SPECIFICATION Spec
CONSTANTS
  Users = {"net"}
  NoUser = NoUser
  Weights <- TwoServers
  Rules = {"kPoll"}
  Addresses = {}
  Conns = {c1, c2, d1, d2}
  Accepted = {c1, c2}
  None = None
  kEnlargeUnit = 2
  MaxConnections = 9
INVARIANT UidFromMapValid
CHECK_DEADLOCK FALSE
