SPECIFICATION BalanceSpec
CONSTANTS
  Users = {t1, t2}
  NoUser = NoUser
  Weights <- ThreeServers
  Rules <- AllRules
  Addresses <- SomeAddresses
INVARIANTS
  PollTakesTurns
PROPERTIES
  MutexReleased
CHECK_DEADLOCK FALSE
