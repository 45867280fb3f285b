SPECIFICATION Spec
CONSTANTS
  IntSpan = 1000000
  MaxNetThreads = 2
  Files <- AllFiles
  Fds = {4, 5, 6}
  MaxClients = 2
INVARIANTS
  NestedByIndentation
  LegalConfigServes
  
PROPERTIES
  AcceptDrained
  
CHECK_DEADLOCK FALSE
