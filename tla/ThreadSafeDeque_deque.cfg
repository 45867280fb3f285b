SPECIFICATION FairSpec
CONSTANTS
  Threads = {t1, t2, t3}
  Values = {v1, v2}
  None = None
  Failed = Failed
  MaxSize = 1
  Pos = 1
  Uses = {"push_front", "push_back", "pop_front_to", "clear", "Terminate"}
  Timed = TRUE
  Quiet = FALSE
INVARIANTS
  SleepersCovered
PROPERTIES
  ImplementsDeque
  TerminateReleases
