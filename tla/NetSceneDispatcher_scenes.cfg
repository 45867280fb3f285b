SPECIFICATION Spec
CONSTANTS
  Workers = {w1, w2}
  Nobody = Nobody
  Apps <- AllApps
  Requests <- AllRequests
  Digest <- SomeDigest
  Samples <- SomeSamples
  InitialVisits = {2}
  MaxRequests = 2
  MaxBoots = 2
INVARIANTS
  LegalScenesServed
  RightScene
  VisitsCounted
  SavedCountKept
  AnswersParse
  AcceptIsDigest
PROPERTY RequestAnswered
CHECK_DEADLOCK FALSE
