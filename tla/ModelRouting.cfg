\* Two endpoints that may fail in every way, and a finder that cannot.
SPECIFICATION RouterSpec
CONSTANTS
  m1 = m1
  m2 = m2
  finder = finder
  Nil = Nil
  Models = {m1, m2, finder}
  Finders = {finder}
  Structured = {m1, finder}
  Tier <- TierOf
  Lists <- CandidateLists
  Stacks <- StackChoices
INVARIANTS
  RouterTypeOK
  NoCandidatesMeansAllFailed
  AnswerPassesGate
PROPERTIES
  RouteEnds
  ServingCandidateAnswers
