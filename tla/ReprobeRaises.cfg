\* A re-probe meets a body that is not JSON.
SPECIFICATION RouterSpec
CONSTANTS
  m1 = m1
  m2 = m2
  finder = finder
  Nil = Nil
  Models = {m1, m2, finder}
  Finders = {finder}
  Structured = {m1, finder}
  Tier <- TierOf
  Lists <- CandidateLists
  Stacks <- StackChoices
INVARIANTS
  RecoverableFailureNeverRaises
