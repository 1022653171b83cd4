\* The bootstrap, the fork, both gates and two callers.
SPECIFICATION StackSpec
CONSTANTS
  c1 = c1
  c2 = c2
  Nil = Nil
  FORK_BLOCK = 3
  Callers = {c1, c2}
  Forkers = {c2}
  Offers <- MixedOffers
  PolicyFiles <- BothPolicies
  Budgets <- FewCalls
  MaxFaults = 1
INVARIANTS
  StackTypeOK
  BootstrapDelivers
  AnsweredIsLogged
  LogTellsTruth
  PinnedForkHolds
PROPERTIES
  UpstreamFrozen
