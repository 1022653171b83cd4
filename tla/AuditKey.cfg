\* A process that is killed between creating and filling the key file.
SPECIFICATION AcceptanceSpec
CONSTANTS
  p1 = p1
  p2 = p2
  Nil = Nil
  Collectors = {p1}
  Certifiers = {p1}
  Versions = {1, 2}
  LockedTools = 1
  Checkouts <- OneTree
  Outcomes <- OneOutcome
  PolicyFiles <- OnePolicy
  MaxEdits = 0
  MaxCrashes = 1
INVARIANTS
  AuditKeyComplete
