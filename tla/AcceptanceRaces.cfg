\* One process collects and another certifies while the checkout is edited.
SPECIFICATION AcceptanceSpec
CONSTANTS
  p1 = p1
  p2 = p2
  Nil = Nil
  Collectors = {p1}
  Certifiers = {p2}
  Versions = {1, 2}
  LockedTools = 1
  Checkouts <- EditedTrees
  Outcomes <- OneOutcome
  PolicyFiles <- OnePolicy
  MaxEdits = 2
  MaxCrashes = 0
INVARIANTS
  AcceptanceTypeOK
  CertificateBindsOneTree
