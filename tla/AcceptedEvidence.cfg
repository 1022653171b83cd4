\* One process, every kind of trace and control, policy edits and crashes.
SPECIFICATION AcceptanceSpec
CONSTANTS
  p1 = p1
  p2 = p2
  Nil = Nil
  Collectors = {p1}
  Certifiers = {p1}
  Versions = {1, 2}
  LockedTools = 1
  Checkouts <- OneTree
  Outcomes <- AllOutcomes
  PolicyFiles <- TwoPolicies
  MaxEdits = 1
  MaxCrashes = 1
INVARIANTS
  AcceptedEvidenceHolds
  CertificateBindsOneTree
PROPERTIES
  CollectedGetsAccepted
