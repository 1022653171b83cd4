\* Two workers race saves, awards, closings and reopenings on stale copies.
SPECIFICATION Spec
CONSTANTS
  h1 = h1
  w1 = w1
  w2 = w2
  Nil = Nil
  None = None
  Absent = Absent
  Hyps = {h1}
  Workers = {w1, w2}
  Lenses = {"l1", "l2"}
  Notes = {"secret"}
  Evidences <- ReopenEvidences
  Callers = {"human"}
  Proofs <- OneProof
  Creations <- RaceCreations
  Payloads <- RacePayloads
  Emitted = {"hyp_reopened"}
  MaxEvents = 4
SYMMETRY Symmetry
INVARIANTS
  TypeOK
  RebuildMatchesRow
  ColumnsMatchBody
  TransitionsFormWalk
  NoSecretAtRest
  ThresholdAnnounced
PROPERTIES
  ImplementsLifecycle
