\* Awards on all axes, saves of ladders and the way to FINDING, with two workers on copies of one hypothesis.
SPECIFICATION Spec
CONSTANTS
  h1 = h1
  w1 = w1
  w2 = w2
  Nil = Nil
  None = None
  Absent = Absent
  Hyps = {h1}
  Workers = {w1, w2}
  Lenses = {"l1"}
  Notes = {"plain"}
  Evidences <- PromotionEvidences
  Callers = {"driver"}
  Proofs <- LadderProofs
  Creations <- FullCreations
  Payloads <- LadderPayloads
  Emitted = {}
  MaxEvents = 5
SYMMETRY Symmetry
INVARIANTS
  LadderSupported
  FindingHasItsEvidence
