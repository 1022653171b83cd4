\* A stale copy lowers a stored ladder.
SPECIFICATION Spec
CONSTANTS
  h1 = h1
  w1 = w1
  w2 = w2
  Nil = Nil
  None = None
  Absent = Absent
  Hyps = {h1}
  Workers = {w1, w2}
  Lenses = {"l1"}
  Notes = {"plain"}
  Evidences <- ReopenEvidences
  Callers = {"human"}
  Proofs <- OneProof
  Creations <- FullCreations
  Payloads <- NoPayloads
  Emitted = {}
  MaxEvents = 4
SYMMETRY Symmetry
PROPERTIES
  StoredLadderMonotonic
