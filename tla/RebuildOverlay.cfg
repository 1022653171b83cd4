\* A body without the keys of the columns fails its own rebuild check.
SPECIFICATION Spec
CONSTANTS
  h1 = h1
  w1 = w1
  w2 = w2
  Nil = Nil
  None = None
  Absent = Absent
  Hyps = {h1}
  Workers = {w1, w2}
  Lenses = {"l1", "l2"}
  Notes = {"plain"}
  Evidences <- ReopenEvidences
  Callers = {"human"}
  Proofs <- OneProof
  Creations <- RaceCreations
  Payloads <- NoPayloads
  Emitted = {}
  MaxEvents = 4
SYMMETRY Symmetry
INVARIANTS
  EveryRowVerifies
