\* Two workers, two storable keys and one that redaction would change.
SPECIFICATION TaskSpec
CONSTANTS
  w1 = w1
  w2 = w2
  k1 = k1
  k2 = k2
  ks = ks
  Nil = Nil
  Keys = {k1, k2, ks}
  SecretKeys = {ks}
  Workers = {w1, w2}
  Results = {"secret", "reactive"}
  MaxId = 3
  MaxEvents = 3
SYMMETRY TaskSymmetry
INVARIANTS
  TaskTypeOK
  AnswersAgree
  RefusedOnlyIfTaken
  TaskRowsFollowLog
PROPERTIES
  ImplementsDispatchOnce
