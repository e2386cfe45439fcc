\* Two entries, announces that tie and that arrive late, at most two workers.
CONSTANTS
  k1 = k1
  k2 = k2
  w1 = w1
  w2 = w2
  None = None
  Keys = {k1, k2}
  Data = {"a", "b", "c", "e"}
  Payloads <- MCPayloads
  Edits = {"e"}
  Workers = {w1, w2}
  MaxRequests = 3
SPECIFICATION Spec
SYMMETRY KeyAndWorkerSymmetry
INVARIANTS
  Consistent
  RowIsAudited
  AgreesWithResolve
  RootBindsMessages
PROPERTIES
  DeletedStaysDeleted
  RefinesRegister
  OnlyOvertakenGoesBack
