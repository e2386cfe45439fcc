\* Two workers race over a mutable, gated poll with write-ins; HTTP handlers, crashes.
CONSTANTS
  v1 = v1
  v2 = v2
  w1 = w1
  w2 = w2
  None = None
  Voters = {v1, v2}
  Workers = {w1, w2}
  EntryPoints = {"headless", "session"}
  Mutability = {TRUE}
  IsOngoing = TRUE
  AllowWriteIns = TRUE
  Gated = TRUE
  StartsAt = 0
  EndsAt = 0
  Grace = 0
  InitialOptions <- MCOptions
  WriteIns <- MCWriteIns
  Events <- NoEvents
  Registered = {v1}
  MayCrash = TRUE
  MaxVotes = 3
  MaxTime = 0
SPECIFICATION Spec
SYMMETRY WorkerSymmetry
INVARIANTS
  TallyAddsUp
  IInv
PROPERTIES
  HistoryKept
  RefinesBallot
