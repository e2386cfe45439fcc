\* One request at a time, a mutable and an immutable poll, everyone has an account.
CONSTANTS
  v1 = v1
  v2 = v2
  w1 = w1
  w2 = w2
  None = None
  Voters = {v1, v2}
  Workers = {w1}
  EntryPoints = {"headless", "session"}
  Mutability = {TRUE, FALSE}
  IsOngoing = TRUE
  AllowWriteIns = TRUE
  Gated = TRUE
  StartsAt = 0
  EndsAt = 0
  Grace = 0
  InitialOptions <- MCOptions
  WriteIns <- MCWriteIns
  Events <- NoEvents
  Registered = {v1, v2}
  MayCrash = TRUE
  MaxVotes = 4
  MaxTime = 0
SPECIFICATION Spec
INVARIANTS
  SoleBallot
PROPERTIES
  RefinesOnceBallot
