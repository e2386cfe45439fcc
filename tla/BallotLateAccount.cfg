\* Finding: a ballot cast without an account is invisible once the voter has one.
CONSTANTS
  v1 = v1
  v2 = v2
  w1 = w1
  w2 = w2
  None = None
  Voters = {v1, v2}
  Workers = {w1}
  EntryPoints = {"headless", "session"}
  Mutability = {FALSE}
  IsOngoing = TRUE
  AllowWriteIns = FALSE
  Gated = FALSE
  StartsAt = 0
  EndsAt = 0
  Grace = 0
  InitialOptions <- MCOptions
  WriteIns <- MCWriteIns
  Events <- NoEvents
  Registered = {}
  MayCrash = FALSE
  MaxVotes = 3
  MaxTime = 0
SPECIFICATION Spec
INVARIANTS
  OneRowPerDid
