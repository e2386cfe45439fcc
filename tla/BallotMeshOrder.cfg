\* Finding: events delivered out of order are counted in order of arrival.
CONSTANTS
  v1 = v1
  v2 = v2
  w1 = w1
  w2 = w2
  None = None
  Voters = {v1, v2}
  Workers = {w1}
  EntryPoints = {"nostr"}
  Mutability = {TRUE}
  IsOngoing = TRUE
  AllowWriteIns = FALSE
  Gated = FALSE
  StartsAt = 0
  EndsAt = 4
  Grace = 1
  InitialOptions <- MCOptions
  WriteIns <- MCWriteIns
  Events <- MeshEvents
  Registered = {}
  MayCrash = FALSE
  MaxVotes = 3
  MaxTime = 2
SPECIFICATION Spec
INVARIANTS
  LastSignedCounts
