\* One voter of a scheduled, mutable poll: three handlers, redelivered, late and early events.
CONSTANTS
  v1 = v1
  v2 = v2
  w1 = w1
  w2 = w2
  None = None
  Voters = {v1}
  Workers = {w1, w2}
  EntryPoints = {"headless", "session", "nostr"}
  Mutability = {TRUE}
  IsOngoing = FALSE
  AllowWriteIns = TRUE
  Gated = FALSE
  StartsAt = 1
  EndsAt = 1
  Grace = 1
  InitialOptions <- MCOptions
  WriteIns <- MCWriteIns
  Events <- MeshEvents
  Registered = {v1}
  MayCrash = FALSE
  MaxVotes = 3
  MaxTime = 3
SPECIFICATION FairSpec
INVARIANTS
  OverrunBounded
PROPERTIES
  RefinesBallot
  EveryRequestEnds
