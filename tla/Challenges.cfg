\* Two processes, three voters, four nonces: expiry, replacement, eviction, restarts.
CONSTANTS
  None = None
  Voters = {v1, v2, v3}
  Workers = {w1, w2}
  Nonces = {n1, n2, n3, n4}
  TTL = 1
  MaxEntries = 3
  MaxTime = 2
SPECIFICATION Spec
SYMMETRY Symmetry
INVARIANTS
  AnsweredOnce
  AcceptedInTime
PROPERTIES
  RefinesToken
