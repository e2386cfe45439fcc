\* Three parts without common state: trust scores, a user's row, logins.
CONSTANTS
  s1 = s1
  s2 = s2
  None = None
  Nobody = Nobody
  NoSubject = NoSubject
  Workers = {w1, w2}
  Moving <- OneAtATime
  Issuers = {i1}
  Endorsers = {d1, d2}
  Metrics <- MCMetrics
  Ids = {1, 2}
  Subjects = {s1, s2}
  InitialWallets <- MCWallets
  Attempts = {1, 2}
  ScoreRequests = 5
  UserRequests = 3
  LoginRequests = 5
SPECIFICATION Spec
CHECK_DEADLOCK FALSE
INVARIANTS
  IInv
  HighOutOfReach
  UndisturbedSucceeds
PROPERTIES
  NothingLostAlone
  ElevationStays
