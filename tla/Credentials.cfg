\* Two handlers at once and two changes of the tables, for every kind of poll.
CONSTANTS
  v1 = v1
  d1 = d1
  i1 = i1
  i2 = i2
  s1 = s1
  s2 = s2
  t1 = t1
  t2 = t2
  None = None
  Voters = {v1}
  Dids = {v1, d1}
  Issuers = {i1, i2}
  Workers = {w1, w2}
  Scopes = {s1, s2}
  ScopeTypes = {t1, t2}
  ScopeTypeOf <- MCScopeTypeOf
  IssuedIn <- MCIssuedIn
  Mandatory = {i2}
  Credentials <- MCCredentials
  InitiallyAuthorised = {i1}
  InitiallyIssued <- MCInitiallyIssued
  InitiallyPrimary <- MCInitiallyPrimary
  MaxRequests = 2
  MaxChanges = 2
SPECIFICATION Spec
SYMMETRY WorkerSymmetry
CHECK_DEADLOCK FALSE
INVARIANTS
  IInv
  NothingStoodAgainst
  EligibilityPredicts
PROPERTIES
  RevivedOnlyByPatch
