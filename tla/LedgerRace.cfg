\* Two workers, every operation, killed at any statement.
CONSTANTS
  None = None
  Options = {a, b}
  Workers = {w1, w2}
  Operations = {"create", "save", "edit", "delete"}
  MaxVotes = 2
  MaxVersion = 2
  MaxFailures = 1
SPECIFICATION Spec
SYMMETRY Symmetry
CHECK_DEADLOCK FALSE
INVARIANTS
  IInv
  NeverOvercounts
  AuditNamesVersion
  VersionCountsVotes
PROPERTIES
  VersionMarksChange
  CountIsFresh
  OnlyOvertakenRevive
