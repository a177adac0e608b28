SPECIFICATION Spec
CONSTANTS
  Handles = {h1, h2}
  Plans = {p1, p2}
  MaxIntents = 2
  MaxTarget = 1
  MaxCheckpoints = 1
  Others = TRUE
  Failures = TRUE
SYMMETRY Interchangeable
INVARIANTS
  PromotedOnce
  DerivedIsComplete
  SourceSettled
CHECK_DEADLOCK FALSE
