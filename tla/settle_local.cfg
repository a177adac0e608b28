SPECIFICATION FairSpec

CONSTANTS
  Handles = {h1}
  Plans = {p1, p2}
  MaxIntents = 2
  MaxTarget = 1
  MaxCheckpoints = 1
  Others = FALSE
  Failures = TRUE

PROPERTIES
  PromotesOnBasis
  SettlementAnswers

CHECK_DEADLOCK FALSE
