SPECIFICATION PromisesSpec
CONSTANTS
  Tasks = {"t"}
  Mutations = {"m1", "m2"}
  Observations = {"o1"}
  MaxPlans = 2
  Keys = {k1, k2}
  Length = 2
  Depth = 2
  SourceFails = TRUE
  Callers = {c1, c2}
  Coordinates = {x1, x2}
  Jobs = {j1}
  CloseCall = CloseCall
INVARIANTS
  NoUseAfterRelease
  MutationsExclusive
  CompletedIsComplete
  DeliveredOnce
  BorrowedIsHeld
PROPERTIES
  CloseTerminates
  ReceiptSettles
  EveryPullAnswered
  StoreCloses
CHECK_DEADLOCK FALSE
