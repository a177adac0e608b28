SPECIFICATION SyncSpec
CONSTANTS
  SyncWriters = {1, 2}
  Syncs = {1}
  SyncRetries = 1
  PageSize = 1
  MaxServed = 3
  MaxClock = 2
  MaxArrivals = 2
  MaxLives = 2
  OwnWriter = own
  OtherWriter = other
  Subscribers = {s1}
  MaxOwn = 2
  MaxOther = 2
  MaxInstalled = 4
  MaxPollFails = 1
INVARIANTS
  ProcessedOnce
  PagesCover
  FrontierIsHeld
  SubscribersFollow
PROPERTIES
  SyncSettles
  StaleIsReported
CHECK_DEADLOCK FALSE
