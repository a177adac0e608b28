SPECIFICATION InstallsSpec
CONSTANTS
  OwnWriter = own
  OtherWriter = other
  Subscribers = {s1}
  MaxOwn = 2
  MaxOther = 2
  MaxInstalled = 4
  MaxPollFails = 1
CHECK_DEADLOCK FALSE
INVARIANTS
  OwnCommitsRead
