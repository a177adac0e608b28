SPECIFICATION RecordsSpec
CONSTANTS
  Processes = {p1, p2}
  MaxCommits = 5
  MaxSkip = 0
  MaxRestarts = 1
  AuditFails = TRUE
  Admins = {a1, a2}
  TrustKeys = {k1, k2}
  BoundWriters = {w1}
  TrustRetries = 1
  MaxRecords = 4
SYMMETRY Interchangeable
INVARIANTS
  OneReceiptEach
  GapsAreCounted
  HonestChainVerifies
  RevocationHolds
CHECK_DEADLOCK FALSE
