SPECIFICATION SerialSpec
CONSTANTS
  Hosts = {"h1", "h2"}
  Writers = {"a", "b"}
  Sessions = {"s1", "s2", "s3"}
  HostOf <- TwoHostOf
  WriterOf <- TwoWriterOf
  Api <- TwoApi
  Faults = {"fail", "hook"}
  Discipline = {"serial"}
  Ceilings = {}
  MaxPatches = 2
  MaxAdds = 0
  MaxObjects = 2
  MaxCheckpoints = 2
  MaxRestarts = 1
INVARIANTS
  DotsUnique
  OwnWritesVisible
  CacheMatchesFrontier
  FreshIsComplete
  CheckpointSound
PROPERTIES
  LamportCoversReads
CHECK_DEADLOCK FALSE
