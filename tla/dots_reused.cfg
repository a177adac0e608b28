SPECIFICATION Spec
CONSTANTS
  Hosts = {"h1", "h2"}
  Writers = {"a", "b"}
  Sessions = {"s1", "s2"}
  HostOf <- TwoHostOf
  WriterOf <- TwoWriterOf
  Api <- TwoApi
  Faults = {}
  Discipline = {"serial"}
  Ceilings = {}
  MaxPatches = 2
  MaxAdds = 2
  MaxObjects = 0
  MaxCheckpoints = 0
  MaxRestarts = 0
INVARIANTS
  DotsUnique
CHECK_DEADLOCK FALSE
