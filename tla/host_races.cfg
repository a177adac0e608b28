SPECIFICATION RacesSpec

CONSTANTS
  Hosts = {h1, h2}
  Writers = {"a"}
  Sessions = {h1, h2}
  HostOf <- OwnHostOf
  WriterOf <- OneWriterOf
  Api <- AllGraph
  Faults = {"fail", "lostAck", "hook"}
  Discipline = {}
  Ceilings = {}
  MaxPatches = 3
  MaxAdds = 0
  MaxObjects = 1
  MaxCheckpoints = 0
  MaxRestarts = 1

SYMMETRY Interchangeable

INVARIANTS
  NoLostCommit

PROPERTIES
  ImplementsHistory

CHECK_DEADLOCK FALSE
