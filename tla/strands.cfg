SPECIFICATION Spec
CONSTANTS
  Processes = {p1, p2}
  Slots = {s1, s2}
  Footprints = {{k1}, {k2}}
  MaxCalls = 4
  FirstSeq = 9998
SYMMETRY Interchangeable
INVARIANTS
  ReturnedPatchStays
  TickIsContiguous
  IntentsConserved
  DrainedInOrder
CHECK_DEADLOCK FALSE
