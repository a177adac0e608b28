SPECIFICATION StateSpec
CONSTANTS
  Writers = {1, 2, 3}
  n1 = n1
  e1 = e1
  Nodes = {n1}
  Edges = {e1}
  From <- Loop
  To <- Loop
  MaxPatches <- PatchesOf
  MaxAdds <- AddsOf
  Mixing = FALSE
  a = a
  b = b
  c = c
  e = e
  Held <- HeldIds
  PageDots <- DotsOf
  Route <- Routes
  Depth = 2
  Capacity = 1
  MaxDirty = 3
  MaxChanges = 4
INVARIANTS
  StateIsMeaning
  ViewIsMeaning
  PagesAreTheSet
CHECK_DEADLOCK FALSE
