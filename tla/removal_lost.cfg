SPECIFICATION Spec
CONSTANTS
  Writers = {1, 2}
  n1 = n1
  e1 = e1
  Nodes = {n1}
  Edges = {e1}
  From <- Loop
  To <- Loop
  MaxPatches <- Each
  MaxAdds <- Each
  Mixing = FALSE
INVARIANTS
  ReplayIsMeaning
CHECK_DEADLOCK FALSE
