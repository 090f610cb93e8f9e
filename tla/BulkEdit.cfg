SPECIFICATION Spec
CONSTANTS
  g1 = g1
  g2 = g2
  g3 = g3
  k1 = k1
  k2 = k2
  r1 = r1
  r2 = r2
  None = None
  MaxHints = 4
  Requests = {r1, r2}
  Groups = {g1, g2, g3}
  Tasks = {k1, k2}
  Edits <- Sent
SYMMETRY Symmetry
INVARIANTS
  TypeOK
  OrdersStayDense
  EditsAreDoneAsAsked
  MovesAreSplit
PROPERTIES
  PanicsAreExplained
  PenaltiesFit
