SPECIFICATION Spec
CONSTANTS
  q1 = q1
  q2 = q2
  q3 = q3
  None = None
  Quests = {q1, q2, q3}
  PageSizes = {1, 2}
  Lists = {"all", "registered"}
  PerSecond = 2
  Starts = {2, 3, 4}
  MaxChanges = 1
  Shapes <- SomeShapes
INVARIANTS
  TypeOK
  NothingIsMissed
PROPERTIES
  ReadersFinish
