SPECIFICATION Spec
CONSTANTS
  u1 = u1
  u2 = u2
  Users = {u1, u2}
  PageSizes = {1, 2}
  PerMilli = 2
  Late = 1
  MaxTime = 3
  MaxTries = 3
INVARIANTS
  TypeOK
  NothingIsMissed
PROPERTIES
  RepeatsAreExplained
  ReadersFinish
