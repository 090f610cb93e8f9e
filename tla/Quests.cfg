SPECIFICATION Spec
CONSTANTS
  q1 = q1
  u1 = u1
  u2 = u2
  r1 = r1
  r2 = r2
  None = None
  Gone = Gone
  Requests = {r1, r2}
  Users = {u1, u2}
  Creators = {u1}
  Quests = {q1}
  Plans <- SomePlans
  Changes <- SomeChanges
  MaxTime = 3
SYMMETRY Symmetry
INVARIANTS
  TypeOK
  LeaderboardAfterFinish
PROPERTIES
  OnlyCreatorChanges
  FinishedIsFinal
  StatusMovesForward
  UpdatesCompose
