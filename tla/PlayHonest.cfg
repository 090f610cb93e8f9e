SPECIFICATION Spec
CONSTANTS
  r1 = r1
  r2 = r2
  a = a
  b = b
  c = c
  d = d
  None = None
  Requests = {r1, r2}
  QuestType = "LINEAR"
  NumGroups = 3
  Sticky = {2}
  TimeLimit <- ChainLimit
  Tasks = {a, b, c, d}
  GroupOf <- ChainGroupOf
  Manual = {}
  NumHints <- NoHints
  Reward <- ChainReward
  Charge <- MCCharge
  RegistrationDeadline = None
  StartTime = 0
  FinishTime = None
  MaxTime = 1
  Honest = TRUE
  Texts = {TRUE}
SYMMETRY Symmetry
INVARIANTS
  TypeOK
  OnlyStickyPanics
  LastAnswerCloses
PROPERTY
  PlaysTheGame
CHECK_DEADLOCK FALSE
