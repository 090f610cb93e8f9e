SPECIFICATION Spec
CONSTANTS
  r1 = r1
  r2 = r2
  a = a
  b = b
  c = c
  d = d
  None = None
  Requests = {r1, r2}
  QuestType = "LINEAR"
  NumGroups = 2
  Sticky = {}
  TimeLimit <- ScoreLimit
  Tasks = {a, b}
  GroupOf <- ScoreGroupOf
  Manual = {}
  NumHints <- ScoreHints
  Reward <- ScoreReward
  Charge <- MCCharge
  RegistrationDeadline = None
  StartTime = 0
  FinishTime = None
  MaxTime = 2
  Honest = FALSE
  Texts = {TRUE}
SYMMETRY Symmetry
INVARIANTS
  HintsAreCharged
  LateRequestsChangeNothing
  TimesAreOrdered
CHECK_DEADLOCK FALSE
