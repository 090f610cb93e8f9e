SPECIFICATION Spec
CONSTANTS
  r1 = r1
  r2 = r2
  a = a
  b = b
  c = c
  d = d
  None = None
  Requests = {r1, r2}
  QuestType = "LINEAR"
  NumGroups = 2
  Sticky = {}
  TimeLimit <- OpenEnded
  Tasks = {a, b, c}
  GroupOf <- SkewGroupOf
  Manual = {}
  NumHints <- NoHints
  Reward <- SkewReward
  Charge <- MCCharge
  RegistrationDeadline = None
  StartTime = 0
  FinishTime = None
  MaxTime = 0
  Honest = TRUE
  Texts = {TRUE}
INVARIANT
  SolvedGroupsClose
CHECK_DEADLOCK FALSE
