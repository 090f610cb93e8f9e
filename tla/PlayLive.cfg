SPECIFICATION FairSpec
CONSTANTS
  r1 = r1
  r2 = r2
  a = a
  b = b
  c = c
  d = d
  None = None
  Requests = {r1, r2}
  QuestType = "LINEAR"
  NumGroups = 2
  Sticky = {}
  TimeLimit <- LiveLimit
  Tasks = {a, b}
  GroupOf <- LiveGroupOf
  Manual = {}
  NumHints <- NoHints
  Reward <- LiveReward
  Charge <- MCCharge
  RegistrationDeadline = None
  StartTime = 0
  FinishTime = 1
  MaxTime = 1
  Honest = FALSE
  Texts = {TRUE}
PROPERTY
  RequestsEnd
CHECK_DEADLOCK FALSE
