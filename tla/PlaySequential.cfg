SPECIFICATION Spec
CONSTANTS
  r1 = r1
  r2 = r2
  a = a
  b = b
  c = c
  d = d
  None = None
  Requests = {r1}
  QuestType = "LINEAR"
  NumGroups = 3
  Sticky = {1}
  TimeLimit <- SeqLimit
  Tasks = {a, b, c, d}
  GroupOf <- SeqGroupOf
  Manual = {a}
  NumHints <- SeqHints
  Reward <- SeqReward
  Charge <- MCCharge
  RegistrationDeadline = 2
  StartTime = 1
  FinishTime = 5
  MaxTime = 6
  Honest = FALSE
  Texts = {TRUE, FALSE}
INVARIANTS
  SolvedGroupsClose
  AcceptedOnce
PROPERTY
  ClosingIsFinal
CHECK_DEADLOCK FALSE
