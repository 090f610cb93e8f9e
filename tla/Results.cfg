SPECIFICATION Spec
CONSTANTS
  t1 = t1
  t2 = t2
  t3 = t3
  k1 = k1
  k2 = k2
  r1 = r1
  r2 = r2
  None = None
  Requests = {r1, r2}
  Teams = {t1, t2, t3}
  Name <- Names
  Score <- Scores
  Values = {5}
  Penalized = {t1}
  MaxTime = 1
  MaxAnswers = 2
  MaxLate = 1
SYMMETRY Symmetry
INVARIANTS
  TypeOK
  RanksAreFair
  LeaderboardShowsTotals
PROPERTIES
  LonePenaltyReplaces
