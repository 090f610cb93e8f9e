SPECIFICATION Spec
CONSTANTS
  u1 = u1
  u2 = u2
  u3 = u3
  t1 = t1
  t2 = t2
  r1 = r1
  r2 = r2
  None = None
  Requests = {r1}
  Users = {u1, u2, u3}
  Teams = {t1, t2}
  Creator = u1
  MaxTeamCap = 2
  MaxTeamsAmount = 1
  RegistrationType = "AUTO"
  Ops <- AllOps
SYMMETRY MemberSymmetry
INVARIANTS
  OneTeamPerUser
  UnderCapacity
  AcceptedWithinLimit
PROPERTIES
  CaptainStays
CHECK_DEADLOCK FALSE
