SPECIFICATION Spec
CONSTANTS
  u1 = u1
  u2 = u2
  u3 = u3
  t1 = t1
  t2 = t2
  r1 = r1
  r2 = r2
  None = None
  Requests = {r1, r2}
  Users = {u1, u2, u3}
  Teams = {t1}
  Creator = u1
  MaxTeamCap = None
  MaxTeamsAmount = None
  RegistrationType = "VERIFY"
  Ops <- Comings
SYMMETRY MemberSymmetry
INVARIANTS
  TypeOK
  TeamsHaveMembers
CHECK_DEADLOCK FALSE
