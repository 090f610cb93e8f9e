--------------------------- MODULE MCTeamRegistry ---------------------------
(* Instances of TeamRegistry for TLC.                                      *)
EXTENDS TeamRegistry, TLC

CONSTANTS u1, u2, u3, t1, t2, r1, r2

AllOps == {"create", "join", "leave", "lead", "remove", "delete", "accept", "rename"}
Comings == {"create", "join", "leave", "rename"}
Joining == {"create", "join"}

Symmetry == Permutations(Requests) \cup Permutations(Teams)
MemberSymmetry == Symmetry \cup Permutations(Users \ {Creator})
=============================================================================
