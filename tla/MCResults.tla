----------------------------- MODULE MCResults ------------------------------
(* An instance of Results for TLC: three teams, a task of which a hint may *)
(* cost a part, and one whose hints cost all it brings.                    *)
EXTENDS Results, TLC

CONSTANTS t1, t2, t3, k1, k2, r1, r2

Names == t1 :> 1 @@ t2 :> 2 @@ t3 :> 3
Scores == k1 :> {5, 3} @@ k2 :> {0}

Symmetry == Permutations(Requests)
=============================================================================
