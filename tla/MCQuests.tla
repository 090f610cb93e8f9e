------------------------------ MODULE MCQuests ------------------------------
(* An instance of Quests for TLC: a quest with a deadline and one without, *)
(* one whose times are in the wrong order, and updates of two fields.      *)
EXTENDS Quests, TLC

CONSTANTS q1, u1, u2, r1, r2

SomePlans == {[deadline |-> 1, start |-> 2, finish |-> 3],
              [deadline |-> None, start |-> 1, finish |-> None],
              [deadline |-> 2, start |-> 1, finish |-> 1]}
SomeChanges == {"start" :> 3, "finish" :> 2, "deadline" :> 0 @@ "start" :> 1}

Symmetry == Permutations(Requests)
=============================================================================
