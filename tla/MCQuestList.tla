---------------------------- MODULE MCQuestList -----------------------------
(* An instance of QuestList for TLC.                                       *)
EXTENDS QuestList

CONSTANTS q1, q2, q3

(* Quests that are open to all, that the client may join, and that it has  *)
(* joined.                                                                 *)
Linked == [access |-> "link_only", own |-> FALSE, joined |-> FALSE]
SomeShapes == {Linked, [Linked EXCEPT !.joined = TRUE], [Linked EXCEPT !.access = "public"]}
=============================================================================
