----------------------------- MODULE LinearGame -----------------------------
(***************************************************************************)
(* What a linear quest promises a team: its groups close one after the     *)
(* other and never open again, and a task is solved only in a group that   *)
(* has been reached, that is, one with no open group before it.  Sticky    *)
(* groups stand outside this order.                                        *)
(***************************************************************************)
EXTENDS Integers

CONSTANTS NumGroups, Sticky, Tasks, GroupOf

VARIABLES solved, closed

Ordered == (1..NumGroups) \ Sticky
Reached(g) == \A h \in Ordered : h < g => h \in closed

Init == solved = {} /\ closed = {}

(* One answer is accepted, the groups next in order close, or both.        *)
Play ==
  \E T \in SUBSET Tasks, G \in SUBSET Ordered :
    /\ \A t, u \in T : t = u
    /\ \A t \in T : GroupOf[t] \in Ordered => Reached(GroupOf[t])
    /\ \A g \in G, h \in Ordered : h < g => h \in closed \cup G
    /\ solved' = solved \cup T
    /\ closed' = closed \cup G

Spec == Init /\ [][Play]_<<solved, closed>>
=============================================================================
