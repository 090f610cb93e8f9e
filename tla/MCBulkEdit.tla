----------------------------- MODULE MCBulkEdit -----------------------------
(* Instances of BulkEdit for TLC.                                          *)
EXTENDS BulkEdit

CONSTANTS g1, g2, g3, k1, k2, r1, r2

UpTo(n, S) == UNION {[1 .. m -> S] : m \in 0 .. n}

Bulk(alone, D, U, C) == [op : {"bulk"}, alone : {alone}, delete : D, update : U, create : C]
Create(alone, C) ==
  [op : {"create"}, alone : {alone}, delete : {<<>>}, update : {<<>>}, create : C]
MoveGroup(I) == [id : Groups, idx : I, tasks : {None}]
NewGroup(I) == [idx : I, tasks : {None}]
TwoNew(I) == {c \in UpTo(2, NewGroup(I)) : Len(c) = 2 => c[1].idx <= c[2].idx}

(* Deletions, moves and creations together, and three of a kind: ids that  *)
(* do not exist or come twice, slots that do not exist or are asked for    *)
(* twice.                                                                  *)
Orders ==
  Bulk(TRUE, UpTo(2, Groups), UpTo(1, MoveGroup(-1 .. 3)), TwoNew(0 .. 3))
  \cup Bulk(TRUE, UpTo(1, Groups), UpTo(2, MoveGroup(0 .. 2)), UpTo(1, NewGroup(0 .. 3)))
  \cup Bulk(TRUE, [1 .. 3 -> Groups], {<<>>}, TwoNew(0 .. 3))
  \cup Bulk(TRUE, {<<>>}, [1 .. 3 -> MoveGroup(0 .. 2)], {<<>>})

(* Tasks: hints within the reward, above it, a percentage that cannot be   *)
(* read, and a new reward with hints in either form or without.            *)
Half == [kind |-> "percent", value |-> 50]
Double == [kind |-> "percent", value |-> 200]
Seven == [kind |-> "score", value |-> 7]

NewTask(I, reward, hints) == [idx : I, reward : {reward}, hints : {hints}, texts : {0}]
MoveTask(I) == [id : Tasks, idx : I, reward : {0}, hints : {None}, texts : {0}]
SetTask(reward, hints, texts) ==
  [id : Tasks, idx : {0}, reward : {reward}, hints : {hints}, texts : {texts}]

TaskEdits ==
  [delete : UpTo(1, Tasks), update : UpTo(2, MoveTask(0 .. 1)),
   create : UpTo(1, NewTask(0 .. 1, 10, <<Half>>) \cup NewTask({0}, 0, <<Double>>))]
  \cup [delete : {<<>>}, create : {<<>>},
        update : [1 .. 1 -> SetTask(5, <<Seven>>, 0) \cup SetTask(0, <<Seven>>, 0)
                            \cup SetTask(5, None, 2) \cup SetTask(5, None, 0)]]

Nested(groups) ==
  Bulk(TRUE, {<<>>}, [1 .. 1 -> [id : groups, idx : {0}, tasks : TaskEdits]], {<<>>})

(* HandleCreate without tasks, and with two in the first group.            *)
TwoTasks == [delete |-> <<>>, update |-> <<>>,
             create |-> [i \in 1 .. 2 |-> [idx |-> i - 1, reward |-> 10, hints |-> <<Half>>, texts |-> 0]]]
Empty == Create(FALSE, {[i \in 1 .. n |-> [idx |-> i - 1, tasks |-> None]] : n \in {1, 3}})
Filled == Create(FALSE, {[i \in 1 .. 2 |->
            [idx |-> i - 1, tasks |-> IF i = 1 THEN TwoTasks ELSE None]]})

(* Edits that overlap: two moves, in either order of the rows, a deletion  *)
(* and a creation, or the tasks of a group.                                *)
SomeTaskEdits ==
  [delete : UpTo(1, Tasks), update : {<<>>}, create : UpTo(1, NewTask(0 .. 1, 10, <<Half>>))]
Overlaps(groups) ==
  Bulk(FALSE, {<<>>}, {[i \in 1 .. 2 |-> [id |-> m[i], idx |-> i - 1, tasks |-> None]] :
                         m \in [1 .. 2 -> groups]}, {<<>>})
  \cup Bulk(FALSE, UpTo(1, groups), {<<>>}, UpTo(1, NewGroup(1 .. 2)))
OverlapsInTasks(groups) ==
  Bulk(FALSE, {<<>>}, [1 .. 1 -> [id : groups, idx : {0}, tasks : SomeTaskEdits]], {<<>>})

Sent(alone, groups, tasks) ==
  CASE tasks = {} /\ alone  -> Orders
    [] tasks = {} /\ ~alone -> Empty \cup Filled \cup Overlaps(groups)
    [] tasks # {} /\ alone  -> Nested(groups)
    [] tasks # {} /\ ~alone -> OverlapsInTasks(groups)

Symmetry == Permutations(Requests) \cup Permutations(Groups) \cup Permutations(Tasks)
=============================================================================
