------------------------------ MODULE BulkEdit ------------------------------
(***************************************************************************)
(* The creator of a quest edits its task groups and their tasks:           *)
(*   bulk    PATCH /quest/{id}/task-groups/bulk   HandleBulkUpdate         *)
(*   create  POST  /quest/{id}/task-groups        HandleCreate             *)
(* Each runs in one READ COMMITTED transaction.  One action is one         *)
(* statement on a row of task_group, or what the Go code decides between   *)
(* two of them; the edit of the tasks of one group is one operator, see    *)
(* TaskEdit.  The order indexes of a quest are unique; Postgres looks when *)
(* the transaction commits.                                                *)
(*                                                                         *)
(* An edit is [op, alone, delete, update, create]: whether it is large and *)
(* sent alone (see MayOverlap), ids, [id, idx, tasks] and [idx, tasks].    *)
(* tasks is an edit of TaskEdit, or None; that of a created group only     *)
(* creates.  The creator, the quest, image links, names and time limits    *)
(* are left out, and the quest has not started: a running one refuses      *)
(* HandleCreate.                                                           *)
(***************************************************************************)
EXTENDS TaskEdit

CONSTANTS
  Requests,     \* edits that can be in progress at the same time
  Groups,       \* bound: the groups that can exist at the same time
  Tasks,        \* bound: the tasks that can exist at the same time
  Edits(_, _, _) \* bound: the edits sent, alone or not, when these groups and tasks exist

(* What a request may hold: the lists of its JSON.                         *)
Hints == Seq([kind : {"percent", "score"}, value : Int])
TaskUpdate == [id : Tasks, idx : Int, reward : Int, hints : Hints \cup {None}, texts : Nat]
TaskCreate == [idx : Int, reward : Int, hints : Hints \cup {None}, texts : Nat]
TasksEdit == [delete : Seq(Tasks), update : Seq(TaskUpdate), create : Seq(TaskCreate)]
Edit == [op : {"bulk", "create"}, alone : BOOLEAN, delete : Seq(Groups),
         update : Seq([id : Groups, idx : Int, tasks : TasksEdit \cup {None}]),
         create : Seq([idx : Int, tasks : {e \in TasksEdit : e.delete = <<>> /\ e.update = <<>>}
                                            \cup {None}])]

ASSUME BulkEditAssumption ==
  /\ None \notin Groups \cup Tasks /\ None \notin Nat
  /\ Groups \cap Tasks = {} /\ IsFiniteSet(Groups) /\ IsFiniteSet(Tasks)
  /\ MaxHints \in Nat
  /\ \A alone \in BOOLEAN, G \in SUBSET Groups, T \in SUBSET Tasks : Edits(alone, G, T) \subseteq Edit

VARIABLES
  group,   \* task_group: the order index of a group, or None
  task,    \* task and hint: the row of a task, or None
  pc,      \* what a request does next
  input,   \* its edit
  loc,     \* its pack, what it read, and the number of the next statement
  tx       \* what its transaction has written

vars == <<group, task, pc, input, loc, tx>>

NoEdit == [op |-> "none", alone |-> FALSE, delete |-> <<>>, update |-> <<>>, create |-> <<>>]
NoLoc == [at |-> <<>>, old |-> <<>>, why |-> "ok", seen |-> <<>>, claps |-> <<>>, next |-> 1]
NoTx == [wrote |-> {}, group |-> [g \in Groups |-> None],
         task |-> [t \in Tasks |-> None], suspect |-> {}]

Init ==
  /\ group = [g \in Groups |-> None]
  /\ task = [t \in Tasks |-> None]
  /\ pc = [r \in Requests |-> "idle"]
  /\ input = [r \in Requests |-> NoEdit]
  /\ loc = [r \in Requests |-> NoLoc]
  /\ tx = [r \in Requests |-> NoTx]

-----------------------------------------------------------------------------
(* What a statement of r sees.                                             *)
Overlay(table, own, wrote) ==
  [i \in DOMAIN table |-> IF i \in wrote THEN own[i] ELSE table[i]]
GroupsSeen(r) == Overlay(group, tx[r].group, tx[r].wrote)
TasksSeen(r) == Overlay(task, tx[r].task, tx[r].wrote)

Rows(table) == [i \in {j \in DOMAIN table : table[j] # None} |-> table[i]]
TasksOf(table, g) == [t \in {u \in DOMAIN Rows(table) : table[u].group = g} |-> table[t]]

(* A row another transaction has written cannot be written.                *)
LockedFor(r, i) == \E q \in Requests \ {r} : i \in tx[q].wrote

(* The index entry of a row is rechecked at the commit when its key had,   *)
(* for all one could know, another live entry when it was made.            *)
HasKey(q, g, idx) == g \in tx[q].wrote /\ tx[q].group[g] = idx
Clash(r, g, idx) ==
  \E h \in Groups \ {g} :
    \/ h \notin tx[r].wrote /\ group[h] = idx
    \/ \E q \in Requests : HasKey(q, h, idx)

WriteGroup(r, g, idx) ==
  [tx[r] EXCEPT !.wrote = @ \cup {g}, !.group[g] = idx,
                !.suspect = IF idx # None /\ Clash(r, g, idx) THEN @ \cup {g} ELSE @ \ {g}]

(* The tasks of group g become rows.                                       *)
WriteTasks(t, r, g, rows) ==
  LET touched == DOMAIN TasksOf(TasksSeen(r), g) \cup DOMAIN rows
  IN  [t EXCEPT !.wrote = @ \cup touched,
                !.task = [i \in Tasks |->
                  IF i \notin touched THEN @[i]
                  ELSE IF i \in DOMAIN rows THEN rows[i] ELSE None]]

(* Ids that mean nothing to anyone yet.                                    *)
Named(r) ==
  LET Ids(s) == {s[i].id : i \in DOMAIN s}
      Nested == {input[r].update[i].tasks : i \in DOMAIN input[r].update} \ {None}
  IN  DOMAIN loc[r].seen \cup Range(input[r].delete) \cup Ids(input[r].update)
      \cup UNION {Range(e.delete) \cup Ids(e.update) : e \in Nested}
Unused(table) ==
  {i \in DOMAIN table : /\ table[i] = None
                        /\ \A q \in Requests : i \notin tx[q].wrote \cup Named(q)}
Fresh(table, n) == {s \in [1 .. n -> Unused(table)] : IsInjective(s)}

Step(r, label, l, t) ==
  /\ pc' = [pc EXCEPT ![r] = label]
  /\ loc' = [loc EXCEPT ![r] = l]
  /\ tx' = [tx EXCEPT ![r] = t]
  /\ UNCHANGED <<group, task, input>>
Goto(r, label, l) == Step(r, label, [l EXCEPT !.next = 1], tx[r])
Next1(l) == [l EXCEPT !.next = @ + 1]

(* The request is answered; its transaction is rolled back if it has not   *)
(* been committed.                                                         *)
End(r) ==
  /\ pc' = [pc EXCEPT ![r] = "idle"]
  /\ input' = [input EXCEPT ![r] = NoEdit]
  /\ loc' = [loc EXCEPT ![r] = NoLoc]
  /\ tx' = [tx EXCEPT ![r] = NoTx]
Rollback(r) == End(r) /\ UNCHANGED <<group, task>>

(* Where a pack leads: on to label, to an error, or to a panic.  After an  *)
(* error the code may still send statements, which are rolled back too.    *)
Proceed(r, pack, label) ==
  IF pack.why = "ok" THEN Goto(r, label, pack)
  ELSE IF pack.why = "panic" THEN Goto(r, "panic", pack)
  ELSE Rollback(r)

(* A bound: large edits are sent alone, small ones of every kind overlap.  *)
MayOverlap(r, alone) ==
  /\ alone => \A q \in Requests \ {r} : pc[q] = "idle"
  /\ \A q \in Requests : ~input[q].alone

Arrive(r, op, label) ==
  /\ pc[r] = "idle"
  /\ \E alone \in BOOLEAN :
       /\ MayOverlap(r, alone)
       /\ \E e \in Edits(alone, DOMAIN Rows(group), DOMAIN Rows(task)) :
            /\ e.op = op
            /\ input' = [input EXCEPT ![r] = e]
  /\ pc' = [pc EXCEPT ![r] = label]
  /\ UNCHANGED <<group, task, loc, tx>>

HandleBulkUpdate(r) == Arrive(r, "bulk", "read")
HandleCreate(r) == Arrive(r, "create", "list")

-----------------------------------------------------------------------------
(* Service.Create: the groups it reads are deleted, one statement each.    *)
ListOldGroups(r) ==
  /\ pc[r] = "list"
  /\ input' = [input EXCEPT ![r].delete = InOrder(Rows(GroupsSeen(r)))]
  /\ pc' = [pc EXCEPT ![r] = "wipe"]
  /\ loc' = [loc EXCEPT ![r] = NoLoc]
  /\ UNCHANGED <<group, task, tx>>

(* The group's tasks go with it.                                           *)
DeleteRow(r, g) == WriteGroup(r, g, None)  \* mutant: the tasks stay

Delete(r, g) ==
  WriteTasks(WriteGroup(r, g, None), r, g, <<>>)

WipeGroup(r) ==
  LET g == input[r].delete[loc[r].next]
  IN  /\ pc[r] = "wipe" /\ loc[r].next \in DOMAIN input[r].delete
      /\ ~LockedFor(r, g)
      /\ Step(r, "wipe", Next1(loc[r]), Delete(r, g))

(* What follows is BulkUpdateTaskGroups with the groups to create.         *)
EndWipe(r) ==
  /\ pc[r] = "wipe" /\ loc[r].next \notin DOMAIN input[r].delete
  /\ pc' = [pc EXCEPT ![r] = "read"]
  /\ input' = [input EXCEPT ![r].delete = <<>>]
  /\ loc' = [loc EXCEPT ![r] = NoLoc]
  /\ UNCHANGED <<group, task, tx>>

(* getOldTaskGroups and the checks of deleteTaskGroups.                    *)
GetOldTaskGroups(r) ==
  LET rows == Rows(GroupsSeen(r))
      pack == UnlinkAll(Pack(rows), input[r].delete)
  IN  /\ pc[r] = "read"
      /\ Proceed(r, [NoLoc EXCEPT !.at = pack.at, !.old = pack.old,
                                  !.why = pack.why, !.seen = rows], "delete")

(* DELETE of a row that is gone deletes nothing.                           *)
DeleteTaskGroup(r) ==
  LET g == input[r].delete[loc[r].next]
  IN  /\ pc[r] = "delete" /\ loc[r].next \in DOMAIN input[r].delete
      /\ ~LockedFor(r, g)
      /\ Step(r, "delete", Next1(loc[r]),
              IF GroupsSeen(r)[g] = None THEN tx[r] ELSE Delete(r, g))

ReorderUpdatedTaskGroups(r) ==
  /\ pc[r] = "delete" /\ loc[r].next \notin DOMAIN input[r].delete
  /\ Proceed(r, Reorder(Grow(loc[r], Len(input[r].create), Len(input[r].delete)),
                        input[r].update), "update")

(* The nested edit of a group's tasks, after the group's own statement.    *)
EditTasks(r, g, req, t, l) ==
  IF req = None THEN Step(r, pc[r], l, t)
  ELSE \E ids \in Fresh(task, Len(req.create)) :
         \E s \in {BulkUpdate(TasksOf(TasksSeen(r), g), req, ids, g)} :
           IF s.why = "ok" THEN Step(r, pc[r], l, WriteTasks(t, r, g, s.rows))
           ELSE Proceed(r, [l EXCEPT !.why = s.why], pc[r])

(* updateTaskGroups: UPDATE ... RETURNING finds no row when the group was  *)
(* deleted meanwhile, which is an error.                                   *)
UpdateTaskGroup(r) ==
  LET u == input[r].update[loc[r].next]
      l == Put(loc[r], Item(u.id, u.idx))
  IN  /\ pc[r] = "update" /\ loc[r].next \in DOMAIN input[r].update
      /\ ~LockedFor(r, u.id)
      /\ IF GroupsSeen(r)[u.id] = None THEN Rollback(r)
         ELSE IF l.why = "panic" THEN Goto(r, "panic", l)
         ELSE EditTasks(r, u.id, u.tasks, WriteGroup(r, u.id, u.idx), Next1(l))

CheckCreateTaskGroups(r) ==
  /\ pc[r] = "update" /\ loc[r].next \notin DOMAIN input[r].update
  /\ Proceed(r, CheckCreates(loc[r], input[r].create), "create")

(* createTaskGroups                                                        *)
CreateTaskGroup(r) ==
  LET c == input[r].create[loc[r].next]
  IN  /\ pc[r] = "create" /\ loc[r].next \in DOMAIN input[r].create
      /\ \E ids \in Fresh(group, 1) :
           EditTasks(r, ids[1], c.tasks, WriteGroup(r, ids[1], c.idx),
                     Next1(Put(loc[r], Item(ids[1], c.idx))))

StartClap(r) ==
  /\ pc[r] = "create" /\ loc[r].next \notin DOMAIN input[r].create
  /\ Goto(r, "clap", [loc[r] EXCEPT !.claps = Claps(loc[r])])

ClapPack(r) ==
  LET item == loc[r].claps[loc[r].next]
  IN  /\ pc[r] = "clap" /\ loc[r].next \in DOMAIN loc[r].claps
      /\ ~LockedFor(r, item.id)
      /\ IF GroupsSeen(r)[item.id] = None THEN Rollback(r)
         ELSE Step(r, "clap", Next1(loc[r]), WriteGroup(r, item.id, item.idx))

(* The answer is read back with its tasks, or there is no answer.          *)
GetNewTaskGroups(r) ==
  /\ pc[r] = "clap" /\ loc[r].next \notin DOMAIN loc[r].claps
  /\ IF GetTasksWorks(Rows(TasksSeen(r))) THEN Goto(r, "commit", loc[r]) ELSE Rollback(r)

-----------------------------------------------------------------------------
(* The deferred checks of unique_group_order and unique_task_order.  A row *)
(* that another transaction is changing is waited for.                     *)
CommitWaits(r, q) ==
  \E g \in tx[r].suspect : \E h \in (Groups \cap tx[q].wrote) \ {g} :
    tx[r].group[g] \in {tx[q].group[h], group[h]}

AnyOrder(r) == TRUE  \* mutant: no unique_group_order, unique_task_order

OrderIsUnique(r) ==
  /\ \A g \in tx[r].suspect : \A h \in Groups \ {g} : GroupsSeen(r)[h] # tx[r].group[g]
  /\ \A g \in Groups : DistinctIndexes(TasksOf(TasksSeen(r), g))

CommitUnique(r) ==
  /\ group' = GroupsSeen(r)
  /\ task' = TasksSeen(r)

Commit(r) ==
  /\ pc[r] = "commit"
  /\ \A q \in Requests \ {r} : ~CommitWaits(r, q)
  /\ IF OrderIsUnique(r) THEN CommitUnique(r) ELSE UNCHANGED <<group, task>>
  /\ End(r)

(* The recovery middleware answers 500; the deferred Rollback runs.        *)
Recover(r) == pc[r] = "panic" /\ Rollback(r)

(* A statement or the connection fails.                                    *)
Fail(r) == pc[r] \in {"wipe", "delete", "update", "create", "clap", "commit"} /\ Rollback(r)

WaitsFor(r, q) ==
  LET Next(list) == IF loc[r].next \in DOMAIN list THEN list[loc[r].next] ELSE Item(None, 0)
  IN  /\ q # r
      /\ \/ /\ pc[r] \in {"wipe", "delete"}
            /\ loc[r].next \in DOMAIN input[r].delete
            /\ input[r].delete[loc[r].next] \in tx[q].wrote
         \/ pc[r] = "update" /\ Next(input[r].update).id \in tx[q].wrote
         \/ pc[r] = "clap" /\ Next(loc[r].claps).id \in tx[q].wrote
         \/ pc[r] = "commit" /\ CommitWaits(r, q)

DeadlockVictim(r) ==
  /\ \E S \in SUBSET Requests :
       /\ r \in S
       /\ \A p \in S : (\E q \in S : WaitsFor(p, q)) /\ (\E q \in S : WaitsFor(q, p))
  /\ Rollback(r)

Serve(r) ==
  \/ ListOldGroups(r) \/ WipeGroup(r) \/ EndWipe(r)
  \/ GetOldTaskGroups(r) \/ DeleteTaskGroup(r) \/ ReorderUpdatedTaskGroups(r)
  \/ UpdateTaskGroup(r) \/ CheckCreateTaskGroups(r) \/ CreateTaskGroup(r)
  \/ StartClap(r) \/ ClapPack(r) \/ GetNewTaskGroups(r)
  \/ Commit(r) \/ Recover(r) \/ DeadlockVictim(r)

Next ==
  \E r \in Requests : HandleBulkUpdate(r) \/ HandleCreate(r) \/ Serve(r) \/ Fail(r)

Spec == Init /\ [][Next]_vars
-----------------------------------------------------------------------------
(* A task is not left behind by its group, whatever edits overlap: the     *)
(* rows of a group's tasks are written under the lock of the group's row.  *)
TasksHaveGroups == \A t \in Tasks : task[t] # None => group[task[t].group] # None

(* Types of the tables and of the requests' control; every task has its    *)
(* group.                                                                  *)
TypeOK ==
  /\ group \in [Groups -> Nat \cup {None}]
  /\ \A t \in Tasks : task[t] # None =>
       /\ task[t].group \in Groups /\ task[t].idx \in Nat
       /\ Len(task[t].hints) <= MaxHints
  /\ pc \in [Requests -> {"idle", "list", "wipe", "read", "delete", "update",
                          "create", "clap", "commit", "panic"}]
  /\ \A r \in Requests : tx[r].suspect \subseteq tx[r].wrote \cap Groups
  /\ TasksHaveGroups

Dense(rows) == Range(rows) = Slots(Cardinality(DOMAIN rows))

EachOnce(updates) ==
  \A i, j \in DOMAIN updates : updates[i].id = updates[j].id => i = j
IndexesDiffer(creates) ==
  \A i, j \in DOMAIN creates : creates[i].idx = creates[j].idx => i = j

(* What the code takes for granted of an order and of an edit of it.       *)
Tidy(old, e) == Dense(old) /\ EachOnce(e.update) /\ IndexesDiffer(e.create)

IndexesOf(tasks) == [t \in DOMAIN tasks |-> tasks[t].idx]

(* The edits of tasks in an edit, each with the order it is made to: the   *)
(* group's lock keeps that of an existing group as it was.                 *)
NestedEdits(r) ==
  LET e == input[r]
  IN  {[old |-> IndexesOf(TasksOf(task, u.id)), e |-> u.tasks] :
         u \in {v \in Range(e.update) : v.tasks # None}}
      \cup {[old |-> <<>>, e |-> c.tasks] : c \in {d \in Range(e.create) : d.tasks # None}}

(* The order has no gap by now, no group that a request has read is gone   *)
(* and, if it takes groups away itself, nothing has changed but what it    *)
(* has written.                                                            *)
ReadStillHolds(r) ==
  LET seen == loc[r].seen
  IN  /\ Dense(Rows(group)) /\ DOMAIN seen \subseteq DOMAIN Rows(group)
      /\ input[r].op = "create" \/ input[r].delete # <<>> =>
           \A g \in DOMAIN Rows(group) :
             IF g \in DOMAIN seen THEN group[g] = seen[g] ELSE g \in tx[r].wrote

(* The order indexes of a quest's groups, and of the tasks of each group,  *)
(* are 0, 1, 2... after an edit, if they were before and no group or index *)
(* is named twice: the next edit uses them as positions in a slice         *)
(* (updater.go:68).  Others may have moved groups, or added some, since an *)
(* edit that removes none read them: unique_group_order must catch what    *)
(* does not fit.                                                           *)
OrdersStayDense ==
  \A r \in Requests : pc[r] = "commit" /\ OrderIsUnique(r) =>
    /\ Tidy(loc[r].seen, input[r]) /\ ReadStillHolds(r) => Dense(Rows(GroupsSeen(r)))
    /\ EachOnce(input[r].update) /\ (\A n \in NestedEdits(r) : Tidy(n.old, n.e)) =>
         \A g \in tx[r].wrote \cap Groups : Dense(IndexesOf(TasksOf(TasksSeen(r), g)))

(* The places of the items an edit keeps: all items stand in the order of  *)
(* the index they were given or, when none was given, had.                 *)
Places(old, e) ==
  LET kept == DOMAIN old \ Range(e.delete)
      Given(id) == {e.update[i].idx : i \in {j \in DOMAIN e.update : e.update[j].id = id}}
      want == [id \in kept |-> IF Given(id) = {} THEN old[id] ELSE CHOOSE x \in Given(id) : TRUE]
      taken == Range(want) \cup {e.create[i].idx : i \in DOMAIN e.create}
  IN  [id \in kept |-> Cardinality({x \in taken : x < want[id]})]

(* A tidy edit of groups that no other edit has changed since it read them *)
(* commits the order it was asked for.  The code gets there by deletions,  *)
(* chains, cycles, insertions and claps.                                   *)
EditsAreDoneAsAsked ==
  \A r \in Requests : pc[r] = "commit" /\ Tidy(loc[r].seen, input[r]) =>
    LET places == Places(loc[r].seen, input[r])
    IN  /\ (\A g \in DOMAIN loc[r].seen : group[g] = loc[r].seen[g]) =>
             \A g \in DOMAIN places : GroupsSeen(r)[g] = places[g]
        /\ \A n \in NestedEdits(r) : Tidy(n.old, n.e) =>
             \A t \in DOMAIN Places(n.old, n.e) :
               TasksSeen(r)[t].idx = Places(n.old, n.e)[t]

(* FindTreesAndCycles returns the moves it was given, as disjoint chains   *)
(* that begin where nothing goes and cycles that close, and meets no nil   *)
(* pointer: however edits overlap, the moves of an edit that names no      *)
(* group twice are one to one.                                             *)
MovesAreSplit ==
  \A r \in Requests : pc[r] = "delete" /\ loc[r].next \notin DOMAIN input[r].delete =>
    LET e == input[r]
        pack == Grow(loc[r], Len(e.create), Len(e.delete))
        moves == Moves(pack, e.update)
        split == FindTreesAndCycles(Length(pack), moves)
    IN  EachOnce(e.update) /\ MovesAreSound(pack, e.update)
          /\ InSlots(Length(pack), moves) =>
          ~split.panics /\ SplitsMoves(split, moves)

(* Indexes that fit into the slice of n items.                             *)
InRange(n, e) ==
  LET size == Max({n, n + Len(e.create) - Len(e.delete)})
  IN  \A list \in {e.update, e.create} : \A i \in DOMAIN list : list[i].idx \in Slots(size)

(* Why a slice or a pointer of the code may fail: an index out of range,   *)
(* which it does not refuse (updater.go:165, 184), an item moved twice, or *)
(* an order with a gap.                                                    *)
Explains(old, e) ==
  ~InRange(Cardinality(DOMAIN old), e) \/ ~EachOnce(e.update) \/ ~Dense(old)

(* An edit panics for those reasons only, whatever edits came before or    *)
(* run beside it: moves along a chain or a cycle and the slots that are    *)
(* emptied on the way never do.                                            *)
PanicsAreExplained ==
  [][\A r \in Requests : pc[r] # "panic" /\ pc'[r] = "panic" =>
       \/ Explains(loc'[r].seen, input[r])
       \/ \E n \in NestedEdits(r) : Explains(n.old, n.e)]_vars

(* An edit that names each group, and each task of a group, once.          *)
NamesOnce(e) ==
  /\ EachOnce(e.update)
  /\ \A i \in DOMAIN e.update :
       e.update[i].tasks # None => EachOnce(e.update[i].tasks.update)

(* Hints an edit gives to a task (tasks/updater.go:134) cost no more than  *)
(* the reward the task has then, if the edit names it once: a second       *)
(* update may lower the reward.  Hints an edit keeps are not looked at.    *)
PenaltiesFit ==
  [][\A r \in Requests : pc[r] = "commit" /\ pc'[r] = "idle" /\ NamesOnce(input[r]) =>
       \A t \in Tasks :
         task'[t] # None /\ (task[t] = None \/ task'[t].hints # task[t].hints)
           => TotalPenalty(task'[t].hints, task'[t].reward) <= task'[t].reward]_vars
=============================================================================
