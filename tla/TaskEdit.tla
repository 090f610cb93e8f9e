------------------------------ MODULE TaskEdit ------------------------------
(***************************************************************************)
(* The bulk edit of the tasks of one group: internal/questspace/tasks and  *)
(* the statements of internal/pgdb/pgclient/task.go.  It runs inside the   *)
(* edit of the group, which has locked the group's row, so no other edit   *)
(* of the same tasks runs meanwhile, and it is one operator here.          *)
(*                                                                         *)
(* A task is [group, idx, reward, hints]; a hint is its penalty, [kind,    *)
(* value].  Names, questions, answers and media are left out.  An edit is  *)
(* [delete, update, create]: ids, [id, idx, reward, hints, texts] and      *)
(* [idx, reward, hints, texts].  texts is the number of hints given in the *)
(* old form, as texts without a penalty; hints is None when hints_full is  *)
(* not given, and reward 0 when reward is not.                             *)
(***************************************************************************)
EXTENDS OrderedPack

CONSTANT MaxHints      \* the CHECK of questspace.hint: index < 4

DefaultPenalty == [kind |-> "percent", value |-> 20]

(* Go's division truncates.                                                *)
Truncated(x, y) == IF x >= 0 THEN x \div y ELSE -((-x) \div y)

PenaltyPoints(penalty, reward) ==
  IF penalty.kind = "percent" THEN Truncated(reward * penalty.value, 100)
  ELSE penalty.value

TotalPenalty(hints, reward) ==
  FoldLeft(LAMBDA sum, p : sum + PenaltyPoints(p, reward), 0, hints)

NoPenaltyCheck(reward, hints) == TRUE  \* mutant: validatePenalties is not called

ValidPenalties(reward, hints) == TotalPenalty(hints, reward) <= reward

(* What can be read back: NewPercentagePenalty refuses other percentages,  *)
(* and with them every read of the task's hints.                           *)
SoundPenalty(penalty) == penalty.kind = "percent" => penalty.value \in 0 .. 100

GetTasksWorks(tasks) ==
  \A t \in DOMAIN tasks : \A i \in DOMAIN tasks[t].hints : SoundPenalty(tasks[t].hints[i])

(* createHints and updateHints: the hints a request gives in either form,  *)
(* or None.                                                                *)
GivenHints(u) ==
  IF u.hints # None THEN u.hints
  ELSE IF u.texts > 0 THEN [i \in 1 .. u.texts |-> DefaultPenalty] ELSE None

(* A create with an empty list of hints looks at the texts too.            *)
CreatedHints(c) ==
  IF c.hints \in {None, <<>>} THEN [i \in 1 .. c.texts |-> DefaultPenalty] ELSE c.hints

-----------------------------------------------------------------------------
(* The steps fold over a pack with one more field, rows: the tasks of the  *)
(* group as the transaction has left them.                                 *)

DeleteTask(s, id) ==
  LET p == Unlink(s, id)
  IN  IF p.why = "ok" THEN [p EXCEPT !.rows = [t \in DOMAIN @ \ {id} |-> @[t]]] ELSE p

Store(s, id, row) ==
  Put([s EXCEPT !.rows = [t \in DOMAIN @ \cup {id} |-> IF t = id THEN row ELSE @[t]]],
      Item(id, row.idx))

(* UpdateTask: the order index is always written, the reward and the hints *)
(* when they are given.  The penalties are summed over the given hints.    *)
UpdateTask(s, u) ==
  LET given == GivenHints(u)
      row == [s.rows[u.id] EXCEPT
                !.idx = u.idx,
                !.reward = IF u.reward = 0 THEN @ ELSE u.reward,
                !.hints = IF given = None THEN @ ELSE given]
  IN  IF s.why = "panic" THEN s
      ELSE IF given # None /\ (Len(given) > MaxHints \/ ~ValidPenalties(row.reward, given))
           THEN Reject(s) ELSE Store(s, u.id, row)

CreateTask(s, c, id, group) ==
  LET row == [group |-> group, idx |-> c.idx, reward |-> c.reward,
              hints |-> CreatedHints(c)]
  IN  IF Len(row.hints) > MaxHints \/ ~ValidPenalties(row.reward, row.hints)
      THEN Reject(s) ELSE Store(s, id, row)

ClapTask(s, item) == [s EXCEPT !.rows[item.id].idx = item.idx]

(* Each loop runs only when the one before returned no error.              *)
DeleteTasks(s, deletes) ==
  IF s.why # "ok" THEN s ELSE FoldLeft(DeleteTask, s, deletes)

UpdateTasks(s, updates) ==
  IF s.why # "ok" THEN s ELSE FoldLeft(UpdateTask, s, updates)

CreateTasks(s, creates, ids, group) ==
  IF s.why # "ok" THEN s
  ELSE FoldLeft(LAMBDA p, i : CreateTask(p, creates[i], ids[i], group),
                s, [i \in DOMAIN creates |-> i])

ClapTasks(s) == IF s.why # "ok" THEN s ELSE FoldLeft(ClapTask, s, Claps(s))

OpenTasks(rows) ==
  LET pack == Pack([t \in DOMAIN rows |-> rows[t].idx])
  IN  [at |-> pack.at, old |-> pack.old, why |-> pack.why, rows |-> rows]

(* The last read fails on what could not be read back.                     *)
ReadBack(s) == IF GetTasksWorks(s.rows) THEN s ELSE Reject(s)

DistinctIndexes(rows) ==
  \A t, u \in DOMAIN rows : rows[t].idx = rows[u].idx => t = u

(* BulkUpdate of tasks of one group; ids are those the database gives to   *)
(* the created tasks.  The tasks are read first and last.                  *)
BulkUpdate(rows, req, ids, group) ==
  LET Deleted(s) == Grow(DeleteTasks(s, req.delete), Len(req.create), Len(req.delete))
      Updated(s) == UpdateTasks(Reorder(s, req.update), req.update)
      Created(s) == CreateTasks(CheckCreates(s, req.create), req.create, ids, group)
  IN  ReadBack(ClapTasks(Created(Updated(Deleted(ReadBack(OpenTasks(rows)))))))
=============================================================================
