---------------------------- MODULE OrderedPack -----------------------------
(***************************************************************************)
(* The slice a bulk edit works on: taskGroupsPacked of                     *)
(* internal/questspace/taskgroups/updater.go and, statement for statement, *)
(* tasksPacked of internal/questspace/tasks/updater.go.                    *)
(*                                                                         *)
(* A pack has                                                              *)
(*   at    the slice `ordered`: slot -> [id, idx] or None                  *)
(*   old   OrderIdx of the items in the map `byID`, before the updates     *)
(*   why   "ok", "rejected" (an error is returned) or "panic"              *)
(* and may have more fields.  An update or a create of an item is a record *)
(* with its id and the order index idx it asks for.                        *)
(***************************************************************************)
EXTENDS Permutations

CONSTANT None

Item(id, idx) == [id |-> id, idx |-> idx]
Length(pack) == Cardinality(DOMAIN pack.at)

(* getOldTaskGroups: rows maps ids to order indexes; the slice is filled   *)
(* in their order, whatever they are (ORDER BY order_idx).                 *)
Pack(rows) ==
  LET sorted == InOrder(rows)
  IN  [at  |-> [i \in Slots(Len(sorted)) |-> Item(sorted[i+1], rows[sorted[i+1]])],
       old |-> rows,
       why |-> "ok"]

Reject(pack) == IF pack.why = "panic" THEN pack ELSE [pack EXCEPT !.why = "rejected"]
Panic(pack) == [pack EXCEPT !.why = "panic"]

(* deleteTaskGroups, the loop before the statements.                       *)
Unlink(pack, id) ==
  IF id \notin DOMAIN pack.old THEN Reject(pack)
  ELSE IF pack.old[id] \notin DOMAIN pack.at THEN Panic(pack)
  ELSE [pack EXCEPT !.at[pack.old[id]] = None,
                    !.old = [i \in DOMAIN @ \ {id} |-> @[i]]]

UnlinkAll(pack, ids) == FoldLeft(Unlink, pack, ids)

(* BulkUpdateTaskGroups: room for what will be created; never less room    *)
(* than there was.                                                         *)
NeverGrow(pack, created, deleted) == pack  \* mutant: the slice keeps its length

Grow(pack, created, deleted) ==
  LET n == Length(pack) + created - deleted
  IN  IF n <= Length(pack) THEN pack
      ELSE [pack EXCEPT !.at = [i \in Slots(n) |-> IF i \in DOMAIN @ THEN @[i] ELSE None]]

(* getOrderChanges                                                         *)
Moving(pack, updates) ==
  LET IsMove(u) == u.id \in DOMAIN pack.old /\ pack.old[u.id] # u.idx
      moving == Increasing({i \in DOMAIN updates : IsMove(updates[i])})
  IN  [k \in DOMAIN moving |-> updates[moving[k]]]

MovesAreSound(pack, updates) ==
  LET moving == Moving(pack, updates)
  IN  /\ \A i \in DOMAIN updates : updates[i].id \in DOMAIN pack.old
      /\ \A i, j \in DOMAIN moving : moving[i].idx = moving[j].idx => i = j

Moves(pack, updates) ==
  LET moving == Moving(pack, updates)
  IN  [i \in DOMAIN moving |->
        [prev |-> pack.old[moving[i].id], next |-> moving[i].idx]]

(* reorderUpdatedTaskGroups                                                *)
Shift(s, slot) == [prev |-> s.at[slot], at |-> [s.at EXCEPT ![slot] = s.prev]]

ShiftTree(at, tree) ==
  FoldLeft(Shift, [prev |-> at[Head(tree)], at |-> [at EXCEPT ![Head(tree)] = None]],
           Tail(tree)).at

ShiftCycle(at, cycle) ==
  FoldLeft(Shift, [prev |-> at[Head(cycle)],
                   at |-> [at EXCEPT ![Head(cycle)] = at[Last(cycle)]]],
           Tail(cycle)).at

NeverTaken(pack, trees) == FALSE  \* mutant: the end of a chain is not checked

TakenEnd(pack, trees) == \E t \in trees : pack.at[Last(t)] # None

Reorder(pack, updates) ==
  LET split == FindTreesAndCycles(Length(pack), Moves(pack, updates))
      trees == FoldSet(LAMBDA t, at : ShiftTree(at, t), pack.at, split.trees)
  IN  IF pack.why # "ok" THEN pack
      ELSE IF ~MovesAreSound(pack, updates) THEN Reject(pack)
      ELSE IF Moving(pack, updates) = <<>> THEN pack
      ELSE IF split.panics THEN Panic(pack)
      ELSE IF TakenEnd(pack, split.trees) THEN Reject(pack)
      ELSE [pack EXCEPT !.at = FoldSet(LAMBDA c, at : ShiftCycle(at, c), trees, split.cycles)]

(* An updated or created item takes the slot of its order index.           *)
Put(pack, item) ==
  IF item.idx \in DOMAIN pack.at THEN [pack EXCEPT !.at[item.idx] = item] ELSE Panic(pack)

(* createTaskGroups, the loop before the statements.                       *)
CheckCreates(pack, creates) ==
  IF pack.why # "ok" THEN pack
  ELSE IF \E i \in DOMAIN creates : creates[i].idx \notin DOMAIN pack.at THEN Panic(pack)
  ELSE IF \E i \in DOMAIN creates : pack.at[creates[i].idx] # None THEN Reject(pack)
  ELSE pack

(* clapPack: the statements that close the gaps.                           *)
Taken(pack) == {i \in DOMAIN pack.at : pack.at[i] # None}
Place(pack, slot) == Cardinality({i \in Taken(pack) : i < slot})
Gaps(pack) == Increasing({i \in Taken(pack) : pack.at[i].idx # Place(pack, i)})

ClapNothing(pack) == <<>>  \* mutant: gaps stay

ClapTooFar(pack) ==  \* mutant: off by one
  LET gaps == Gaps(pack)
  IN  [k \in DOMAIN gaps |-> Item(pack.at[gaps[k]].id, Place(pack, gaps[k]) - 1)]

Claps(pack) ==
  LET gaps == Gaps(pack)
  IN  [k \in DOMAIN gaps |-> Item(pack.at[gaps[k]].id, Place(pack, gaps[k]))]
=============================================================================
