--------------------------- MODULE BulkEditProofs ---------------------------
(***************************************************************************)
(* Proofs about BulkEdit, for any number of requests, groups and tasks and *)
(* any body a request may have.                                            *)
(*                                                                         *)
(* The algorithms of an edit are folds.  Each is first turned into the     *)
(* states it goes through (the operators named ...Run), from which follow  *)
(* what it keeps: the types of a pack (OrderedPack), and for the tasks of  *)
(* one group what BulkUpdateType says.  Kinds then sums up an action of a  *)
(* request by what it does to the tables and to what is locked; the        *)
(* invariants are shown kind by kind.                                      *)
(*                                                                         *)
(*   TypeInv    types of tables, packs, locals and what is written         *)
(*   Locked     a row has one writer, tasks are locked with their group    *)
(*   AllWhole   no transaction sees a task without its group               *)
(*   HintInv    hints that were given fit, at every point of an edit       *)
(*   KeyInv     which rows may have the order index of another             *)
(*   OldOnce    the order indexes an edit has read differ                  *)
(***************************************************************************)
EXTENDS BulkEdit, PermutationProofs

(* OrderedPack: a slice keeps its slots and holds items or nothing.        *)
Items(I) == [id : I, idx : Int]
Slices(I) == UNION {[Slots(n) -> Items(I) \cup {None}] : n \in Nat}
Partial(D, V) == UNION {[E -> V] : E \in SUBSET D}
Shiftings(n, X) == [prev : X, at : [Slots(n) -> X]]

LEMMA ShiftType ==
  ASSUME NEW n \in Nat, NEW X, NEW s \in Shiftings(n, X), NEW slot \in Slots(n)
  PROVE  Shift(s, slot) \in Shiftings(n, X)
  BY DEF Shift, Shiftings

Shifted(b, slots) == FoldLeft(Shift, b, slots)
ShiftFolds(m, b, slots, f) ==
  f = [s \in SUBSET (1 .. m) |-> IF s = {} THEN b ELSE Shift(f[LastOf(s)], slots[Max(s)])]

ShiftKeeps(V, slots) ==
  \A s \in V : \A k \in 1 .. Len(slots) : Shift(s, slots[k]) \in V
ShiftRun(b, slots, st) ==
  /\ st[0] = b /\ st[Len(slots)] = Shifted(b, slots)
  /\ \A k \in 1 .. Len(slots) : st[k] = Shift(st[k - 1], slots[k])

LEMMA ShiftSteps ==
  ASSUME NEW V, NEW b \in V, NEW slots, Asks(slots), ShiftKeeps(V, slots)
  PROVE  \E st : ShiftRun(b, slots, st)
  <1> DEFINE m == Len(slots)
             F == [p \in V \X (1 .. m) |-> Shift(p[1], slots[p[2]])]
             Iter == CHOOSE f : ShiftFolds(m, b, slots, f)
             st == [k \in 0 .. m |-> Iter[1 .. k]]
  <1>1. m \in Nat /\ DOMAIN slots = 1 .. m
    BY DEF Asks
  <1>2. /\ F \in [V \X (1 .. m) -> V]
        /\ \A s \in V : \A k \in 1 .. m : F[<<s, k>>] = Shift(s, slots[k])
    BY DEF ShiftKeeps
  <1>3. Shifted(b, slots) = Iter[1 .. m]
    BY <1>1, Zenon DEF Shifted, FoldLeft, MapThenFoldSet, ShiftFolds, LastOf
  <1> HIDE DEF F, m
  <1>4. PICK f : LeftFolds(V, b, F, m, f)
    BY <1>1, <1>2, FoldLeftExists
  <1>5. ASSUME NEW s \in SUBSET (1 .. m), s # {} PROVE f[s] = Shift(f[LastOf(s)], slots[Max(s)])
    <2>1. Max(s) \in 1 .. m /\ LastOf(s) \in SUBSET (1 .. m)
      BY <1>1, <1>5, MaxIsMember DEF LastOf
    <2>2. f[LastOf(s)] \in V /\ f[s] = F[<<f[LastOf(s)], Max(s)>>]
      BY <1>4, <1>5, <2>1 DEF LeftFolds
    <2> QED
      BY <1>2, <2>1, <2>2
  <1>6. f = [s \in SUBSET (1 .. m) |-> f[s]] /\ f[{}] = b
    BY <1>4 DEF LeftFolds
  <1>7. ShiftFolds(m, b, slots, f)
    BY <1>5, <1>6 DEF ShiftFolds
  <1>8. ShiftFolds(m, b, slots, Iter)
    BY <1>7
  <1> HIDE DEF Iter
  <1>9. Iter[{}] = b
    BY <1>8 DEF ShiftFolds
  <1>10. ASSUME NEW k \in 1 .. m PROVE st[k] = Shift(st[k - 1], slots[k])
    <2>1. Iter[1 .. k] = Shift(Iter[LastOf(1 .. k)], slots[Max(1 .. k)])
      BY <1>1, <1>8, PrefixOf DEF ShiftFolds
    <2>2. k \in 0 .. m /\ k - 1 \in 0 .. m /\ st[k] = Iter[1 .. k] /\ st[k - 1] = Iter[1 .. k - 1]
      BY <1>1
    <2> HIDE DEF st
    <2> QED
      BY <1>1, <2>1, <2>2, PrefixOf
  <1>11. st[0] = b /\ st[m] = Iter[1 .. m]
    <2>1. 0 \in 0 .. m /\ m \in 0 .. m /\ 1 .. 0 = {}
      BY <1>1
    <2> QED
      BY <1>9, <2>1
  <1> HIDE DEF st
  <1> QED
    BY <1>3, <1>10, <1>11 DEF m, ShiftRun

LEMMA ShiftsType ==
  ASSUME NEW n \in Nat, NEW X, NEW start \in Shiftings(n, X), NEW slots \in Seq(Slots(n))
  PROVE  Shifted(start, slots).at \in [Slots(n) -> X]
  <1> DEFINE V == Shiftings(n, X)
             m == Len(slots)
  <1>1. Asks(slots) /\ m \in Nat /\ \A k \in 1 .. m : slots[k] \in Slots(n)
    BY DEF Asks
  <1>2. ShiftKeeps(V, slots)
    BY <1>1, ShiftType DEF ShiftKeeps
  <1>3. PICK st : ShiftRun(start, slots, st)
    BY <1>1, <1>2, ShiftSteps
  <1> HIDE DEF V
  <1>4. st[0] \in V /\ \A k \in 1 .. m : st[k - 1] \in V => st[k] \in V
    BY <1>2, <1>3 DEF V, ShiftKeeps, ShiftRun
  <1>5. st[m] \in V
    BY <1>1, <1>4, AllStepsStay
  <1> QED
    BY <1>3, <1>5 DEF V, Shiftings, ShiftRun

LEMMA TailType ==
  ASSUME NEW n \in Nat, NEW chain \in Chains(n)
  PROVE  /\ Head(chain) \in Slots(n) /\ Last(chain) \in Slots(n)
         /\ Tail(chain) \in Seq(Slots(n))
  BY DEF Chains, Last

LEMMA ShiftTreeType ==
  ASSUME NEW n \in Nat, NEW X, None \in X, NEW at \in [Slots(n) -> X], NEW tree \in Chains(n)
  PROVE  ShiftTree(at, tree) \in [Slots(n) -> X]
  <1> DEFINE start == [prev |-> at[Head(tree)], at |-> [at EXCEPT ![Head(tree)] = None]]
  <1>1. start \in Shiftings(n, X) /\ Tail(tree) \in Seq(Slots(n))
    BY TailType DEF Shiftings
  <1>2. ShiftTree(at, tree) = Shifted(start, Tail(tree)).at
    BY DEF ShiftTree, Shifted
  <1> HIDE DEF start
  <1>3. Shifted(start, Tail(tree)).at \in [Slots(n) -> X]
    BY <1>1, ShiftsType, Zenon
  <1> QED
    BY <1>2, <1>3, Zenon

LEMMA ShiftCycleType ==
  ASSUME NEW n \in Nat, NEW X, NEW at \in [Slots(n) -> X], NEW cycle \in Chains(n)
  PROVE  ShiftCycle(at, cycle) \in [Slots(n) -> X]
  <1> DEFINE start == [prev |-> at[Head(cycle)],
                       at |-> [at EXCEPT ![Head(cycle)] = at[Last(cycle)]]]
  <1>1. start \in Shiftings(n, X) /\ Tail(cycle) \in Seq(Slots(n))
    BY TailType DEF Shiftings
  <1>2. ShiftCycle(at, cycle) = Shifted(start, Tail(cycle)).at
    BY DEF ShiftCycle, Shifted
  <1> HIDE DEF start
  <1>3. Shifted(start, Tail(cycle)).at \in [Slots(n) -> X]
    BY <1>1, ShiftsType, Zenon
  <1> QED
    BY <1>2, <1>3, Zenon

TreeFolds(S, at, f) ==
  f = [s \in SUBSET S |-> IF s = {} THEN at ELSE ShiftTree(f[RestOf(s)], AnyOf(s))]
CycleFolds(S, at, f) ==
  f = [s \in SUBSET S |-> IF s = {} THEN at ELSE ShiftCycle(f[RestOf(s)], AnyOf(s))]

LEMMA PartOf ==
  ASSUME NEW S, NEW s \in SUBSET S, s # {}
  PROVE  AnyOf(s) \in S /\ RestOf(s) \in SUBSET S
  BY DEF AnyOf, RestOf

LEMMA TreesType ==
  ASSUME NEW n \in Nat, NEW X, None \in X, NEW at \in [Slots(n) -> X],
         NEW S \in SUBSET Chains(n), IsFiniteSet(S)
  PROVE  FoldSet(LAMBDA t, a : ShiftTree(a, t), at, S) \in [Slots(n) -> X]
  <1> DEFINE V == [Slots(n) -> X]
             F == [p \in S \X V |-> ShiftTree(p[2], p[1])]
             Iter == CHOOSE g : TreeFolds(S, at, g)
  <1>1. F \in [S \X V -> V] /\ \A t \in S : \A a \in V : F[<<t, a>>] = ShiftTree(a, t)
    BY ShiftTreeType
  <1>2. FoldSet(LAMBDA t, a : ShiftTree(a, t), at, S) = Iter[S]
    BY Zenon DEF FoldSet, MapThenFoldSet, TreeFolds, AnyOf, RestOf
  <1>3. \E f : TreeFolds(S, at, f)
    <2> HIDE DEF F
    <2>1. PICK f : SetFolds(V, at, F, SUBSET S, f)
      <3> HIDE DEF V
      <3> QED
        BY <1>1, FoldSetExists DEF V
    <2>2. ASSUME NEW s \in SUBSET S, s # {} PROVE f[s] = ShiftTree(f[RestOf(s)], AnyOf(s))
      <3> HIDE DEF V
      <3>1. AnyOf(s) \in S /\ f[RestOf(s)] \in V
        BY <2>1, <2>2, PartOf DEF SetFolds
      <3>2. f[s] = F[<<AnyOf(s), f[RestOf(s)]>>]
        BY <2>1, <2>2 DEF SetFolds
      <3> QED
        BY <1>1, <3>1, <3>2
    <2>3. f = [s \in SUBSET S |-> f[s]] /\ f[{}] = at
      <3> HIDE DEF V
      <3> QED
        BY <2>1 DEF SetFolds
    <2>4. TreeFolds(S, at, f)
      BY <2>2, <2>3 DEF TreeFolds
    <2> QED
      BY <2>4
  <1>4. TreeFolds(S, at, Iter)
    BY <1>3
  <1> HIDE DEF Iter, F
  <1>5. Iter[{}] \in V
    BY <1>4 DEF TreeFolds
  <1>6. ASSUME NEW s \in SUBSET S, s # {}, Iter[RestOf(s)] \in V PROVE Iter[s] \in V
    <2>1. Iter[s] = ShiftTree(Iter[RestOf(s)], AnyOf(s)) /\ AnyOf(s) \in Chains(n)
      BY <1>4, <1>6, PartOf DEF TreeFolds
    <2>2. Iter[RestOf(s)] \in [Slots(n) -> X]
      BY <1>6
    <2>3. ShiftTree(Iter[RestOf(s)], AnyOf(s)) \in [Slots(n) -> X]
      BY <2>1, <2>2, ShiftTreeType
    <2> QED
      BY <2>1, <2>3
  <1> HIDE DEF V
  <1>7. Iter[S] \in V
    BY <1>5, <1>6, FoldStays
  <1> QED
    BY <1>2, <1>7 DEF V

LEMMA CyclesType ==
  ASSUME NEW n \in Nat, NEW X, NEW at \in [Slots(n) -> X],
         NEW S \in SUBSET Chains(n), IsFiniteSet(S)
  PROVE  FoldSet(LAMBDA c, a : ShiftCycle(a, c), at, S) \in [Slots(n) -> X]
  <1> DEFINE V == [Slots(n) -> X]
             F == [p \in S \X V |-> ShiftCycle(p[2], p[1])]
             Iter == CHOOSE g : CycleFolds(S, at, g)
  <1>1. F \in [S \X V -> V] /\ \A t \in S : \A a \in V : F[<<t, a>>] = ShiftCycle(a, t)
    BY ShiftCycleType
  <1>2. FoldSet(LAMBDA c, a : ShiftCycle(a, c), at, S) = Iter[S]
    BY Zenon DEF FoldSet, MapThenFoldSet, CycleFolds, AnyOf, RestOf
  <1>3. \E f : CycleFolds(S, at, f)
    <2> HIDE DEF F
    <2>1. PICK f : SetFolds(V, at, F, SUBSET S, f)
      <3> HIDE DEF V
      <3> QED
        BY <1>1, FoldSetExists DEF V
    <2>2. ASSUME NEW s \in SUBSET S, s # {} PROVE f[s] = ShiftCycle(f[RestOf(s)], AnyOf(s))
      <3> HIDE DEF V
      <3>1. AnyOf(s) \in S /\ f[RestOf(s)] \in V
        BY <2>1, <2>2, PartOf DEF SetFolds
      <3>2. f[s] = F[<<AnyOf(s), f[RestOf(s)]>>]
        BY <2>1, <2>2 DEF SetFolds
      <3> QED
        BY <1>1, <3>1, <3>2
    <2>3. f = [s \in SUBSET S |-> f[s]] /\ f[{}] = at
      <3> HIDE DEF V
      <3> QED
        BY <2>1 DEF SetFolds
    <2>4. CycleFolds(S, at, f)
      BY <2>2, <2>3 DEF CycleFolds
    <2> QED
      BY <2>4
  <1>4. CycleFolds(S, at, Iter)
    BY <1>3
  <1> HIDE DEF Iter, F
  <1>5. Iter[{}] \in V
    BY <1>4 DEF CycleFolds
  <1>6. ASSUME NEW s \in SUBSET S, s # {}, Iter[RestOf(s)] \in V PROVE Iter[s] \in V
    <2>1. Iter[s] = ShiftCycle(Iter[RestOf(s)], AnyOf(s)) /\ AnyOf(s) \in Chains(n)
      BY <1>4, <1>6, PartOf DEF CycleFolds
    <2>2. Iter[RestOf(s)] \in [Slots(n) -> X]
      BY <1>6
    <2>3. ShiftCycle(Iter[RestOf(s)], AnyOf(s)) \in [Slots(n) -> X]
      BY <2>1, <2>2, ShiftCycleType
    <2> QED
      BY <2>1, <2>3
  <1> HIDE DEF V
  <1>7. Iter[S] \in V
    BY <1>5, <1>6, FoldStays
  <1> QED
    BY <1>2, <1>7 DEF V

-----------------------------------------------------------------------------
(* What the operators of OrderedPack return.                               *)
LEMMA SliceIs ==
  ASSUME NEW I, NEW at \in Slices(I)
  PROVE  \E n \in Nat : /\ at \in [Slots(n) -> Items(I) \cup {None}]
                        /\ DOMAIN at = Slots(n) /\ Cardinality(DOMAIN at) = n
  <1>1. PICK n \in Nat : at \in [Slots(n) -> Items(I) \cup {None}]
    BY DEF Slices
  <1>2. Cardinality(0 .. n - 1) = n
    <2>1. 0 \in Int /\ n - 1 \in Int
      OBVIOUS
    <2>2. Cardinality(0 .. n - 1) = IF 0 > n - 1 THEN 0 ELSE n - 1 - 0 + 1
      BY <2>1, FS_Interval, Zenon
    <2> QED
      BY <2>2
  <1>3. DOMAIN at = Slots(n) /\ Cardinality(DOMAIN at) = n
    BY <1>1, <1>2 DEF Slots
  <1> QED
    BY <1>1, <1>3

LEMMA IsSlice ==
  ASSUME NEW I, NEW n \in Nat, NEW at \in [Slots(n) -> Items(I) \cup {None}]
  PROVE  at \in Slices(I)
  BY DEF Slices

LEMMA IsPartial ==
  ASSUME NEW D, NEW V, NEW E \in SUBSET D, NEW f \in [E -> V]
  PROVE  f \in Partial(D, V)
  BY DEF Partial

LEMMA PartialIs ==
  ASSUME NEW D, NEW V, NEW f \in Partial(D, V)
  PROVE  DOMAIN f \in SUBSET D /\ f \in [DOMAIN f -> V]
  BY DEF Partial

LEMMA IncreasingType ==
  ASSUME NEW n \in Nat, NEW S \in SUBSET (1 .. n)
  PROVE  /\ Increasing(S) = [k \in 1 .. Cardinality(S) |-> Increasing(S)[k]]
         /\ Cardinality(S) \in Nat /\ \A k \in 1 .. Cardinality(S) : Increasing(S)[k] \in S
         /\ \A i, j \in 1 .. Cardinality(S) : Increasing(S)[i] = Increasing(S)[j] => i = j
  <1>1. IsFiniteSet(1 .. n)
    <2>1. 1 \in Int /\ n \in Int
      OBVIOUS
    <2> QED
      BY <2>1, FS_Interval, Zenon
  <1>2. IsFiniteSet(S)
    BY <1>1, FS_Subset
  <1>3. S \subseteq Int
    OBVIOUS
  <1>4. /\ Cardinality(S) \in Nat /\ Increasing(S) \in [1 .. Cardinality(S) -> S]
        /\ \A i, j \in 1 .. Cardinality(S) : Increasing(S)[i] = Increasing(S)[j] => i = j
    BY <1>2, <1>3, IncreasingSorts
  <1> QED
    BY <1>4

(* The updates that move an item, in their order.                          *)
Mover(pack, updates, m, seq) ==
  /\ m \in Nat /\ seq \in [1 .. m -> DOMAIN updates]
  /\ Moving(pack, updates) = [k \in 1 .. m |-> updates[seq[k]]]
  /\ \A k \in 1 .. m : /\ updates[seq[k]].id \in DOMAIN pack.old
                       /\ pack.old[updates[seq[k]].id] # updates[seq[k]].idx
  /\ \A i, j \in 1 .. m : seq[i] = seq[j] => i = j

LEMMA MovingIs ==
  ASSUME NEW pack, NEW updates, Asks(updates)
  PROVE  \E m, seq : Mover(pack, updates, m, seq)
  <1> DEFINE Moves_(u) == u.id \in DOMAIN pack.old /\ pack.old[u.id] # u.idx
             S == {i \in DOMAIN updates : Moves_(updates[i])}
             seq == Increasing(S)
             m == Cardinality(S)
  <1>1. Moving(pack, updates) = [k \in DOMAIN seq |-> updates[seq[k]]]
    BY DEF Moving
  <1>2. S \in SUBSET (1 .. Len(updates)) /\ Len(updates) \in Nat
    BY DEF Asks
  <1>3. /\ m \in Nat /\ seq = [k \in 1 .. m |-> seq[k]] /\ \A k \in 1 .. m : seq[k] \in S
        /\ \A i, j \in 1 .. m : seq[i] = seq[j] => i = j
    <2> HIDE DEF S
    <2> QED
      BY <1>2, IncreasingType
  <1>4. \A i \in S : i \in DOMAIN updates /\ Moves_(updates[i])
    OBVIOUS
  <1> HIDE DEF S, seq, m
  <1>5. seq \in [1 .. m -> DOMAIN updates]
    BY <1>3, <1>4
  <1>6. Moving(pack, updates) = [k \in 1 .. m |-> updates[seq[k]]]
    BY <1>1, <1>3
  <1>7. Mover(pack, updates, m, seq)
    BY <1>3, <1>4, <1>5, <1>6 DEF Mover
  <1> QED
    BY <1>7

LEMMA MovesType ==
  ASSUME NEW pack, NEW I, pack.old \in Partial(I, Int), NEW updates, Asks(updates),
         \A i \in DOMAIN updates : updates[i].idx \in Int
  PROVE  Moves(pack, updates) \in Seq(SlotMoves)
  <1> DEFINE moving == Moving(pack, updates)
             move(k) == [prev |-> pack.old[moving[k].id], next |-> moving[k].idx]
  <1>1. PICK m, seq : Mover(pack, updates, m, seq)
    BY MovingIs
  <1>2. DOMAIN moving = 1 .. m /\ m \in Nat
    BY <1>1 DEF Mover
  <1>3. \A k \in 1 .. m : moving[k].id \in DOMAIN pack.old /\ moving[k].idx \in Int
    BY <1>1 DEF Mover
  <1>4. Moves(pack, updates) = [k \in 1 .. m |-> move(k)]
    BY <1>2 DEF Moves
  <1> HIDE DEF moving
  <1>5. \A k \in 1 .. m : move(k) \in SlotMoves
    <2> SUFFICES ASSUME NEW k \in 1 .. m PROVE move(k) \in SlotMoves
      OBVIOUS
    <2>1. pack.old[moving[k].id] \in Int
      BY <1>3, PartialIs
    <2> QED
      BY <1>3, <2>1 DEF SlotMoves
  <1> HIDE DEF move
  <1>6. [k \in 1 .. m |-> move(k)] \in [1 .. m -> SlotMoves]
    BY <1>5, Zenon
  <1> QED
    BY <1>2, <1>4, <1>6

(* Moves of different items to different slots are one to one.             *)
LEMMA MovesOneWay ==
  ASSUME NEW pack, IsInjective(pack.old), NEW updates, Asks(updates), MovesAreSound(pack, updates),
         \A i, j \in DOMAIN updates : updates[i].id = updates[j].id => i = j
  PROVE  OneWay(Moves(pack, updates))
  <1> DEFINE moving == Moving(pack, updates)
             moves == Moves(pack, updates)
  <1>1. PICK m, seq : Mover(pack, updates, m, seq)
    BY MovingIs
  <1>2. /\ DOMAIN moving = 1 .. m
        /\ \A k \in 1 .. m : /\ moving[k].id \in DOMAIN pack.old
                             /\ pack.old[moving[k].id] # moving[k].idx
        /\ \A i, j \in 1 .. m : moving[i].id = moving[j].id => i = j
    BY <1>1 DEF Mover
  <1>3. \A i, j \in 1 .. m : moving[i].idx = moving[j].idx => i = j
    BY <1>2 DEF MovesAreSound
  <1>4. /\ DOMAIN moves = 1 .. m
        /\ \A k \in 1 .. m : moves[k].prev = pack.old[moving[k].id] /\ moves[k].next = moving[k].idx
    BY <1>2 DEF Moves
  <1> HIDE DEF moving, moves
  <1>5. \A i, j \in 1 .. m : moves[i].prev = moves[j].prev => i = j
    BY <1>2, <1>4 DEF IsInjective
  <1>6. OneWay(moves)
    BY <1>2, <1>3, <1>4, <1>5 DEF OneWay
  <1> QED
    BY <1>6 DEF moves

Refused(p) == {p, Reject(p), Panic(p)}
WithSlice(p, I) == {[p EXCEPT !.at = a] : a \in {b \in Slices(I) : DOMAIN b = DOMAIN p.at}}

LEMMA ReorderType ==
  ASSUME NEW pack, NEW I, pack.at \in Slices(I), pack.old \in Partial(I, Int),
         NEW updates, Asks(updates), \A i \in DOMAIN updates : updates[i].idx \in Int
  PROVE  /\ Reorder(pack, updates) \in Refused(pack) \cup WithSlice(pack, I)
         /\ Reorder(pack, updates).why = "ok" => pack.why = "ok" /\ MovesAreSound(pack, updates)
  <1> DEFINE moves == Moves(pack, updates)
             n == Length(pack)
             X == Items(I) \cup {None}
             split == FindTreesAndCycles(n, moves)
             trees == FoldSet(LAMBDA t, at : ShiftTree(at, t), pack.at, split.trees)
             cycles == FoldSet(LAMBDA c, at : ShiftCycle(at, c), trees, split.cycles)
  <1>1. n \in Nat /\ pack.at \in [Slots(n) -> X] /\ DOMAIN pack.at = Slots(n)
    BY SliceIs DEF Length
  <1>2. moves \in Seq(SlotMoves)
    BY MovesType
  <1>3. ASSUME ~split.panics
        PROVE  cycles \in Slices(I) /\ DOMAIN cycles = DOMAIN pack.at
    <2>1. InSlots(n, moves) /\ split = Split(n, moves)
      BY <1>3 DEF FindTreesAndCycles, NoSplit
    <2>2. /\ split.trees \subseteq Chains(n) /\ IsFiniteSet(split.trees)
          /\ split.cycles \subseteq Chains(n) /\ IsFiniteSet(split.cycles)
      <3> HIDE DEF n, moves, split
      <3> QED
        BY <1>1, <1>2, <1>3, <2>1, SplitType
    <2>3. trees \in [Slots(n) -> X]
      <3> HIDE DEF n, split
      <3>1. None \in X
        OBVIOUS
      <3> HIDE DEF X
      <3> QED
        BY <1>1, <2>2, <3>1, TreesType, Zenon
    <2>4. cycles \in [Slots(n) -> X]
      <3> HIDE DEF n, split, trees, X
      <3> QED
        BY <1>1, <2>2, <2>3, CyclesType, Zenon
    <2> HIDE DEF n, cycles
    <2> QED
      BY <1>1, <2>4 DEF Slices
  <1>4. Reorder(pack, updates) =
          IF pack.why # "ok" THEN pack
          ELSE IF ~MovesAreSound(pack, updates) THEN Reject(pack)
          ELSE IF Moving(pack, updates) = <<>> THEN pack
          ELSE IF split.panics THEN Panic(pack)
          ELSE IF TakenEnd(pack, split.trees) THEN Reject(pack)
          ELSE [pack EXCEPT !.at = cycles]
    BY Zenon DEF Reorder
  <1> HIDE DEF split, cycles
  <1>5. Reorder(pack, updates) \in Refused(pack) \cup WithSlice(pack, I)
    BY <1>3, <1>4 DEF Refused, WithSlice
  <1> QED
    BY <1>4, <1>5 DEF Reject, Panic

LEMMA ClapsType ==
  ASSUME NEW pack, NEW I, pack.at \in Slices(I)
  PROVE  Claps(pack) \in Seq([id : I, idx : Nat])
  <1> DEFINE S == {i \in Taken(pack) : pack.at[i].idx # Place(pack, i)}
             gaps == Increasing(S)
             m == Cardinality(S)
             clap(k) == Item(pack.at[gaps[k]].id, Place(pack, gaps[k]))
  <1>1. PICK n \in Nat : /\ pack.at \in [Slots(n) -> Items(I) \cup {None}]
                         /\ DOMAIN pack.at = Slots(n)
    BY SliceIs
  <1>2. IsFiniteSet(Slots(n)) /\ Slots(n) \subseteq Int
    BY SlotsAreFinite
  <1>3. IsFiniteSet(S) /\ S \subseteq Int /\ S \subseteq Taken(pack)
    <2>1. S \in SUBSET Slots(n)
      BY <1>1 DEF Taken
    <2> HIDE DEF S
    <2>2. IsFiniteSet(S) /\ S \subseteq Int
      BY <1>2, <2>1, FS_Subset
    <2> QED
      BY <2>2 DEF S
  <1>4. ASSUME NEW slot PROVE Place(pack, slot) \in Nat
    <2>1. {i \in Taken(pack) : i < slot} \in SUBSET Slots(n)
      BY <1>1 DEF Taken
    <2> QED
      BY <1>2, <2>1, FS_Subset, FS_CardinalityType DEF Place
  <1>5. m \in Nat /\ gaps \in [1 .. m -> S]
    <2> HIDE DEF S
    <2> QED
      BY <1>3, IncreasingSorts
  <1>6. ASSUME NEW k \in 1 .. m PROVE clap(k) \in [id : I, idx : Nat]
    <2>1. gaps[k] \in Taken(pack)
      <3> HIDE DEF S, gaps, m
      <3> QED
        BY <1>3, <1>5
    <2> HIDE DEF gaps
    <2>2. pack.at[gaps[k]] \in Items(I)
      BY <1>1, <2>1 DEF Taken
    <2>3. pack.at[gaps[k]].id \in I
      BY <2>2 DEF Items
    <2> QED
      BY <1>4, <2>3 DEF Item
  <1>7. Claps(pack) = [k \in 1 .. m |-> clap(k)]
    <2>1. gaps = Gaps(pack)
      BY DEF Gaps
    <2>2. DOMAIN gaps = 1 .. m
      <3> HIDE DEF gaps, m
      <3> QED
        BY <1>5
    <2> HIDE DEF gaps, m
    <2> QED
      BY <2>1, <2>2 DEF Claps
  <1> HIDE DEF clap, m
  <1> QED
    BY <1>5, <1>6, <1>7

LEMMA GrowType ==
  ASSUME NEW pack, NEW I, pack.at \in Slices(I), NEW created \in Nat, NEW deleted \in Nat
  PROVE  \/ Grow(pack, created, deleted) = pack
         \/ \E a \in Slices(I) : Grow(pack, created, deleted) = [pack EXCEPT !.at = a]
  <1> DEFINE n == Length(pack) + created - deleted
             a == [i \in Slots(n) |-> IF i \in DOMAIN pack.at THEN pack.at[i] ELSE None]
  <1>1. PICK size \in Nat : /\ pack.at \in [Slots(size) -> Items(I) \cup {None}]
                            /\ DOMAIN pack.at = Slots(size) /\ Length(pack) = size
    BY SliceIs DEF Length
  <1>2. CASE n <= Length(pack)
    BY <1>2 DEF Grow
  <1>3. CASE ~(n <= Length(pack))
    <2>1. n \in Nat
      BY <1>1, <1>3
    <2>2. Grow(pack, created, deleted) = [pack EXCEPT !.at = a]
      BY <1>3 DEF Grow
    <2>3. a \in [Slots(n) -> Items(I) \cup {None}]
      BY <1>1
    <2> HIDE DEF n, a
    <2> QED
      BY <2>1, <2>2, <2>3, IsSlice
  <1> QED
    BY <1>2, <1>3

LEMMA PackType ==
  ASSUME NEW I, IsFiniteSet(I), NEW rows \in Partial(I, Int)
  PROVE  /\ Pack(rows).at \in Slices(I) /\ Pack(rows).old = rows /\ Pack(rows).why = "ok"
         /\ Pack(rows) = [at |-> Pack(rows).at, old |-> rows, why |-> "ok"]
         /\ InOrder(rows) \in Seq(DOMAIN rows)
  <1> DEFINE sorted == InOrder(rows)
             n == Cardinality(DOMAIN rows)
             at == [i \in Slots(Len(sorted)) |-> Item(sorted[i + 1], rows[sorted[i + 1]])]
  <1>1. IsFiniteSet(DOMAIN rows) /\ DOMAIN rows \in SUBSET I /\ \A x \in DOMAIN rows : rows[x] \in Int
    BY PartialIs, FS_Subset
  <1>2. n \in Nat /\ sorted \in [1 .. n -> DOMAIN rows]
    BY <1>1, InOrderSorts DEF Sorts
  <1>3. Len(sorted) = n /\ sorted \in Seq(DOMAIN rows)
    <2> HIDE DEF sorted, n
    <2> QED
      BY <1>2
  <1>4. Pack(rows) = [at |-> at, old |-> rows, why |-> "ok"]
    BY DEF Pack
  <1>5. at \in [Slots(n) -> Items(I) \cup {None}]
    <2>1. ASSUME NEW i \in Slots(n) PROVE Item(sorted[i + 1], rows[sorted[i + 1]]) \in Items(I)
      <3>1. i + 1 \in 1 .. n
        BY <1>2 DEF Slots
      <3>2. sorted[i + 1] \in DOMAIN rows
        <4> HIDE DEF sorted, n
        <4> QED
          BY <1>2, <3>1
      <3> HIDE DEF sorted
      <3> QED
        BY <1>1, <3>2 DEF Item, Items
    <2> HIDE DEF sorted, n
    <2> QED
      BY <1>3, <2>1
  <1> HIDE DEF at, n, sorted
  <1>6. at \in Slices(I)
    BY <1>2, <1>5, IsSlice
  <1> QED
    BY <1>3, <1>4, <1>6 DEF sorted

LEMMA PutIn ==
  ASSUME NEW pack, NEW I, pack.at \in Slices(I), NEW item \in Items(I), item.idx \in DOMAIN pack.at
  PROVE  item.idx \in Nat /\ Put(pack, item) \in WithSlice(pack, I)
  <1>1. PICK n \in Nat : /\ pack.at \in [Slots(n) -> Items(I) \cup {None}]
                         /\ DOMAIN pack.at = Slots(n)
    BY SliceIs
  <1> DEFINE a == [pack.at EXCEPT ![item.idx] = item]
  <1>2. Put(pack, item) = [pack EXCEPT !.at = a]
    BY DEF Put
  <1>3. a \in [Slots(n) -> Items(I) \cup {None}] /\ DOMAIN a = DOMAIN pack.at
    BY <1>1
  <1>4. item.idx \in Nat
    BY <1>1 DEF Slots
  <1> HIDE DEF a
  <1>5. a \in Slices(I)
    BY <1>3, IsSlice
  <1> QED
    BY <1>2, <1>3, <1>4, <1>5 DEF WithSlice

LEMMA PutType ==
  ASSUME NEW pack, NEW I, pack.at \in Slices(I), NEW item \in Items(I)
  PROVE  \/ Put(pack, item) = Panic(pack)
         \/ item.idx \in Nat /\ Put(pack, item) \in WithSlice(pack, I)
  <1>1. CASE item.idx \notin DOMAIN pack.at
    BY <1>1 DEF Put
  <1>2. CASE item.idx \in DOMAIN pack.at
    BY <1>2, PutIn
  <1> QED
    BY <1>1, <1>2

Unlinked(p, pack, I) ==
  \E a \in Slices(I) : \E o \in Partial(I, Int) : p = [pack EXCEPT !.at = a, !.old = o]

LEMMA UnlinkType ==
  ASSUME NEW pack, NEW I, pack.at \in Slices(I), pack.old \in Partial(I, Int), NEW id
  PROVE  Unlink(pack, id) \in Refused(pack) \/ Unlinked(Unlink(pack, id), pack, I)
  <1>1. PICK n \in Nat : /\ pack.at \in [Slots(n) -> Items(I) \cup {None}]
                         /\ DOMAIN pack.at = Slots(n)
    BY SliceIs
  <1>2. CASE ~(id \in DOMAIN pack.old /\ pack.old[id] \in DOMAIN pack.at)
    BY <1>2 DEF Unlink, Refused
  <1>3. CASE id \in DOMAIN pack.old /\ pack.old[id] \in DOMAIN pack.at
    <2> DEFINE a == [pack.at EXCEPT ![pack.old[id]] = None]
               o == [i \in DOMAIN pack.old \ {id} |-> pack.old[i]]
    <2>1. Unlink(pack, id) = [pack EXCEPT !.at = a, !.old = o]
      BY <1>3 DEF Unlink
    <2>2. a \in [Slots(n) -> Items(I) \cup {None}]
      BY <1>1, <1>3
    <2>3. o \in [DOMAIN pack.old \ {id} -> Int] /\ DOMAIN pack.old \ {id} \in SUBSET I
      BY PartialIs
    <2> HIDE DEF a, o
    <2>4. a \in Slices(I) /\ o \in Partial(I, Int)
      BY <2>2, <2>3, IsSlice, IsPartial
    <2> QED
      BY <2>1, <2>4 DEF Unlinked
  <1> QED
    BY <1>2, <1>3

-----------------------------------------------------------------------------
(* Each fold of the edits, as the steps it takes.                          *)
UnlinkFolds(m, b, ids, f) ==
  f = [s \in SUBSET (1 .. m) |-> IF s = {} THEN b ELSE Unlink(f[LastOf(s)], ids[Max(s)])]

UnlinkKeeps(V, ids) ==
  \A s \in V : \A k \in 1 .. Len(ids) : Unlink(s, ids[k]) \in V
UnlinkRun(b, ids, st) ==
  /\ st[0] = b /\ st[Len(ids)] = UnlinkAll(b, ids)
  /\ \A k \in 1 .. Len(ids) : st[k] = Unlink(st[k - 1], ids[k])

LEMMA UnlinkSteps ==
  ASSUME NEW V, NEW b \in V, NEW ids, Asks(ids), UnlinkKeeps(V, ids)
  PROVE  \E st : UnlinkRun(b, ids, st)
  <1> DEFINE m == Len(ids)
             F == [p \in V \X (1 .. m) |-> Unlink(p[1], ids[p[2]])]
             Iter == CHOOSE f : UnlinkFolds(m, b, ids, f)
             st == [k \in 0 .. m |-> Iter[1 .. k]]
  <1>1. m \in Nat /\ DOMAIN ids = 1 .. m
    BY DEF Asks
  <1>2. /\ F \in [V \X (1 .. m) -> V]
        /\ \A s \in V : \A k \in 1 .. m : F[<<s, k>>] = Unlink(s, ids[k])
    BY DEF UnlinkKeeps
  <1>3. UnlinkAll(b, ids) = Iter[1 .. m]
    BY <1>1, Zenon DEF UnlinkAll, FoldLeft, MapThenFoldSet, UnlinkFolds, LastOf
  <1> HIDE DEF F, m
  <1>4. PICK f : LeftFolds(V, b, F, m, f)
    BY <1>1, <1>2, FoldLeftExists
  <1>5. ASSUME NEW s \in SUBSET (1 .. m), s # {} PROVE f[s] = Unlink(f[LastOf(s)], ids[Max(s)])
    <2>1. Max(s) \in 1 .. m /\ LastOf(s) \in SUBSET (1 .. m)
      BY <1>1, <1>5, MaxIsMember DEF LastOf
    <2>2. f[LastOf(s)] \in V /\ f[s] = F[<<f[LastOf(s)], Max(s)>>]
      BY <1>4, <1>5, <2>1 DEF LeftFolds
    <2> QED
      BY <1>2, <2>1, <2>2
  <1>6. f = [s \in SUBSET (1 .. m) |-> f[s]] /\ f[{}] = b
    BY <1>4 DEF LeftFolds
  <1>7. UnlinkFolds(m, b, ids, f)
    BY <1>5, <1>6 DEF UnlinkFolds
  <1>8. UnlinkFolds(m, b, ids, Iter)
    BY <1>7
  <1> HIDE DEF Iter
  <1>9. Iter[{}] = b
    BY <1>8 DEF UnlinkFolds
  <1>10. ASSUME NEW k \in 1 .. m PROVE st[k] = Unlink(st[k - 1], ids[k])
    <2>1. Iter[1 .. k] = Unlink(Iter[LastOf(1 .. k)], ids[Max(1 .. k)])
      BY <1>1, <1>8, PrefixOf DEF UnlinkFolds
    <2>2. k \in 0 .. m /\ k - 1 \in 0 .. m /\ st[k] = Iter[1 .. k] /\ st[k - 1] = Iter[1 .. k - 1]
      BY <1>1
    <2> HIDE DEF st
    <2> QED
      BY <1>1, <2>1, <2>2, PrefixOf
  <1>11. st[0] = b /\ st[m] = Iter[1 .. m]
    <2>1. 0 \in 0 .. m /\ m \in 0 .. m /\ 1 .. 0 = {}
      BY <1>1
    <2> QED
      BY <1>9, <2>1
  <1> HIDE DEF st
  <1> QED
    BY <1>3, <1>10, <1>11 DEF m, UnlinkRun

Deleted(b, ids) == FoldLeft(DeleteTask, b, ids)
DeleteTaskFolds(m, b, ids, f) ==
  f = [s \in SUBSET (1 .. m) |-> IF s = {} THEN b ELSE DeleteTask(f[LastOf(s)], ids[Max(s)])]

DeleteTaskKeeps(V, ids) ==
  \A s \in V : \A k \in 1 .. Len(ids) : DeleteTask(s, ids[k]) \in V
DeleteTaskRun(b, ids, st) ==
  /\ st[0] = b /\ st[Len(ids)] = Deleted(b, ids)
  /\ \A k \in 1 .. Len(ids) : st[k] = DeleteTask(st[k - 1], ids[k])

LEMMA DeleteTaskSteps ==
  ASSUME NEW V, NEW b \in V, NEW ids, Asks(ids), DeleteTaskKeeps(V, ids)
  PROVE  \E st : DeleteTaskRun(b, ids, st)
  <1> DEFINE m == Len(ids)
             F == [p \in V \X (1 .. m) |-> DeleteTask(p[1], ids[p[2]])]
             Iter == CHOOSE f : DeleteTaskFolds(m, b, ids, f)
             st == [k \in 0 .. m |-> Iter[1 .. k]]
  <1>1. m \in Nat /\ DOMAIN ids = 1 .. m
    BY DEF Asks
  <1>2. /\ F \in [V \X (1 .. m) -> V]
        /\ \A s \in V : \A k \in 1 .. m : F[<<s, k>>] = DeleteTask(s, ids[k])
    BY DEF DeleteTaskKeeps
  <1>3. Deleted(b, ids) = Iter[1 .. m]
    BY <1>1, Zenon DEF Deleted, FoldLeft, MapThenFoldSet, DeleteTaskFolds, LastOf
  <1> HIDE DEF F, m
  <1>4. PICK f : LeftFolds(V, b, F, m, f)
    BY <1>1, <1>2, FoldLeftExists
  <1>5. ASSUME NEW s \in SUBSET (1 .. m), s # {} PROVE f[s] = DeleteTask(f[LastOf(s)], ids[Max(s)])
    <2>1. Max(s) \in 1 .. m /\ LastOf(s) \in SUBSET (1 .. m)
      BY <1>1, <1>5, MaxIsMember DEF LastOf
    <2>2. f[LastOf(s)] \in V /\ f[s] = F[<<f[LastOf(s)], Max(s)>>]
      BY <1>4, <1>5, <2>1 DEF LeftFolds
    <2> QED
      BY <1>2, <2>1, <2>2
  <1>6. f = [s \in SUBSET (1 .. m) |-> f[s]] /\ f[{}] = b
    BY <1>4 DEF LeftFolds
  <1>7. DeleteTaskFolds(m, b, ids, f)
    BY <1>5, <1>6 DEF DeleteTaskFolds
  <1>8. DeleteTaskFolds(m, b, ids, Iter)
    BY <1>7
  <1> HIDE DEF Iter
  <1>9. Iter[{}] = b
    BY <1>8 DEF DeleteTaskFolds
  <1>10. ASSUME NEW k \in 1 .. m PROVE st[k] = DeleteTask(st[k - 1], ids[k])
    <2>1. Iter[1 .. k] = DeleteTask(Iter[LastOf(1 .. k)], ids[Max(1 .. k)])
      BY <1>1, <1>8, PrefixOf DEF DeleteTaskFolds
    <2>2. k \in 0 .. m /\ k - 1 \in 0 .. m /\ st[k] = Iter[1 .. k] /\ st[k - 1] = Iter[1 .. k - 1]
      BY <1>1
    <2> HIDE DEF st
    <2> QED
      BY <1>1, <2>1, <2>2, PrefixOf
  <1>11. st[0] = b /\ st[m] = Iter[1 .. m]
    <2>1. 0 \in 0 .. m /\ m \in 0 .. m /\ 1 .. 0 = {}
      BY <1>1
    <2> QED
      BY <1>9, <2>1
  <1> HIDE DEF st
  <1> QED
    BY <1>3, <1>10, <1>11 DEF m, DeleteTaskRun

Updated(b, updates) == FoldLeft(UpdateTask, b, updates)
UpdateTaskFolds(m, b, updates, f) ==
  f = [s \in SUBSET (1 .. m) |-> IF s = {} THEN b ELSE UpdateTask(f[LastOf(s)], updates[Max(s)])]

UpdateTaskKeeps(V, updates) ==
  \A s \in V : \A k \in 1 .. Len(updates) : UpdateTask(s, updates[k]) \in V
UpdateTaskRun(b, updates, st) ==
  /\ st[0] = b /\ st[Len(updates)] = Updated(b, updates)
  /\ \A k \in 1 .. Len(updates) : st[k] = UpdateTask(st[k - 1], updates[k])

LEMMA UpdateTaskSteps ==
  ASSUME NEW V, NEW b \in V, NEW updates, Asks(updates), UpdateTaskKeeps(V, updates)
  PROVE  \E st : UpdateTaskRun(b, updates, st)
  <1> DEFINE m == Len(updates)
             F == [p \in V \X (1 .. m) |-> UpdateTask(p[1], updates[p[2]])]
             Iter == CHOOSE f : UpdateTaskFolds(m, b, updates, f)
             st == [k \in 0 .. m |-> Iter[1 .. k]]
  <1>1. m \in Nat /\ DOMAIN updates = 1 .. m
    BY DEF Asks
  <1>2. /\ F \in [V \X (1 .. m) -> V]
        /\ \A s \in V : \A k \in 1 .. m : F[<<s, k>>] = UpdateTask(s, updates[k])
    BY DEF UpdateTaskKeeps
  <1>3. Updated(b, updates) = Iter[1 .. m]
    BY <1>1, Zenon DEF Updated, FoldLeft, MapThenFoldSet, UpdateTaskFolds, LastOf
  <1> HIDE DEF F, m
  <1>4. PICK f : LeftFolds(V, b, F, m, f)
    BY <1>1, <1>2, FoldLeftExists
  <1>5. ASSUME NEW s \in SUBSET (1 .. m), s # {} PROVE f[s] = UpdateTask(f[LastOf(s)], updates[Max(s)])
    <2>1. Max(s) \in 1 .. m /\ LastOf(s) \in SUBSET (1 .. m)
      BY <1>1, <1>5, MaxIsMember DEF LastOf
    <2>2. f[LastOf(s)] \in V /\ f[s] = F[<<f[LastOf(s)], Max(s)>>]
      BY <1>4, <1>5, <2>1 DEF LeftFolds
    <2> QED
      BY <1>2, <2>1, <2>2
  <1>6. f = [s \in SUBSET (1 .. m) |-> f[s]] /\ f[{}] = b
    BY <1>4 DEF LeftFolds
  <1>7. UpdateTaskFolds(m, b, updates, f)
    BY <1>5, <1>6 DEF UpdateTaskFolds
  <1>8. UpdateTaskFolds(m, b, updates, Iter)
    BY <1>7
  <1> HIDE DEF Iter
  <1>9. Iter[{}] = b
    BY <1>8 DEF UpdateTaskFolds
  <1>10. ASSUME NEW k \in 1 .. m PROVE st[k] = UpdateTask(st[k - 1], updates[k])
    <2>1. Iter[1 .. k] = UpdateTask(Iter[LastOf(1 .. k)], updates[Max(1 .. k)])
      BY <1>1, <1>8, PrefixOf DEF UpdateTaskFolds
    <2>2. k \in 0 .. m /\ k - 1 \in 0 .. m /\ st[k] = Iter[1 .. k] /\ st[k - 1] = Iter[1 .. k - 1]
      BY <1>1
    <2> HIDE DEF st
    <2> QED
      BY <1>1, <2>1, <2>2, PrefixOf
  <1>11. st[0] = b /\ st[m] = Iter[1 .. m]
    <2>1. 0 \in 0 .. m /\ m \in 0 .. m /\ 1 .. 0 = {}
      BY <1>1
    <2> QED
      BY <1>9, <2>1
  <1> HIDE DEF st
  <1> QED
    BY <1>3, <1>10, <1>11 DEF m, UpdateTaskRun

Clapped(b, items) == FoldLeft(ClapTask, b, items)
ClapTaskFolds(m, b, items, f) ==
  f = [s \in SUBSET (1 .. m) |-> IF s = {} THEN b ELSE ClapTask(f[LastOf(s)], items[Max(s)])]

ClapTaskKeeps(V, items) ==
  \A s \in V : \A k \in 1 .. Len(items) : ClapTask(s, items[k]) \in V
ClapTaskRun(b, items, st) ==
  /\ st[0] = b /\ st[Len(items)] = Clapped(b, items)
  /\ \A k \in 1 .. Len(items) : st[k] = ClapTask(st[k - 1], items[k])

LEMMA ClapTaskSteps ==
  ASSUME NEW V, NEW b \in V, NEW items, Asks(items), ClapTaskKeeps(V, items)
  PROVE  \E st : ClapTaskRun(b, items, st)
  <1> DEFINE m == Len(items)
             F == [p \in V \X (1 .. m) |-> ClapTask(p[1], items[p[2]])]
             Iter == CHOOSE f : ClapTaskFolds(m, b, items, f)
             st == [k \in 0 .. m |-> Iter[1 .. k]]
  <1>1. m \in Nat /\ DOMAIN items = 1 .. m
    BY DEF Asks
  <1>2. /\ F \in [V \X (1 .. m) -> V]
        /\ \A s \in V : \A k \in 1 .. m : F[<<s, k>>] = ClapTask(s, items[k])
    BY DEF ClapTaskKeeps
  <1>3. Clapped(b, items) = Iter[1 .. m]
    BY <1>1, Zenon DEF Clapped, FoldLeft, MapThenFoldSet, ClapTaskFolds, LastOf
  <1> HIDE DEF F, m
  <1>4. PICK f : LeftFolds(V, b, F, m, f)
    BY <1>1, <1>2, FoldLeftExists
  <1>5. ASSUME NEW s \in SUBSET (1 .. m), s # {} PROVE f[s] = ClapTask(f[LastOf(s)], items[Max(s)])
    <2>1. Max(s) \in 1 .. m /\ LastOf(s) \in SUBSET (1 .. m)
      BY <1>1, <1>5, MaxIsMember DEF LastOf
    <2>2. f[LastOf(s)] \in V /\ f[s] = F[<<f[LastOf(s)], Max(s)>>]
      BY <1>4, <1>5, <2>1 DEF LeftFolds
    <2> QED
      BY <1>2, <2>1, <2>2
  <1>6. f = [s \in SUBSET (1 .. m) |-> f[s]] /\ f[{}] = b
    BY <1>4 DEF LeftFolds
  <1>7. ClapTaskFolds(m, b, items, f)
    BY <1>5, <1>6 DEF ClapTaskFolds
  <1>8. ClapTaskFolds(m, b, items, Iter)
    BY <1>7
  <1> HIDE DEF Iter
  <1>9. Iter[{}] = b
    BY <1>8 DEF ClapTaskFolds
  <1>10. ASSUME NEW k \in 1 .. m PROVE st[k] = ClapTask(st[k - 1], items[k])
    <2>1. Iter[1 .. k] = ClapTask(Iter[LastOf(1 .. k)], items[Max(1 .. k)])
      BY <1>1, <1>8, PrefixOf DEF ClapTaskFolds
    <2>2. k \in 0 .. m /\ k - 1 \in 0 .. m /\ st[k] = Iter[1 .. k] /\ st[k - 1] = Iter[1 .. k - 1]
      BY <1>1
    <2> HIDE DEF st
    <2> QED
      BY <1>1, <2>1, <2>2, PrefixOf
  <1>11. st[0] = b /\ st[m] = Iter[1 .. m]
    <2>1. 0 \in 0 .. m /\ m \in 0 .. m /\ 1 .. 0 = {}
      BY <1>1
    <2> QED
      BY <1>9, <2>1
  <1> HIDE DEF st
  <1> QED
    BY <1>3, <1>10, <1>11 DEF m, ClapTaskRun

Created(creates, ids, g, b, steps) == FoldLeft(LAMBDA p, i : CreateTask(p, creates[i], ids[i], g), b, steps)
CreateTaskFolds(m, b, steps, creates, ids, g, f) ==
  f = [s \in SUBSET (1 .. m) |-> IF s = {} THEN b ELSE CreateTask(f[LastOf(s)], creates[steps[Max(s)]], ids[steps[Max(s)]], g)]

CreateTaskKeeps(V, creates, ids, g, steps) ==
  \A s \in V : \A k \in 1 .. Len(steps) : CreateTask(s, creates[steps[k]], ids[steps[k]], g) \in V
CreateTaskRun(b, creates, ids, g, steps, st) ==
  /\ st[0] = b /\ st[Len(steps)] = Created(creates, ids, g, b, steps)
  /\ \A k \in 1 .. Len(steps) : st[k] = CreateTask(st[k - 1], creates[steps[k]], ids[steps[k]], g)

LEMMA CreateTaskSteps ==
  ASSUME NEW V, NEW b \in V, NEW steps, NEW creates, NEW ids, NEW g, Asks(steps), CreateTaskKeeps(V, creates, ids, g, steps)
  PROVE  \E st : CreateTaskRun(b, creates, ids, g, steps, st)
  <1> DEFINE m == Len(steps)
             F == [p \in V \X (1 .. m) |-> CreateTask(p[1], creates[steps[p[2]]], ids[steps[p[2]]], g)]
             Iter == CHOOSE f : CreateTaskFolds(m, b, steps, creates, ids, g, f)
             st == [k \in 0 .. m |-> Iter[1 .. k]]
  <1>1. m \in Nat /\ DOMAIN steps = 1 .. m
    BY DEF Asks
  <1>2. /\ F \in [V \X (1 .. m) -> V]
        /\ \A s \in V : \A k \in 1 .. m : F[<<s, k>>] = CreateTask(s, creates[steps[k]], ids[steps[k]], g)
    BY DEF CreateTaskKeeps
  <1>3. Created(creates, ids, g, b, steps) = Iter[1 .. m]
    BY <1>1, Zenon DEF Created, FoldLeft, MapThenFoldSet, CreateTaskFolds, LastOf
  <1> HIDE DEF F, m
  <1>4. PICK f : LeftFolds(V, b, F, m, f)
    BY <1>1, <1>2, FoldLeftExists
  <1>5. ASSUME NEW s \in SUBSET (1 .. m), s # {} PROVE f[s] = CreateTask(f[LastOf(s)], creates[steps[Max(s)]], ids[steps[Max(s)]], g)
    <2>1. Max(s) \in 1 .. m /\ LastOf(s) \in SUBSET (1 .. m)
      BY <1>1, <1>5, MaxIsMember DEF LastOf
    <2>2. f[LastOf(s)] \in V /\ f[s] = F[<<f[LastOf(s)], Max(s)>>]
      BY <1>4, <1>5, <2>1 DEF LeftFolds
    <2> QED
      BY <1>2, <2>1, <2>2
  <1>6. f = [s \in SUBSET (1 .. m) |-> f[s]] /\ f[{}] = b
    BY <1>4 DEF LeftFolds
  <1>7. CreateTaskFolds(m, b, steps, creates, ids, g, f)
    BY <1>5, <1>6 DEF CreateTaskFolds
  <1>8. CreateTaskFolds(m, b, steps, creates, ids, g, Iter)
    BY <1>7
  <1> HIDE DEF Iter
  <1>9. Iter[{}] = b
    BY <1>8 DEF CreateTaskFolds
  <1>10. ASSUME NEW k \in 1 .. m PROVE st[k] = CreateTask(st[k - 1], creates[steps[k]], ids[steps[k]], g)
    <2>1. Iter[1 .. k] = CreateTask(Iter[LastOf(1 .. k)], creates[steps[Max(1 .. k)]], ids[steps[Max(1 .. k)]], g)
      BY <1>1, <1>8, PrefixOf DEF CreateTaskFolds
    <2>2. k \in 0 .. m /\ k - 1 \in 0 .. m /\ st[k] = Iter[1 .. k] /\ st[k - 1] = Iter[1 .. k - 1]
      BY <1>1
    <2> HIDE DEF st
    <2> QED
      BY <1>1, <2>1, <2>2, PrefixOf
  <1>11. st[0] = b /\ st[m] = Iter[1 .. m]
    <2>1. 0 \in 0 .. m /\ m \in 0 .. m /\ 1 .. 0 = {}
      BY <1>1
    <2> QED
      BY <1>9, <2>1
  <1> HIDE DEF st
  <1> QED
    BY <1>3, <1>10, <1>11 DEF m, CreateTaskRun

-----------------------------------------------------------------------------
(* The bulk edit of the tasks of group g.                                  *)
Whys == {"ok", "rejected", "panic"}
TaskRow(g) ==
  [group : {g}, idx : Int, reward : Int, hints : {h \in Hints : Len(h) <= MaxHints}]
EditPacks(g) ==
  [at : Slices(Tasks), old : Partial(Tasks, Int), why : Whys, rows : Partial(Tasks, TaskRow(g))]
Counted(s) == s.why # "panic" => \A t \in DOMAIN s.rows : s.rows[t].idx \in Nat
Fits(row) == TotalPenalty(row.hints, row.reward) <= row.reward

(* Every task fits its hints or has the hints it had.                      *)
Hinted(old, rows) ==
  \A t \in DOMAIN rows : Fits(rows[t]) \/ (t \in DOMAIN old /\ rows[t].hints = old[t].hints)

Alike(p, s) == p.rows = s.rows /\ DOMAIN p.old \subseteq DOMAIN s.old /\ (s.why = "panic" => p.why = "panic")

LEMMA RefusedIsAlike ==
  ASSUME NEW g, NEW s \in EditPacks(g), NEW p \in Refused(s)
  PROVE  p \in EditPacks(g) /\ Alike(p, s) /\ (p.why = "ok" => p = s)
  BY DEF EditPacks, Refused, Reject, Panic, Alike, Whys

LEMMA WithSliceIsAlike ==
  ASSUME NEW g, NEW s \in EditPacks(g), NEW a \in Slices(Tasks)
  PROVE  LET p == [s EXCEPT !.at = a] IN p \in EditPacks(g) /\ Alike(p, s) /\ p.why = s.why
  BY DEF EditPacks, Alike

LEMMA UnlinkIsAlike ==
  ASSUME NEW g, NEW s \in EditPacks(g), NEW id
  PROVE  /\ Unlink(s, id) \in EditPacks(g) /\ Alike(Unlink(s, id), s)
         /\ Unlink(s, id).why = "ok" => id \notin DOMAIN Unlink(s, id).old
  <1>1. s.at \in Slices(Tasks) /\ s.old \in Partial(Tasks, Int)
    BY DEF EditPacks
  <1>2. CASE ~(id \in DOMAIN s.old /\ s.old[id] \in DOMAIN s.at)
    <2>1. Unlink(s, id) \in Refused(s) /\ Unlink(s, id).why # "ok"
      BY <1>2 DEF Unlink, Refused, Reject, Panic, EditPacks
    <2> QED
      BY <2>1, RefusedIsAlike
  <1>3. CASE id \in DOMAIN s.old /\ s.old[id] \in DOMAIN s.at
    <2> DEFINE a == [s.at EXCEPT ![s.old[id]] = None]
               o == [i \in DOMAIN s.old \ {id} |-> s.old[i]]
    <2>1. Unlink(s, id) = [s EXCEPT !.at = a, !.old = o]
      BY <1>3 DEF Unlink
    <2>2. a \in Slices(Tasks)
      <3>1. PICK n \in Nat : s.at \in [Slots(n) -> Items(Tasks) \cup {None}]
        BY <1>1, SliceIs
      <3>2. a \in [Slots(n) -> Items(Tasks) \cup {None}]
        BY <3>1, <1>3
      <3> HIDE DEF a
      <3> QED
        BY <3>2, IsSlice
    <2>3. o \in Partial(Tasks, Int) /\ DOMAIN o = DOMAIN s.old \ {id}
      <3>1. o \in [DOMAIN s.old \ {id} -> Int] /\ DOMAIN s.old \ {id} \in SUBSET Tasks
        BY <1>1, PartialIs
      <3> HIDE DEF o
      <3> QED
        BY <3>1, IsPartial
    <2> HIDE DEF a, o
    <2> QED
      BY <2>1, <2>2, <2>3 DEF EditPacks, Alike
  <1> QED
    BY <1>2, <1>3

(* What is left of the rows while tasks are deleted and reordered.         *)
Remains(g, rows) ==
  {s \in EditPacks(g) : /\ DOMAIN s.old \subseteq DOMAIN s.rows /\ DOMAIN s.rows \subseteq DOMAIN rows
                        /\ \A t \in DOMAIN s.rows : s.rows[t] = rows[t]}

LEMMA AlikeRemains ==
  ASSUME NEW g, NEW rows, NEW s \in Remains(g, rows), NEW p \in EditPacks(g), Alike(p, s)
  PROVE  p \in Remains(g, rows)
  BY DEF Remains, Alike

LEMMA DeleteTaskType ==
  ASSUME NEW g, NEW rows, NEW s \in Remains(g, rows), NEW id
  PROVE  DeleteTask(s, id) \in Remains(g, rows)
  <1> DEFINE p == Unlink(s, id)
             q == [t \in DOMAIN p.rows \ {id} |-> p.rows[t]]
  <1>1. s \in EditPacks(g)
    BY DEF Remains
  <1>2. p \in EditPacks(g) /\ Alike(p, s) /\ (p.why = "ok" => id \notin DOMAIN p.old)
    BY <1>1, UnlinkIsAlike
  <1>3. p \in Remains(g, rows)
    BY <1>2, AlikeRemains
  <1>4. DeleteTask(s, id) = IF p.why = "ok" THEN [p EXCEPT !.rows = q] ELSE p
    BY DEF DeleteTask
  <1> HIDE DEF p
  <1>5. q \in Partial(Tasks, TaskRow(g)) /\ DOMAIN q = DOMAIN p.rows \ {id}
    <2>1. p.rows \in Partial(Tasks, TaskRow(g))
      BY <1>2 DEF EditPacks
    <2>2. q \in [DOMAIN p.rows \ {id} -> TaskRow(g)] /\ DOMAIN p.rows \ {id} \in SUBSET Tasks
      BY <2>1, PartialIs
    <2> HIDE DEF q
    <2> QED
      BY <2>2, IsPartial
  <1>6. \A t \in DOMAIN q : q[t] = p.rows[t]
    OBVIOUS
  <1> HIDE DEF q
  <1>7. CASE p.why = "ok"
    <2>1. [p EXCEPT !.rows = q] \in EditPacks(g)
      BY <1>2, <1>5 DEF EditPacks
    <2>2. [p EXCEPT !.rows = q].rows = q /\ [p EXCEPT !.rows = q].old = p.old
      BY <1>2 DEF EditPacks
    <2> QED
      BY <1>2, <1>3, <1>4, <1>5, <1>6, <1>7, <2>1, <2>2 DEF Remains
  <1> QED
    BY <1>3, <1>4, <1>7

LEMMA DeleteTasksType ==
  ASSUME NEW g, NEW rows, NEW s \in Remains(g, rows), NEW ids, Asks(ids)
  PROVE  DeleteTasks(s, ids) \in Remains(g, rows)
  <1>1. DeleteTaskKeeps(Remains(g, rows), ids)
    BY DeleteTaskType DEF DeleteTaskKeeps
  <1>2. PICK st : DeleteTaskRun(s, ids, st)
    BY <1>1, DeleteTaskSteps
  <1> DEFINE V == Remains(g, rows)
             m == Len(ids)
  <1>3. st[0] \in V /\ \A k \in 1 .. m : st[k - 1] \in V => st[k] \in V
    BY <1>1, <1>2 DEF DeleteTaskKeeps, DeleteTaskRun
  <1> HIDE DEF V
  <1>4. st[m] \in V
    BY <1>3, AllStepsStay DEF Asks
  <1>5. DeleteTasks(s, ids) = IF s.why # "ok" THEN s ELSE st[m]
    BY <1>2 DEF DeleteTasks, DeleteTaskRun, Deleted
  <1> QED
    BY <1>4, <1>5 DEF V

LEMMA SeqIs ==
  ASSUME NEW P, NEW seq \in Seq(P)
  PROVE  /\ Len(seq) \in Nat /\ Asks(seq)
         /\ \A k \in 1 .. Len(seq) : seq[k] \in P
  BY DEF Asks

LEMMA Repeated ==
  ASSUME NEW P, NEW x \in P, NEW n \in Nat
  PROVE  [i \in 1 .. n |-> x] \in Seq(P)
  OBVIOUS

LEMMA GivenType ==
  ASSUME NEW u \in TaskUpdate
  PROVE  GivenHints(u) \in Hints \cup {None}
  <1>1. u.hints \in Hints \cup {None} /\ u.texts \in Nat
    BY DEF TaskUpdate
  <1>2. CASE u.hints # None
    BY <1>1, <1>2 DEF GivenHints
  <1>3. CASE u.hints = None
    <2>1. DefaultPenalty \in [kind : {"percent", "score"}, value : Int]
      BY DEF DefaultPenalty
    <2> HIDE DEF DefaultPenalty
    <2>2. [i \in 1 .. u.texts |-> DefaultPenalty] \in Hints
      BY <1>1, <2>1, Repeated, Zenon DEF Hints
    <2> QED
      BY <1>3, <2>2 DEF GivenHints
  <1> QED
    BY <1>2, <1>3

LEMMA CreatedType ==
  ASSUME NEW c \in TaskCreate
  PROVE  CreatedHints(c) \in Hints
  <1>1. c.hints \in Hints \cup {None} /\ c.texts \in Nat
    BY DEF TaskCreate
  <1>2. DefaultPenalty \in [kind : {"percent", "score"}, value : Int]
    BY DEF DefaultPenalty
  <1> HIDE DEF DefaultPenalty
  <1>3. [i \in 1 .. c.texts |-> DefaultPenalty] \in Hints
    BY <1>1, <1>2, Repeated, Zenon DEF Hints
  <1> HIDE DEF Hints
  <1> QED
    BY <1>1, <1>3 DEF CreatedHints

IsStored(p, g, s, id, row) ==
  /\ p \in EditPacks(g) /\ Counted(p) /\ DOMAIN p.rows = DOMAIN s.rows \cup {id}
  /\ p.rows[id] = row /\ \A t \in DOMAIN s.rows \ {id} : p.rows[t] = s.rows[t]
IsUpdated(p, g, s, id) ==
  /\ p \in EditPacks(g) /\ Counted(p) /\ DOMAIN p.rows = DOMAIN s.rows
  /\ Fits(p.rows[id]) \/ p.rows[id].hints = s.rows[id].hints
  /\ \A t \in DOMAIN s.rows \ {id} : p.rows[t] = s.rows[t]

(* Storing a row changes that row alone, and panics or has seen that its   *)
(* index is a position of the slice.                                       *)
LEMMA StoreType ==
  ASSUME NEW g, NEW s \in EditPacks(g), Counted(s), NEW id \in Tasks, NEW row \in TaskRow(g)
  PROVE  IsStored(Store(s, id, row), g, s, id, row)
  <1> DEFINE rows == [t \in DOMAIN s.rows \cup {id} |-> IF t = id THEN row ELSE s.rows[t]]
             q == [s EXCEPT !.rows = rows]
             item == Item(id, row.idx)
             p == Put(q, item)
  <1>1. s.rows \in Partial(Tasks, TaskRow(g)) /\ s.at \in Slices(Tasks)
    BY DEF EditPacks
  <1>2. rows \in Partial(Tasks, TaskRow(g)) /\ DOMAIN rows = DOMAIN s.rows \cup {id}
    <2>1. DOMAIN s.rows \in SUBSET Tasks /\ s.rows \in [DOMAIN s.rows -> TaskRow(g)]
      BY <1>1, PartialIs
    <2>2. rows \in [DOMAIN s.rows \cup {id} -> TaskRow(g)] /\ DOMAIN s.rows \cup {id} \in SUBSET Tasks
      BY <2>1
    <2> HIDE DEF rows
    <2> QED
      BY <2>2, IsPartial
  <1>3. /\ rows[id] = row /\ \A t \in DOMAIN s.rows \ {id} : rows[t] = s.rows[t]
    OBVIOUS
  <1> HIDE DEF rows
  <1>4. q \in EditPacks(g) /\ q.rows = rows /\ q.at = s.at /\ q.why = s.why
    BY <1>2 DEF EditPacks
  <1>5. item \in Items(Tasks) /\ item.idx = row.idx
    BY DEF Item, Items, TaskRow
  <1>6. Store(s, id, row) = p
    BY DEF Store, rows
  <1> HIDE DEF q, item
  <1>7. p = Panic(q) \/ (item.idx \in Nat /\ p \in WithSlice(q, Tasks))
    BY <1>1, <1>4, <1>5, PutType
  <1> HIDE DEF p
  <1>8. CASE p = Panic(q)
    <2>1. p \in EditPacks(g) /\ p.rows = rows /\ p.why = "panic"
      BY <1>4, <1>8 DEF Panic, EditPacks, Whys
    <2> QED
      BY <1>2, <1>3, <1>6, <2>1 DEF Counted, IsStored
  <1>9. CASE item.idx \in Nat /\ p \in WithSlice(q, Tasks)
    <2>1. p \in EditPacks(g) /\ p.rows = rows /\ p.why = s.why
      BY <1>4, <1>9 DEF WithSlice, EditPacks
    <2>2. Counted(p)
      <3> SUFFICES ASSUME p.why # "panic", NEW t \in DOMAIN rows PROVE rows[t].idx \in Nat
        BY <2>1 DEF Counted
      <3>1. CASE t = id
        BY <3>1, <1>3, <1>5, <1>9
      <3>2. CASE t # id
        <4>1. t \in DOMAIN s.rows \ {id}
          BY <1>2, <3>2
        <4>2. rows[t] = s.rows[t]
          BY <1>3, <4>1
        <4> QED
          BY <2>1, <4>1, <4>2 DEF Counted
      <3> QED
        BY <3>1, <3>2
    <2> QED
      BY <1>2, <1>3, <1>6, <2>1, <2>2 DEF IsStored
  <1> QED
    BY <1>7, <1>8, <1>9

(* An update takes another row, whose hints fit or are those the task had. *)
LEMMA UpdateTaskType ==
  ASSUME NEW g, NEW s \in EditPacks(g), Counted(s), NEW u \in TaskUpdate, u.id \in DOMAIN s.rows
  PROVE  IsUpdated(UpdateTask(s, u), g, s, u.id)
  <1> DEFINE given == GivenHints(u)
             old == s.rows[u.id]
             reward == IF u.reward = 0 THEN old.reward ELSE u.reward
             hints == IF given = None THEN old.hints ELSE given
             row == [old EXCEPT !.idx = u.idx, !.reward = reward, !.hints = hints]
             bad == given # None /\ (Len(given) > MaxHints \/ ~ValidPenalties(row.reward, given))
             p == UpdateTask(s, u)
  <1>1. given \in Hints \cup {None}
    BY GivenType
  <1> HIDE DEF given
  <1>2. old \in TaskRow(g) /\ u.id \in Tasks
    <2>1. s.rows \in Partial(Tasks, TaskRow(g))
      BY DEF EditPacks
    <2> QED
      BY <2>1, PartialIs
  <1>3. u.idx \in Int /\ u.reward \in Int
    BY DEF TaskUpdate
  <1>4. p = IF s.why = "panic" THEN s ELSE IF bad THEN Reject(s) ELSE Store(s, u.id, row)
    BY DEF UpdateTask, given
  <1> HIDE DEF p, old
  <1>5. CASE s.why = "panic"
    BY <1>4, <1>5 DEF p, IsUpdated
  <1>6. CASE s.why # "panic" /\ bad
    <2>1. p = Reject(s)
      BY <1>4, <1>6
    <2>2. p \in EditPacks(g) /\ p.rows = s.rows
      BY <2>1, RefusedIsAlike DEF Refused, Alike
    <2>3. Counted(p)
      BY <1>6, <2>2 DEF Counted
    <2> QED
      BY <2>2, <2>3 DEF p, IsUpdated
  <1>7. CASE s.why # "panic" /\ ~bad
    <2>1. hints \in {h \in Hints : Len(h) <= MaxHints}
      <3>1. CASE given = None
        BY <3>1, <1>2 DEF TaskRow
      <3>2. CASE given # None
        <4>1. given \in Hints /\ ~(Len(given) > MaxHints)
          BY <3>2, <1>1, <1>7
        <4>2. Len(given) \in Nat /\ MaxHints \in Nat
          BY <4>1, BulkEditAssumption DEF Hints
        <4> QED
          BY <3>2, <4>1, <4>2
      <3> QED
        BY <3>1, <3>2
    <2>2. reward \in Int
      BY <1>2, <1>3 DEF TaskRow
    <2>3. Fits(row) \/ row.hints = old.hints
      <3>1. row.hints = hints
        BY <1>2 DEF TaskRow
      <3>2. CASE given = None
        BY <3>1, <3>2
      <3>3. CASE given # None
        <4>1. hints = given /\ ValidPenalties(row.reward, given)
          BY <1>7, <3>3
        <4> HIDE DEF row
        <4> QED
          BY <3>1, <4>1 DEF ValidPenalties, Fits
      <3> QED
        BY <3>2, <3>3
    <2>4. row \in TaskRow(g)
      <3> HIDE DEF hints, reward
      <3> QED
        BY <1>2, <1>3, <2>1, <2>2 DEF TaskRow
    <2>5. p = Store(s, u.id, row)
      BY <1>4, <1>7
    <2> HIDE DEF row
    <2>6. /\ p \in EditPacks(g) /\ Counted(p) /\ DOMAIN p.rows = DOMAIN s.rows \cup {u.id}
          /\ p.rows[u.id] = row /\ \A t \in DOMAIN s.rows \ {u.id} : p.rows[t] = s.rows[t]
      <3>1. IsStored(p, g, s, u.id, row)
        BY <1>2, <2>4, <2>5, StoreType, Zenon
      <3> QED
        BY <3>1 DEF IsStored
    <2>7. DOMAIN p.rows = DOMAIN s.rows
      BY <2>6
    <2> QED
      BY <2>3, <2>6, <2>7 DEF p, old, IsUpdated
  <1> QED
    BY <1>5, <1>6, <1>7 DEF p

(* The tasks while they are updated, created and clapped.                  *)
Edited(g, rows, made, careful) ==
  {s \in EditPacks(g) : /\ Counted(s) /\ (careful => Hinted(rows, s.rows))
                        /\ DOMAIN s.rows \subseteq DOMAIN rows \cup made}
Updating(g, rows, made, updates, k) ==
  {s \in Edited(g, rows, made, EachOnce(updates)) :
    /\ \A i \in DOMAIN updates : updates[i].id \in DOMAIN s.rows
    /\ EachOnce(updates) => \A t \in DOMAIN s.rows : (\A i \in 1 .. k : updates[i].id # t) =>
         t \in DOMAIN rows /\ s.rows[t].hints = rows[t].hints}

LEMMA UpdateTaskStep ==
  ASSUME NEW g, NEW rows, NEW made, NEW updates \in Seq(TaskUpdate), NEW k \in 1 .. Len(updates),
         NEW s \in Updating(g, rows, made, updates, k - 1)
  PROVE  UpdateTask(s, updates[k]) \in Updating(g, rows, made, updates, k)
  <1> DEFINE u == updates[k]
             p == UpdateTask(s, u)
  <1>1. /\ s \in EditPacks(g) /\ Counted(s) /\ (EachOnce(updates) => Hinted(rows, s.rows))
        /\ \A i \in DOMAIN updates : updates[i].id \in DOMAIN s.rows
    BY DEF Updating, Edited
  <1>2. k \in DOMAIN updates /\ u \in TaskUpdate /\ Len(updates) \in Nat /\ k \in Nat
    OBVIOUS
  <1>3. u.id \in DOMAIN s.rows
    BY <1>1, <1>2
  <1>4. IsUpdated(p, g, s, u.id)
    <2> HIDE DEF u
    <2> QED
      BY <1>1, <1>2, <1>3, UpdateTaskType, Zenon
  <1> HIDE DEF p
  <1>5. /\ p \in EditPacks(g) /\ Counted(p) /\ DOMAIN p.rows = DOMAIN s.rows
        /\ Fits(p.rows[u.id]) \/ p.rows[u.id].hints = s.rows[u.id].hints
        /\ \A t \in DOMAIN s.rows \ {u.id} : p.rows[t] = s.rows[t]
    BY <1>4 DEF IsUpdated
  <1>6. ASSUME EachOnce(updates)
        PROVE  /\ Hinted(rows, p.rows)
               /\ \A t \in DOMAIN p.rows : (\A i \in 1 .. k : updates[i].id # t) =>
                    t \in DOMAIN rows /\ p.rows[t].hints = rows[t].hints
    <2>1. \A t \in DOMAIN s.rows : (\A i \in 1 .. k - 1 : updates[i].id # t) =>
            t \in DOMAIN rows /\ s.rows[t].hints = rows[t].hints
      BY <1>6 DEF Updating
    <2>2. \A i \in 1 .. k - 1 : updates[i].id # u.id
      <3> SUFFICES ASSUME NEW i \in 1 .. k - 1 PROVE updates[i].id # updates[k].id
        OBVIOUS
      <3>1. i \in DOMAIN updates /\ i # k
        BY <1>2
      <3> QED
        BY <3>1, <1>2, <1>6 DEF EachOnce
    <2>3. u.id \in DOMAIN rows /\ s.rows[u.id].hints = rows[u.id].hints
      BY <2>1, <2>2, <1>3
    <2>4. Hinted(rows, p.rows)
      <3> SUFFICES ASSUME NEW t \in DOMAIN p.rows
                   PROVE  Fits(p.rows[t]) \/ (t \in DOMAIN rows /\ p.rows[t].hints = rows[t].hints)
        BY DEF Hinted
      <3>1. CASE t = u.id
        <4>1. CASE Fits(p.rows[u.id])
          BY <3>1, <4>1
        <4>2. CASE p.rows[u.id].hints = s.rows[u.id].hints
          BY <3>1, <4>2, <2>3
        <4> QED
          BY <4>1, <4>2, <1>5
      <3>2. CASE t # u.id
        <4>1. t \in DOMAIN s.rows /\ p.rows[t] = s.rows[t]
          BY <1>5, <3>2
        <4> QED
          BY <4>1, <1>1, <1>6 DEF Hinted
      <3> QED
        BY <3>1, <3>2
    <2>5. ASSUME NEW t \in DOMAIN p.rows, \A i \in 1 .. k : updates[i].id # t
          PROVE  t \in DOMAIN rows /\ p.rows[t].hints = rows[t].hints
      <3>1. k \in 1 .. k /\ \A i \in 1 .. k - 1 : i \in 1 .. k
        BY <1>2
      <3>2. t # u.id /\ \A i \in 1 .. k - 1 : updates[i].id # t
        BY <2>5, <3>1
      <3>3. t \in DOMAIN s.rows /\ p.rows[t] = s.rows[t]
        BY <1>5, <3>2
      <3> QED
        BY <3>2, <3>3, <2>1
    <2> QED
      BY <2>4, <2>5
  <1> QED
    BY <1>1, <1>5, <1>6 DEF Updating, Edited, p

LEMMA UpdateTasksType ==
  ASSUME NEW g, NEW rows, NEW made, NEW updates \in Seq(TaskUpdate), NEW s \in Edited(g, rows, made, FALSE),
         s.why = "ok" => s \in Updating(g, rows, made, updates, 0),
         EachOnce(updates) => Hinted(rows, s.rows)
  PROVE  UpdateTasks(s, updates) \in Edited(g, rows, made, EachOnce(updates))
  <1> DEFINE m == Len(updates)
             V == {p \in Edited(g, rows, made, FALSE) : \A i \in DOMAIN updates : updates[i].id \in DOMAIN p.rows}
             G == [k \in 0 .. m |-> Updating(g, rows, made, updates, k)]
  <1>1. CASE s.why # "ok"
    BY <1>1 DEF UpdateTasks, Edited
  <1>2. CASE s.why = "ok"
    <2>1. m \in Nat /\ Asks(updates)
      BY DEF Asks
    <2>2. s \in V
      BY <1>2 DEF Updating, Edited
    <2>3. UpdateTaskKeeps(V, updates)
      <3> SUFFICES ASSUME NEW p \in V, NEW k \in 1 .. Len(updates)
                   PROVE  UpdateTask(p, updates[k]) \in V
        BY DEF UpdateTaskKeeps
      <3>1. updates[k] \in TaskUpdate /\ updates[k].id \in DOMAIN p.rows
        OBVIOUS
      <3>2. p \in EditPacks(g) /\ Counted(p)
        BY DEF Edited
      <3>3. IsUpdated(UpdateTask(p, updates[k]), g, p, updates[k].id)
        BY <3>1, <3>2, UpdateTaskType, Zenon
      <3> QED
        BY <3>3 DEF IsUpdated, Edited
    <2> HIDE DEF V
    <2>4. PICK st : UpdateTaskRun(s, updates, st)
      BY <2>1, <2>2, <2>3, UpdateTaskSteps
    <2>5. G[0] = Updating(g, rows, made, updates, 0) /\ G[m] = Updating(g, rows, made, updates, m)
      BY <2>1
    <2>6. ASSUME NEW k \in 1 .. m, st[k - 1] \in G[k - 1] PROVE st[k] \in G[k]
      <3>1. G[k - 1] = Updating(g, rows, made, updates, k - 1) /\ G[k] = Updating(g, rows, made, updates, k)
        BY <2>1
      <3>2. st[k] = UpdateTask(st[k - 1], updates[k])
        BY <2>4 DEF UpdateTaskRun
      <3> HIDE DEF G
      <3> QED
        BY <2>6, <3>1, <3>2, UpdateTaskStep
    <2>7. st[0] \in G[0]
      BY <1>2, <2>4, <2>5 DEF UpdateTaskRun
    <2> HIDE DEF G
    <2>8. st[m] \in G[m]
      <3>1. \A k \in 0 .. m : st[k] \in G[k]
        <4> HIDE DEF m
        <4> QED
          BY <2>1, <2>6, <2>7, StepsStay, Zenon
      <3> QED
        BY <2>1, <3>1
    <2>9. UpdateTasks(s, updates) = st[m]
      BY <1>2, <2>4 DEF UpdateTasks, UpdateTaskRun, Updated
    <2> QED
      BY <2>5, <2>8, <2>9 DEF Updating
  <1> QED
    BY <1>1, <1>2

LEMMA CreateTaskType ==
  ASSUME NEW g, NEW rows, NEW made, NEW careful \in BOOLEAN, NEW s \in Edited(g, rows, made, careful),
         NEW c \in TaskCreate, NEW id \in Tasks, id \in made
  PROVE  CreateTask(s, c, id, g) \in Edited(g, rows, made, careful)
  <1> DEFINE hints == CreatedHints(c)
             row == [group |-> g, idx |-> c.idx, reward |-> c.reward, hints |-> hints]
             bad == Len(row.hints) > MaxHints \/ ~ValidPenalties(row.reward, row.hints)
             p == CreateTask(s, c, id, g)
  <1>1. hints \in Hints /\ c.idx \in Int /\ c.reward \in Int
    BY CreatedType DEF TaskCreate
  <1>2. p = IF bad THEN Reject(s) ELSE Store(s, id, row)
    BY DEF CreateTask
  <1>3. s \in EditPacks(g) /\ Counted(s) /\ (careful => Hinted(rows, s.rows))
    BY DEF Edited
  <1> HIDE DEF p, hints
  <1>4. CASE bad
    <2>1. p \in EditPacks(g) /\ p.rows = s.rows /\ (s.why = "panic" => p.why = "panic")
      BY <1>2, <1>3, <1>4, RefusedIsAlike DEF Refused, Alike
    <2> QED
      BY <1>3, <2>1 DEF Edited, Counted, p
  <1>5. CASE ~bad
    <2>1. row \in TaskRow(g)
      <3>1. Len(hints) \in Nat /\ MaxHints \in Nat
        BY <1>1, BulkEditAssumption DEF Hints
      <3>2. Len(hints) <= MaxHints
        BY <1>5, <3>1
      <3> QED
        BY <1>1, <3>2 DEF TaskRow
    <2>2. Fits(row)
      BY <1>5 DEF ValidPenalties, Fits
    <2> HIDE DEF row
    <2>3. IsStored(p, g, s, id, row)
      BY <1>2, <1>3, <1>5, <2>1, StoreType
    <2>4. ASSUME careful PROVE Hinted(rows, p.rows)
      <3> SUFFICES ASSUME NEW t \in DOMAIN p.rows
                   PROVE  Fits(p.rows[t]) \/ (t \in DOMAIN rows /\ p.rows[t].hints = rows[t].hints)
        BY DEF Hinted
      <3>1. CASE t = id
        BY <2>2, <2>3, <3>1 DEF IsStored
      <3>2. CASE t # id
        <4>1. t \in DOMAIN s.rows /\ p.rows[t] = s.rows[t]
          BY <2>3, <3>2 DEF IsStored
        <4> QED
          BY <4>1, <1>3, <2>4 DEF Hinted
      <3> QED
        BY <3>1, <3>2
    <2> QED
      BY <2>3, <2>4 DEF IsStored, Edited, p
  <1> QED
    BY <1>4, <1>5

LEMMA CreateTasksType ==
  ASSUME NEW g, NEW rows, NEW made, NEW careful \in BOOLEAN, NEW s \in Edited(g, rows, made, careful),
         NEW creates \in Seq(TaskCreate), NEW ids \in [1 .. Len(creates) -> Tasks],
         \A k \in 1 .. Len(creates) : ids[k] \in made
  PROVE  CreateTasks(s, creates, ids, g) \in Edited(g, rows, made, careful)
  <1> DEFINE m == Len(creates)
             steps == [i \in DOMAIN creates |-> i]
             V == Edited(g, rows, made, careful)
  <1>1. m \in Nat /\ steps = [i \in 1 .. m |-> i]
    OBVIOUS
  <1>2. Asks(steps) /\ Len(steps) = m
    BY <1>1 DEF Asks
  <1>3. CreateTaskKeeps(V, creates, ids, g, steps)
    <2> SUFFICES ASSUME NEW p \in V, NEW k \in 1 .. Len(steps)
                 PROVE  CreateTask(p, creates[steps[k]], ids[steps[k]], g) \in V
      BY DEF CreateTaskKeeps
    <2>1. k \in 1 .. m /\ steps[k] = k
      BY <1>1, <1>2
    <2>2. creates[k] \in TaskCreate /\ ids[k] \in Tasks /\ ids[k] \in made
      BY <2>1
    <2> HIDE DEF steps
    <2> QED
      BY <2>1, <2>2, CreateTaskType
  <1> HIDE DEF V, steps, m
  <1>4. PICK st : CreateTaskRun(s, creates, ids, g, steps, st)
    BY <1>2, <1>3, CreateTaskSteps DEF V
  <1>5. st[0] \in V /\ \A k \in 1 .. m : st[k - 1] \in V => st[k] \in V
    BY <1>2, <1>3, <1>4 DEF CreateTaskKeeps, CreateTaskRun, V
  <1>6. st[m] \in V
    BY <1>1, <1>5, AllStepsStay
  <1>7. CreateTasks(s, creates, ids, g) = IF s.why # "ok" THEN s ELSE st[m]
    <2>1. CreateTasks(s, creates, ids, g) =
            IF s.why # "ok" THEN s ELSE Created(creates, ids, g, s, steps)
      BY Zenon DEF CreateTasks, Created, steps
    <2> QED
      BY <1>2, <1>4, <2>1 DEF CreateTaskRun
  <1> QED
    BY <1>6, <1>7 DEF V

LEMMA ClapTaskType ==
  ASSUME NEW g, NEW rows, NEW made, NEW careful \in BOOLEAN, NEW s \in Edited(g, rows, made, careful),
         NEW item \in [id : Tasks, idx : Nat]
  PROVE  ClapTask(s, item) \in Edited(g, rows, made, careful)
  <1> DEFINE new == [s.rows EXCEPT ![item.id].idx = item.idx]
             p == [s EXCEPT !.rows = new]
  <1>1. s \in EditPacks(g) /\ Counted(s) /\ (careful => Hinted(rows, s.rows))
    BY DEF Edited
  <1>2. DOMAIN s.rows \in SUBSET Tasks /\ s.rows \in [DOMAIN s.rows -> TaskRow(g)]
    BY <1>1, PartialIs DEF EditPacks
  <1>3. ASSUME NEW t \in DOMAIN s.rows
        PROVE  /\ new[t] \in TaskRow(g) /\ new[t].hints = s.rows[t].hints
               /\ new[t].reward = s.rows[t].reward
               /\ new[t].idx = s.rows[t].idx \/ new[t].idx \in Nat
    <2>1. s.rows[t] \in TaskRow(g)
      BY <1>2
    <2>2. CASE t = item.id
      BY <2>1, <2>2 DEF TaskRow
    <2>3. CASE t # item.id
      BY <2>1, <2>3
    <2> QED
      BY <2>2, <2>3
  <1>4. DOMAIN new = DOMAIN s.rows /\ new = [t \in DOMAIN s.rows |-> new[t]]
    OBVIOUS
  <1>5. ClapTask(s, item) = p
    BY DEF ClapTask
  <1> HIDE DEF new
  <1>6. new \in Partial(Tasks, TaskRow(g))
    <2>1. new \in [DOMAIN s.rows -> TaskRow(g)]
      BY <1>3, <1>4
    <2> QED
      BY <1>2, <2>1, IsPartial
  <1>7. p \in EditPacks(g) /\ p.rows = new /\ p.why = s.why
    BY <1>1, <1>6 DEF EditPacks
  <1> HIDE DEF p
  <1>8. Counted(p)
    BY <1>1, <1>3, <1>4, <1>7 DEF Counted
  <1>9. ASSUME careful PROVE Hinted(rows, p.rows)
    BY <1>1, <1>3, <1>4, <1>7, <1>9 DEF Hinted, Fits
  <1>10. DOMAIN p.rows \subseteq DOMAIN rows \cup made
    BY <1>4, <1>7 DEF Edited
  <1> QED
    BY <1>5, <1>7, <1>8, <1>9, <1>10 DEF Edited

LEMMA ClapTasksType ==
  ASSUME NEW g, NEW rows, NEW made, NEW careful \in BOOLEAN, NEW s \in Edited(g, rows, made, careful)
  PROVE  ClapTasks(s) \in Edited(g, rows, made, careful)
  <1> DEFINE items == Claps(s)
             m == Len(items)
             V == Edited(g, rows, made, careful)
  <1>1. items \in Seq([id : Tasks, idx : Nat])
    BY ClapsType DEF Edited, EditPacks
  <1> HIDE DEF items
  <1>2. m \in Nat /\ Asks(items) /\ \A k \in 1 .. m : items[k] \in [id : Tasks, idx : Nat]
    BY <1>1, SeqIs, Zenon
  <1>3. ClapTaskKeeps(V, items)
    BY <1>2, ClapTaskType DEF ClapTaskKeeps
  <1> HIDE DEF V, m
  <1>4. PICK st : ClapTaskRun(s, items, st)
    BY <1>2, <1>3, ClapTaskSteps DEF V
  <1>5. st[0] \in V /\ \A k \in 1 .. m : st[k - 1] \in V => st[k] \in V
    BY <1>3, <1>4 DEF ClapTaskKeeps, ClapTaskRun, V, m
  <1>6. st[m] \in V
    BY <1>2, <1>5, AllStepsStay
  <1>7. ClapTasks(s) = IF s.why # "ok" THEN s ELSE st[m]
    BY <1>4 DEF ClapTasks, ClapTaskRun, Clapped, items, m
  <1> QED
    BY <1>6, <1>7 DEF V

IdxNat(rows) == \A t \in DOMAIN rows : rows[t].idx \in Nat

LEMMA RemainsIsEdited ==
  ASSUME NEW g, NEW rows, NEW made, IdxNat(rows), NEW s \in Remains(g, rows), NEW careful \in BOOLEAN
  PROVE  s \in Edited(g, rows, made, careful)
  <1>1. Counted(s)
    BY DEF Remains, Counted, IdxNat
  <1>2. Hinted(rows, s.rows)
    <2>1. \A t \in DOMAIN s.rows : t \in DOMAIN rows /\ s.rows[t] = rows[t]
      BY DEF Remains
    <2> QED
      BY <2>1 DEF Hinted
  <1> QED
    BY <1>1, <1>2 DEF Remains, Edited

LEMMA OpenTasksType ==
  ASSUME NEW g, NEW rows \in Partial(Tasks, TaskRow(g))
  PROVE  OpenTasks(rows) \in Remains(g, rows)
  <1> DEFINE idxs == [t \in DOMAIN rows |-> rows[t].idx]
             pack == Pack(idxs)
  <1>1. DOMAIN rows \in SUBSET Tasks /\ rows \in [DOMAIN rows -> TaskRow(g)]
    BY PartialIs
  <1>2. idxs \in [DOMAIN rows -> Int] /\ DOMAIN idxs = DOMAIN rows
    BY <1>1 DEF TaskRow
  <1>3. OpenTasks(rows) = [at |-> pack.at, old |-> pack.old, why |-> pack.why, rows |-> rows]
    BY DEF OpenTasks
  <1> HIDE DEF idxs
  <1>4. idxs \in Partial(Tasks, Int)
    BY <1>1, <1>2, IsPartial
  <1>5. pack.at \in Slices(Tasks) /\ pack.old = idxs /\ pack.why = "ok"
    BY <1>4, PackType, BulkEditAssumption
  <1> HIDE DEF pack
  <1>6. OpenTasks(rows) \in EditPacks(g)
    BY <1>3, <1>4, <1>5 DEF EditPacks, Whys
  <1> QED
    BY <1>2, <1>3, <1>5, <1>6 DEF Remains

LEMMA ReadBackIsRefused ==
  ASSUME NEW s
  PROVE  ReadBack(s) \in Refused(s) /\ (ReadBack(s).why = "ok" => GetTasksWorks(s.rows))
  BY DEF ReadBack, Refused, Reject

LEMMA RefusedRemains ==
  ASSUME NEW g, NEW rows, NEW s \in Remains(g, rows), NEW p \in Refused(s)
  PROVE  p \in Remains(g, rows)
  <1>1. s \in EditPacks(g)
    BY DEF Remains
  <1> QED
    BY <1>1, RefusedIsAlike, AlikeRemains

LEMMA RefusedIsEdited ==
  ASSUME NEW g, NEW rows, NEW made, NEW careful \in BOOLEAN, NEW s \in Edited(g, rows, made, careful),
         NEW p \in Refused(s)
  PROVE  p \in Edited(g, rows, made, careful)
  <1>1. s \in EditPacks(g) /\ Counted(s) /\ (careful => Hinted(rows, s.rows))
    BY DEF Edited
  <1>2. p \in EditPacks(g) /\ Alike(p, s)
    BY <1>1, RefusedIsAlike
  <1> QED
    BY <1>1, <1>2 DEF Edited, Counted, Alike

LEMMA GrowRemains ==
  ASSUME NEW g, NEW rows, NEW s \in Remains(g, rows), NEW created \in Nat, NEW deleted \in Nat
  PROVE  Grow(s, created, deleted) \in Remains(g, rows)
  <1> DEFINE p == Grow(s, created, deleted)
  <1>1. s \in EditPacks(g) /\ s.at \in Slices(Tasks)
    BY DEF Remains, EditPacks
  <1>2. p = s \/ \E a \in Slices(Tasks) : p = [s EXCEPT !.at = a]
    BY <1>1, GrowType
  <1> HIDE DEF p
  <1>3. CASE p = s
    BY <1>3 DEF p
  <1>4. CASE \E a \in Slices(Tasks) : p = [s EXCEPT !.at = a]
    <2>1. p \in EditPacks(g) /\ Alike(p, s)
      BY <1>1, <1>4, WithSliceIsAlike
    <2> QED
      BY <2>1, AlikeRemains DEF p
  <1> QED
    BY <1>2, <1>3, <1>4

LEMMA ReorderRemains ==
  ASSUME NEW g, NEW rows, NEW made, IdxNat(rows), NEW s \in Remains(g, rows), NEW updates \in Seq(TaskUpdate)
  PROVE  /\ Reorder(s, updates) \in Remains(g, rows)
         /\ Reorder(s, updates).why = "ok" => Reorder(s, updates) \in Updating(g, rows, made, updates, 0)
  <1> DEFINE p == Reorder(s, updates)
  <1>1. s \in EditPacks(g) /\ s.at \in Slices(Tasks) /\ s.old \in Partial(Tasks, Int)
    BY DEF Remains, EditPacks
  <1>2. Len(updates) \in Nat /\ Asks(updates) /\ \A i \in DOMAIN updates : updates[i].idx \in Int
    <2>1. Len(updates) \in Nat /\ Asks(updates) /\ \A k \in 1 .. Len(updates) : updates[k] \in TaskUpdate
      BY SeqIs
    <2> QED
      BY <2>1 DEF Asks, TaskUpdate
  <1>3. /\ p \in Refused(s) \cup WithSlice(s, Tasks)
        /\ p.why = "ok" => s.why = "ok" /\ MovesAreSound(s, updates)
    BY <1>1, <1>2, ReorderType
  <1> HIDE DEF p
  <1>4. p \in EditPacks(g) /\ Alike(p, s)
    <2>1. CASE p \in Refused(s)
      BY <1>1, <2>1, RefusedIsAlike
    <2>2. CASE p \in WithSlice(s, Tasks)
      BY <1>1, <2>2, WithSliceIsAlike DEF WithSlice
    <2> QED
      BY <1>3, <2>1, <2>2
  <1>5. p \in Remains(g, rows)
    BY <1>4, AlikeRemains
  <1>6. ASSUME p.why = "ok" PROVE p \in Updating(g, rows, made, updates, 0)
    <2>1. \A i \in DOMAIN updates : updates[i].id \in DOMAIN s.old
      BY <1>3, <1>6 DEF MovesAreSound
    <2>2. \A i \in DOMAIN updates : updates[i].id \in DOMAIN p.rows
      BY <1>4, <2>1 DEF Remains, Alike
    <2>3. \A t \in DOMAIN p.rows : t \in DOMAIN rows /\ p.rows[t].hints = rows[t].hints
      BY <1>5 DEF Remains
    <2>4. EachOnce(updates) \in BOOLEAN
      BY DEF EachOnce
    <2>5. p \in Edited(g, rows, made, EachOnce(updates))
      BY <1>5, <2>4, RemainsIsEdited
    <2> QED
      BY <2>2, <2>3, <2>5 DEF Updating
  <1> QED
    BY <1>5, <1>6 DEF p

Supplied(ids) == {ids[k] : k \in DOMAIN ids}

(* An edit of a group's tasks that is not refused leaves rows of its       *)
(* group or those it was given ids for, with positions for indexes; when   *)
(* it names a task once, the hints of each fit its reward or are those it  *)
(* had.                                                                    *)
LEMMA BulkUpdateType ==
  ASSUME NEW g, NEW rows \in Partial(Tasks, TaskRow(g)), IdxNat(rows),
         NEW req \in TasksEdit, NEW ids \in [1 .. Len(req.create) -> Tasks]
  PROVE  BulkUpdate(rows, req, ids, g) \in Edited(g, rows, Supplied(ids), EachOnce(req.update))
  <1> DEFINE made == Supplied(ids)
             R == Remains(g, rows)
             careful == EachOnce(req.update)
             E == Edited(g, rows, made, careful)
             opened == ReadBack(OpenTasks(rows))
             deleted == Grow(DeleteTasks(opened, req.delete), Len(req.create), Len(req.delete))
             moved == Reorder(deleted, req.update)
             updated == UpdateTasks(moved, req.update)
             checked == CheckCreates(updated, req.create)
             created == CreateTasks(checked, req.create, ids, g)
             clapped == ClapTasks(created)
  <1>1. /\ req.delete \in Seq(Tasks) /\ req.update \in Seq(TaskUpdate)
        /\ req.create \in Seq(TaskCreate) /\ careful \in BOOLEAN
    BY DEF TasksEdit, EachOnce
  <1>2. Asks(req.delete) /\ Len(req.delete) \in Nat /\ Len(req.create) \in Nat
    BY <1>1, SeqIs, Zenon
  <1> \A k \in 1 .. Len(req.create) : ids[k] \in made
    BY DEF Supplied
  <1> HIDE DEF made
  <1>3. BulkUpdate(rows, req, ids, g) = ReadBack(clapped)
    BY Zenon DEF BulkUpdate
  <1> HIDE DEF careful
  <1>4. opened \in R
    BY OpenTasksType, ReadBackIsRefused, RefusedRemains
  <1> HIDE DEF opened
  <1>5. DeleteTasks(opened, req.delete) \in R
    BY <1>2, <1>4, DeleteTasksType
  <1>6. deleted \in R
    BY <1>2, <1>5, GrowRemains
  <1> HIDE DEF deleted
  <1>7. moved \in R /\ (moved.why = "ok" => moved \in Updating(g, rows, made, req.update, 0))
    BY <1>1, <1>6, ReorderRemains
  <1> HIDE DEF moved
  <1>8. moved \in Edited(g, rows, made, FALSE) /\ Hinted(rows, moved.rows)
    <2>1. moved \in Edited(g, rows, made, FALSE) /\ moved \in Edited(g, rows, made, TRUE)
      BY <1>7, RemainsIsEdited
    <2> QED
      BY <2>1 DEF Edited
  <1>9. updated \in E
    BY <1>1, <1>7, <1>8, UpdateTasksType DEF careful
  <1> HIDE DEF updated
  <1>10. checked \in E
    <2>1. checked \in Refused(updated)
      BY DEF CheckCreates, Refused
    <2> QED
      BY <1>1, <1>9, <2>1, RefusedIsEdited
  <1> HIDE DEF checked
  <1>11. created \in E
    BY <1>1, <1>10, CreateTasksType
  <1> HIDE DEF created
  <1>12. clapped \in E
    BY <1>1, <1>11, ClapTasksType
  <1> HIDE DEF clapped
  <1>13. ReadBack(clapped) \in E
    BY <1>1, <1>12, ReadBackIsRefused, RefusedIsEdited
  <1> QED
    BY <1>3, <1>13 DEF careful, made

-----------------------------------------------------------------------------
(* The tables and what the requests keep.                                  *)
Labels == {"idle", "list", "wipe", "read", "delete", "update", "create", "clap", "commit", "panic"}
Row == [group : Groups, idx : Nat, reward : Int, hints : {h \in Hints : Len(h) <= MaxHints}]
GroupTable == [Groups -> Nat \cup {None}]
TaskTable == [Tasks -> Row \cup {None}]
Input == [op : {"bulk", "create", "none"}, alone : BOOLEAN, delete : Seq(Groups),
          update : Seq([id : Groups, idx : Int, tasks : TasksEdit \cup {None}]),
          create : Seq([idx : Int, tasks : {e \in TasksEdit : e.delete = <<>> /\ e.update = <<>>}
                                             \cup {None}])]
Locs == [at : Slices(Groups), old : Partial(Groups, Int), why : Whys,
         seen : Partial(Groups, Nat), claps : Seq([id : Groups, idx : Nat]), next : Nat]
Txs == [wrote : SUBSET (Groups \cup Tasks), group : GroupTable, task : TaskTable,
        suspect : SUBSET Groups]

(* What has been written has been locked; a group is created in a slot of  *)
(* the slice.                                                              *)
InSlice(i, l) == \A k \in DOMAIN i.create : i.create[k].idx \in DOMAIN l.at
Sound(p, i, l, t) ==
  /\ p \in Labels /\ i \in Input /\ l \in Locs /\ t \in Txs /\ t.suspect \subseteq t.wrote
  /\ p = "create" => InSlice(i, l)

TypeInv ==
  /\ group \in GroupTable /\ task \in TaskTable
  /\ pc = [r \in Requests |-> pc[r]] /\ input = [r \in Requests |-> input[r]]
  /\ loc = [r \in Requests |-> loc[r]] /\ tx = [r \in Requests |-> tx[r]]
  /\ \A r \in Requests : Sound(pc[r], input[r], loc[r], tx[r])

LEMMA NoPack ==
  <<>> \in Slices(Groups) /\ <<>> \in Partial(Groups, Int) /\ <<>> \in Partial(Groups, Nat)
  <1>1. <<>> = [x \in {} |-> None]
    OBVIOUS
  <1>2. Slots(0) = {}
    BY DEF Slots
  <1>3. <<>> \in [Slots(0) -> Items(Groups) \cup {None}]
    BY <1>1, <1>2
  <1>4. {} \in SUBSET Groups /\ <<>> \in [{} -> Int] /\ <<>> \in [{} -> Nat]
    BY <1>1
  <1> QED
    BY <1>3, <1>4, IsSlice, IsPartial

LEMMA NoLocType == NoLoc \in Locs
  BY NoPack DEF NoLoc, Locs, Whys

LEMMA NoTxType == NoTx \in Txs /\ NoTx.wrote = {} /\ NoTx.suspect = {}
  BY DEF NoTx, Txs, GroupTable, TaskTable

LEMMA NoEditType == NoEdit \in Input
  BY DEF NoEdit, Input

LEMMA EditIsInput == Edit \subseteq Input
  BY DEF Edit, Input

LEMMA SeenType ==
  ASSUME TypeInv, NEW r \in Requests
  PROVE  /\ GroupsSeen(r) \in GroupTable /\ TasksSeen(r) \in TaskTable
         /\ \A g \in Groups :
              GroupsSeen(r)[g] = IF g \in tx[r].wrote THEN tx[r].group[g] ELSE group[g]
         /\ \A t \in Tasks :
              TasksSeen(r)[t] = IF t \in tx[r].wrote THEN tx[r].task[t] ELSE task[t]
  <1>1. tx[r].group \in GroupTable /\ tx[r].task \in TaskTable
    BY DEF TypeInv, Sound, Txs
  <1>2. group \in GroupTable /\ task \in TaskTable
    BY DEF TypeInv
  <1>3. /\ Overlay(group, tx[r].group, tx[r].wrote) \in GroupTable
        /\ \A g \in Groups : Overlay(group, tx[r].group, tx[r].wrote)[g] =
             IF g \in tx[r].wrote THEN tx[r].group[g] ELSE group[g]
    BY <1>1, <1>2 DEF Overlay, GroupTable
  <1>4. /\ Overlay(task, tx[r].task, tx[r].wrote) \in TaskTable
        /\ \A t \in Tasks : Overlay(task, tx[r].task, tx[r].wrote)[t] =
             IF t \in tx[r].wrote THEN tx[r].task[t] ELSE task[t]
    BY <1>1, <1>2 DEF Overlay, TaskTable
  <1> QED
    BY <1>3, <1>4, Zenon DEF GroupsSeen, TasksSeen

LEMMA RowsType ==
  ASSUME NEW S, NEW V, NEW table \in [S -> V \cup {None}]
  PROVE  /\ Rows(table) \in Partial(S, V) /\ DOMAIN Rows(table) = {i \in S : table[i] # None}
         /\ \A i \in DOMAIN Rows(table) : Rows(table)[i] = table[i]
  <1> DEFINE D == {i \in S : table[i] # None}
  <1>1. Rows(table) = [i \in D |-> table[i]]
    BY DEF Rows
  <1>2. Rows(table) \in [D -> V]
    BY <1>1
  <1>3. D \in SUBSET S
    OBVIOUS
  <1> QED
    BY <1>1, <1>2, <1>3, IsPartial

LEMMA TasksOfType ==
  ASSUME NEW table \in TaskTable, NEW g
  PROVE  /\ TasksOf(table, g) \in Partial(Tasks, TaskRow(g)) /\ IdxNat(TasksOf(table, g))
         /\ DOMAIN TasksOf(table, g) = {t \in Tasks : table[t] # None /\ table[t].group = g}
         /\ \A t \in DOMAIN TasksOf(table, g) : TasksOf(table, g)[t] = table[t]
  <1> DEFINE D == {t \in Tasks : table[t] # None /\ table[t].group = g}
  <1>1. DOMAIN Rows(table) = {t \in Tasks : table[t] # None}
    BY RowsType DEF TaskTable
  <1>2. TasksOf(table, g) = [t \in D |-> table[t]]
    BY <1>1 DEF TasksOf
  <1>3. ASSUME NEW t \in D PROVE table[t] \in TaskRow(g) /\ table[t].idx \in Nat
    <2>1. table[t] \in Row
      BY DEF TaskTable
    <2> QED
      BY <2>1 DEF Row, TaskRow
  <1>4. TasksOf(table, g) \in [D -> TaskRow(g)] /\ D \in SUBSET Tasks
    BY <1>2, <1>3
  <1>5. IdxNat(TasksOf(table, g))
    BY <1>2, <1>3 DEF IdxNat
  <1> QED
    BY <1>2, <1>4, <1>5, IsPartial

WroteGroup(t, r, g, idx) ==
  /\ t \in Txs /\ t.suspect \subseteq t.wrote /\ t.wrote = tx[r].wrote \cup {g}
  /\ t.group = [tx[r].group EXCEPT ![g] = idx] /\ t.task = tx[r].task
  /\ t.suspect = IF idx # None /\ Clash(r, g, idx)
                 THEN tx[r].suspect \cup {g} ELSE tx[r].suspect \ {g}

LEMMA WriteGroupType ==
  ASSUME TypeInv, NEW r \in Requests, NEW g \in Groups, NEW idx \in Nat \cup {None}
  PROVE  WroteGroup(WriteGroup(r, g, idx), r, g, idx)
  <1> DEFINE wrote == tx[r].wrote \cup {g}
             index == [tx[r].group EXCEPT ![g] = idx]
             suspect == IF idx # None /\ Clash(r, g, idx)
                        THEN tx[r].suspect \cup {g} ELSE tx[r].suspect \ {g}
  <1>1. tx[r] \in Txs /\ tx[r].suspect \subseteq tx[r].wrote
    BY DEF TypeInv, Sound
  <1>2. WriteGroup(r, g, idx) = [tx[r] EXCEPT !.wrote = wrote, !.group = index, !.suspect = suspect]
    BY DEF WriteGroup
  <1>3. wrote \in SUBSET (Groups \cup Tasks) /\ index \in GroupTable
    BY <1>1 DEF Txs, GroupTable
  <1>4. suspect \in SUBSET Groups /\ suspect \subseteq wrote
    BY <1>1 DEF Txs
  <1> HIDE DEF wrote, index, suspect
  <1>5. /\ WriteGroup(r, g, idx) \in Txs /\ WriteGroup(r, g, idx).suspect = suspect
        /\ WriteGroup(r, g, idx).wrote = wrote /\ WriteGroup(r, g, idx).group = index
        /\ WriteGroup(r, g, idx).task = tx[r].task
    BY <1>1, <1>2, <1>3, <1>4 DEF Txs
  <1> QED
    BY <1>4, <1>5 DEF wrote, index, suspect, WroteGroup

(* The tasks a nested edit touches are those seen and those it leaves.     *)
Touched(r, g, rows) == DOMAIN TasksOf(TasksSeen(r), g) \cup DOMAIN rows

WroteTasks(u, t, r, g, rows) ==
  LET T == Touched(r, g, rows)
  IN  /\ u \in Txs /\ u.wrote = t.wrote \cup T /\ u.group = t.group
      /\ u.suspect = t.suspect /\ T \subseteq Tasks
      /\ \A i \in Tasks : u.task[i] = IF i \notin T THEN t.task[i]
                                     ELSE IF i \in DOMAIN rows THEN rows[i] ELSE None

LEMMA WriteTasksType ==
  ASSUME TypeInv, NEW r \in Requests, NEW g, NEW t \in Txs, NEW rows \in Partial(Tasks, Row)
  PROVE  WroteTasks(WriteTasks(t, r, g, rows), t, r, g, rows)
  <1> DEFINE T == Touched(r, g, rows)
             wrote == t.wrote \cup T
             new == [i \in Tasks |-> IF i \notin T THEN t.task[i]
                                     ELSE IF i \in DOMAIN rows THEN rows[i] ELSE None]
  <1>1. DOMAIN rows \in SUBSET Tasks /\ rows \in [DOMAIN rows -> Row]
    BY PartialIs
  <1>2. T \in SUBSET Tasks
    BY <1>1, SeenType, TasksOfType DEF Touched
  <1>3. WriteTasks(t, r, g, rows) = [t EXCEPT !.wrote = wrote, !.task = new]
    BY DEF WriteTasks, Touched
  <1>4. wrote \in SUBSET (Groups \cup Tasks) /\ new \in TaskTable
    BY <1>1, <1>2 DEF Txs, TaskTable
  <1>5. \A i \in Tasks : new[i] = IF i \notin T THEN t.task[i]
                                  ELSE IF i \in DOMAIN rows THEN rows[i] ELSE None
    OBVIOUS
  <1> HIDE DEF wrote, new, T
  <1>6. /\ WriteTasks(t, r, g, rows) \in Txs
        /\ WriteTasks(t, r, g, rows).wrote = wrote /\ WriteTasks(t, r, g, rows).task = new
        /\ WriteTasks(t, r, g, rows).group = t.group /\ WriteTasks(t, r, g, rows).suspect = t.suspect
    BY <1>3, <1>4 DEF Txs
  <1> QED
    BY <1>2, <1>5, <1>6 DEF wrote, T, WroteTasks

-----------------------------------------------------------------------------
(* The kinds of steps: what a step of request r does to the transactions.  *)
Turn(r, p, i, l, t) ==
  /\ pc' = [pc EXCEPT ![r] = p] /\ input' = [input EXCEPT ![r] = i]
  /\ loc' = [loc EXCEPT ![r] = l] /\ tx' = [tx EXCEPT ![r] = t]
  /\ Sound(p, i, l, t)
Still == group' = group /\ task' = task

Early == {"list", "wipe", "read", "delete"}
Flows(r, p, i, l) ==
  /\ pc[r] # "idle" /\ p # "idle"
  /\ i.update = input[r].update /\ i.create = input[r].create
  /\ p \in Early => pc[r] \in Early
  /\ p = "update" => pc[r] \in Early \/ (pc[r] = "update" /\ loc[r].next <= l.next)

Sent(i) ==
  \E alone \in BOOLEAN, G \in SUBSET Groups, T \in SUBSET Tasks : i \in Edits(alone, G, T)
Starts(r) ==
  \E p \in {"list", "read"} : \E i :
    Still /\ pc[r] = "idle" /\ Sent(i) /\ Turn(r, p, i, loc[r], tx[r])
Ends(r) == Still /\ Turn(r, "idle", NoEdit, NoLoc, NoTx)
Goes(r) == \E p, i, l : Still /\ Flows(r, p, i, l) /\ Turn(r, p, i, l, tx[r])
Removes(r) ==
  \E g \in Groups : \E l : /\ Still /\ pc[r] \in {"wipe", "delete"} /\ ~LockedFor(r, g)
                           /\ Turn(r, pc[r], input[r], l, Delete(r, g))
Indexes(r) ==
  \E g \in Groups, idx \in Nat : \E l :
    /\ Still /\ pc[r] \in {"update", "create", "clap"} /\ ~LockedFor(r, g)
    /\ Flows(r, pc[r], input[r], l)
    /\ Turn(r, pc[r], input[r], l, WriteGroup(r, g, idx))

(* Ids given to created tasks belong to nobody.                            *)
Free(made) == \A k \in made : task[k] = None /\ \A q \in Requests : k \notin tx[q].wrote

(* Edits the tasks of a group whose row is locked: one of the update, or   *)
(* one that has just been created.                                         *)
NestedIn(r, g, l, updates) ==
  \/ /\ pc[r] = "update" /\ loc[r].next \in DOMAIN input[r].update
     /\ input[r].update[loc[r].next].id = g
     /\ input[r].update[loc[r].next].tasks # None
     /\ updates = input[r].update[loc[r].next].tasks.update
     /\ l.next = loc[r].next + 1
  \/ pc[r] = "create" /\ updates = <<>> /\ \A q \in Requests : g \notin tx[q].wrote
Nests(r) ==
  \E g \in Groups, idx \in Nat : \E l, s, made, updates :
    /\ Still /\ ~LockedFor(r, g) /\ Free(made) /\ NestedIn(r, g, l, updates)
    /\ s \in Edited(g, TasksOf(TasksSeen(r), g), made, EachOnce(updates))
    /\ s.rows \in Partial(Tasks, Row)
    /\ Turn(r, pc[r], input[r], l, WriteTasks(WriteGroup(r, g, idx), r, g, s.rows))
Commits(r) ==
  /\ pc[r] = "commit" /\ group' = GroupsSeen(r) /\ task' = TasksSeen(r)
  /\ OrderIsUnique(r) /\ \A q \in Requests \ {r} : ~CommitWaits(r, q)
  /\ Turn(r, "idle", NoEdit, NoLoc, NoTx)

Kinds(r) ==
  Starts(r) \/ Ends(r) \/ Goes(r) \/ Removes(r) \/ Indexes(r) \/ Nests(r) \/ Commits(r)

LEMMA RollbackEnds ==
  ASSUME TypeInv, NEW r \in Requests, Rollback(r)
  PROVE  Ends(r)
  <1>1. Sound("idle", NoEdit, NoLoc, NoTx)
    BY NoEditType, NoLocType, NoTxType DEF Sound, Labels
  <1> QED
    BY <1>1 DEF Rollback, End, Ends, Still, Turn

(* The lists of a request and the pack it works on.                        *)
LEMMA RequestType ==
  ASSUME TypeInv, NEW r \in Requests
  PROVE  /\ pc[r] \in Labels /\ input[r] \in Input /\ loc[r] \in Locs /\ tx[r] \in Txs
         /\ tx[r].suspect \subseteq tx[r].wrote
         /\ Sound(pc[r], input[r], loc[r], tx[r])
         /\ pc[r] = "create" => InSlice(input[r], loc[r])
  BY DEF TypeInv, Sound

LEMMA InputType ==
  ASSUME NEW i \in Input
  PROVE  /\ Asks(i.delete) /\ \A k \in DOMAIN i.delete : i.delete[k] \in Groups
         /\ Asks(i.update)
         /\ \A k \in DOMAIN i.update : /\ i.update[k].id \in Groups /\ i.update[k].idx \in Int
                                       /\ i.update[k].tasks \in TasksEdit \cup {None}
         /\ Asks(i.create)
         /\ \A k \in DOMAIN i.create : /\ i.create[k].idx \in Int
                                       /\ i.create[k].tasks \in TasksEdit \cup {None}
                                       /\ i.create[k].tasks # None => i.create[k].tasks.update = <<>>
  <1> DEFINE U == [id : Groups, idx : Int, tasks : TasksEdit \cup {None}]
             C == [idx : Int, tasks : {e \in TasksEdit : e.delete = <<>> /\ e.update = <<>>}
                                        \cup {None}]
  <1>1. i.delete \in Seq(Groups) /\ i.update \in Seq(U) /\ i.create \in Seq(C)
    BY DEF Input
  <1>2. /\ \A u \in U : u.id \in Groups /\ u.idx \in Int /\ u.tasks \in TasksEdit \cup {None}
        /\ \A c \in C : /\ c.idx \in Int /\ c.tasks \in TasksEdit \cup {None}
                        /\ c.tasks # None => c.tasks.update = <<>>
    OBVIOUS
  <1> HIDE DEF U, C
  <1>3. Asks(i.delete) /\ \A k \in 1 .. Len(i.delete) : i.delete[k] \in Groups
    BY <1>1, SeqIs, Zenon
  <1>4. Asks(i.update) /\ \A k \in 1 .. Len(i.update) : i.update[k] \in U
    BY <1>1, SeqIs, Zenon
  <1>5. Asks(i.create) /\ \A k \in 1 .. Len(i.create) : i.create[k] \in C
    BY <1>1, SeqIs, Zenon
  <1> QED
    BY <1>2, <1>3, <1>4, <1>5 DEF Asks

LEMMA LocType ==
  ASSUME NEW l \in Locs
  PROVE  /\ l.at \in Slices(Groups) /\ l.old \in Partial(Groups, Int) /\ l.next \in Nat
         /\ l.claps \in Seq([id : Groups, idx : Nat])
         /\ [l EXCEPT !.next = 1] \in Locs /\ Next1(l) \in Locs /\ Next1(l).next = l.next + 1
         /\ Next1(l).at = l.at /\ [l EXCEPT !.next = 1].at = l.at
         /\ \A w \in Whys : [l EXCEPT !.why = w] \in Locs
  <1>1. /\ l.at \in Slices(Groups) /\ l.old \in Partial(Groups, Int) /\ l.next \in Nat
        /\ l.claps \in Seq([id : Groups, idx : Nat]) /\ l.seen \in Partial(Groups, Nat)
        /\ l.why \in Whys
        /\ l = [at |-> l.at, old |-> l.old, why |-> l.why, seen |-> l.seen,
                claps |-> l.claps, next |-> l.next]
    BY Zenon DEF Locs
  <1>2. ASSUME NEW n \in Nat PROVE [l EXCEPT !.next = n] \in Locs
    BY Zenon DEF Locs
  <1>3. l.next + 1 \in Nat /\ 1 \in Nat
    BY <1>1
  <1>4. ASSUME NEW w \in Whys PROVE [l EXCEPT !.why = w] \in Locs
    BY Zenon DEF Locs
  <1>5. ASSUME NEW n PROVE [l EXCEPT !.next = n].next = n /\ [l EXCEPT !.next = n].at = l.at
    BY Zenon DEF Locs
  <1> QED
    BY <1>1, <1>2, <1>3, <1>4, <1>5, Zenon DEF Next1

LEMMA PackIsLoc ==
  ASSUME NEW l \in Locs, NEW p \in Refused(l) \cup WithSlice(l, Groups)
  PROVE  p \in Locs /\ DOMAIN p.at = DOMAIN l.at /\ p.next = l.next
  <1>1. CASE p \in Refused(l)
    BY <1>1 DEF Refused, Reject, Panic, Locs, Whys
  <1>2. CASE p \in WithSlice(l, Groups)
    <2>1. PICK a \in Slices(Groups) : DOMAIN a = DOMAIN l.at /\ p = [l EXCEPT !.at = a]
      BY <1>2 DEF WithSlice
    <2> QED
      BY <2>1 DEF Locs
  <1> QED
    BY <1>1, <1>2

(* A step that goes on with the same transaction.                          *)
LEMMA StepGoes ==
  ASSUME TypeInv, NEW r \in Requests, NEW p \in Labels, NEW l \in Locs, Step(r, p, l, tx[r]),
         p = "create" => InSlice(input[r], l), Flows(r, p, input[r], l)
  PROVE  Goes(r)
  <1>1. input = [input EXCEPT ![r] = input[r]]
    BY DEF TypeInv
  <1>2. Sound(p, input[r], l, tx[r])
    BY RequestType DEF Sound
  <1>3. Still /\ Turn(r, p, input[r], l, tx[r])
    BY <1>1, <1>2 DEF Step, Still, Turn
  <1> QED
    BY <1>3 DEF Goes

LEMMA ProceedKind ==
  ASSUME TypeInv, NEW r \in Requests, NEW pack \in Locs, NEW label \in Labels,
         Proceed(r, pack, label), pc[r] # "idle",
         pack.why = "ok" => Flows(r, label, input[r], [pack EXCEPT !.next = 1]),
         pack.why = "ok" /\ label = "create" => InSlice(input[r], pack)
  PROVE  Goes(r) \/ Ends(r)
  <1> DEFINE l == [pack EXCEPT !.next = 1]
  <1>1. l \in Locs /\ l.at = pack.at
    BY LocType
  <1>2. CASE pack.why = "ok"
    <2>1. Step(r, label, l, tx[r])
      BY <1>2 DEF Proceed, Goto
    <2>2. label = "create" => InSlice(input[r], l)
      BY <1>1, <1>2 DEF InSlice
    <2> QED
      BY <1>1, <1>2, <2>1, <2>2, StepGoes
  <1>3. CASE pack.why = "panic"
    <2>1. Step(r, "panic", l, tx[r])
      BY <1>3 DEF Proceed, Goto
    <2>2. Flows(r, "panic", input[r], l)
      BY DEF Flows, Early
    <2> HIDE DEF l
    <2> QED
      BY <1>1, <2>1, <2>2, StepGoes DEF Labels
  <1>4. CASE pack.why # "ok" /\ pack.why # "panic"
    <2>1. Rollback(r)
      BY <1>4 DEF Proceed
    <2> QED
      BY <2>1, RollbackEnds
  <1> QED
    BY <1>2, <1>3, <1>4

-----------------------------------------------------------------------------
(* Every action is a step of one of these kinds.                           *)
LEMMA ArriveKind ==
  ASSUME TypeInv, NEW r \in Requests, NEW op, NEW label \in {"list", "read"}, Arrive(r, op, label)
  PROVE  Starts(r)
  <1>1. PICK alone \in BOOLEAN :
          \E e \in Edits(alone, DOMAIN Rows(group), DOMAIN Rows(task)) :
            input' = [input EXCEPT ![r] = e]
    BY DEF Arrive
  <1>2. PICK e \in Edits(alone, DOMAIN Rows(group), DOMAIN Rows(task)) :
          input' = [input EXCEPT ![r] = e]
    BY <1>1
  <1>3. DOMAIN Rows(group) \in SUBSET Groups /\ DOMAIN Rows(task) \in SUBSET Tasks
    BY DEF TypeInv, GroupTable, TaskTable, Rows
  <1>4. e \in Input /\ Sent(e)
    <2>1. Edits(alone, DOMAIN Rows(group), DOMAIN Rows(task)) \subseteq Edit
      BY <1>3, BulkEditAssumption
    <2> QED
      BY <1>3, <2>1, EditIsInput DEF Sent
  <1>5. Sound(label, e, loc[r], tx[r])
    BY <1>4, RequestType DEF Sound, Labels
  <1>6. loc = [loc EXCEPT ![r] = loc[r]] /\ tx = [tx EXCEPT ![r] = tx[r]]
    BY DEF TypeInv
  <1>7. Still /\ pc[r] = "idle" /\ Turn(r, label, e, loc[r], tx[r])
    BY <1>2, <1>5, <1>6 DEF Arrive, Still, Turn
  <1> QED
    BY <1>4, <1>7 DEF Starts

LEMMA NatIsInt ==
  ASSUME NEW D, NEW f \in Partial(D, Nat)
  PROVE  f \in Partial(D, Int)
  <1>1. DOMAIN f \in SUBSET D /\ f \in [DOMAIN f -> Nat]
    BY PartialIs
  <1>2. f \in [DOMAIN f -> Int]
    BY <1>1
  <1> QED
    BY <1>1, <1>2, IsPartial

LEMMA RowsSeen ==
  ASSUME TypeInv, NEW r \in Requests
  PROVE  Rows(GroupsSeen(r)) \in Partial(Groups, Nat) /\ Rows(GroupsSeen(r)) \in Partial(Groups, Int)
  <1>1. Rows(GroupsSeen(r)) \in Partial(Groups, Nat)
    BY SeenType, RowsType DEF GroupTable
  <1> QED
    BY <1>1, NatIsInt

LEMMA ListOldGroupsKind ==
  ASSUME TypeInv, NEW r \in Requests, ListOldGroups(r)
  PROVE  Goes(r)
  <1> DEFINE rows == Rows(GroupsSeen(r))
             old == InOrder(rows)
             i == [input[r] EXCEPT !.delete = old]
  <1>1. old \in Seq(Groups)
    <2>1. rows \in Partial(Groups, Int)
      BY RowsSeen
    <2> HIDE DEF rows
    <2>2. old \in Seq(DOMAIN rows) /\ DOMAIN rows \in SUBSET Groups
      BY <2>1, PackType, PartialIs, BulkEditAssumption
    <2> HIDE DEF old
    <2> QED
      BY <2>2
  <1>2. input' = [input EXCEPT ![r] = i]
    BY DEF ListOldGroups, TypeInv
  <1> HIDE DEF old
  <1>3. i \in Input /\ i.update = input[r].update /\ i.create = input[r].create
    BY <1>1, RequestType DEF Input
  <1> HIDE DEF i
  <1>4. pc[r] = "list" /\ pc' = [pc EXCEPT ![r] = "wipe"] /\ loc' = [loc EXCEPT ![r] = NoLoc]
    BY DEF ListOldGroups
  <1>5. Sound("wipe", i, NoLoc, tx[r])
    BY <1>3, NoLocType, RequestType DEF Sound, Labels
  <1>6. Flows(r, "wipe", i, NoLoc)
    BY <1>3, <1>4 DEF Flows, Early
  <1>7. Still /\ tx' = [tx EXCEPT ![r] = tx[r]]
    BY DEF ListOldGroups, Still, TypeInv
  <1>8. Turn(r, "wipe", i, NoLoc, tx[r])
    BY <1>2, <1>4, <1>5, <1>7 DEF Turn
  <1> QED
    BY <1>6, <1>7, <1>8 DEF Goes

LEMMA EndWipeKind ==
  ASSUME TypeInv, NEW r \in Requests, EndWipe(r)
  PROVE  Goes(r)
  <1> DEFINE i == [input[r] EXCEPT !.delete = <<>>]
  <1>1. input' = [input EXCEPT ![r] = i]
    BY DEF EndWipe, TypeInv
  <1>2. i \in Input /\ i.update = input[r].update /\ i.create = input[r].create
    <2>1. <<>> \in Seq(Groups) /\ input[r] \in Input
      BY RequestType
    <2> QED
      BY <2>1, Zenon DEF Input
  <1> HIDE DEF i
  <1>3. pc[r] = "wipe" /\ pc' = [pc EXCEPT ![r] = "read"] /\ loc' = [loc EXCEPT ![r] = NoLoc]
    BY DEF EndWipe
  <1>4. Sound("read", i, NoLoc, tx[r])
    BY <1>2, NoLocType, RequestType DEF Sound, Labels
  <1>5. Flows(r, "read", i, NoLoc)
    BY <1>2, <1>3 DEF Flows, Early
  <1>6. Still /\ tx' = [tx EXCEPT ![r] = tx[r]]
    BY DEF EndWipe, Still, TypeInv
  <1>7. Turn(r, "read", i, NoLoc, tx[r])
    BY <1>1, <1>3, <1>4, <1>6 DEF Turn
  <1> QED
    BY <1>5, <1>6, <1>7 DEF Goes

LEMMA NoRows == <<>> \in Partial(Tasks, Row) /\ DOMAIN <<>> = {}
  <1>1. <<>> \in [{} -> Row] /\ {} \in SUBSET Tasks
    <2>1. <<>> = [x \in {} |-> None]
      OBVIOUS
    <2> QED
      BY <2>1
  <1> QED
    BY <1>1, IsPartial

LEMMA DeleteType ==
  ASSUME TypeInv, NEW r \in Requests, NEW g \in Groups
  PROVE  /\ Delete(r, g) \in Txs /\ Delete(r, g).suspect \subseteq Delete(r, g).wrote
         /\ Delete(r, g).wrote = tx[r].wrote \cup {g} \cup DOMAIN TasksOf(TasksSeen(r), g)
         /\ Delete(r, g).group = [tx[r].group EXCEPT ![g] = None]
         /\ \A i \in Tasks : Delete(r, g).task[i] =
              IF i \in DOMAIN TasksOf(TasksSeen(r), g) THEN None ELSE tx[r].task[i]
  <1> DEFINE t == WriteGroup(r, g, None)
             u == WriteTasks(t, r, g, <<>>)
             T == DOMAIN TasksOf(TasksSeen(r), g)
  <1>1. /\ t \in Txs /\ t.suspect \subseteq t.wrote /\ t.wrote = tx[r].wrote \cup {g}
        /\ t.group = [tx[r].group EXCEPT ![g] = None] /\ t.task = tx[r].task
    <2>1. WroteGroup(t, r, g, None)
      BY WriteGroupType
    <2> QED
      BY <2>1 DEF WroteGroup
  <1>2. Touched(r, g, <<>>) = T
    BY NoRows DEF Touched
  <1> HIDE DEF t, T
  <1>3. /\ u \in Txs /\ u.wrote = t.wrote \cup T /\ u.group = t.group /\ u.suspect = t.suspect
        /\ \A i \in Tasks : u.task[i] = IF i \notin T THEN t.task[i]
                                        ELSE IF i \in DOMAIN <<>> THEN <<>>[i] ELSE None
    <2>1. WroteTasks(u, t, r, g, <<>>)
      BY <1>1, NoRows, WriteTasksType
    <2> QED
      BY <1>2, <2>1 DEF WroteTasks
  <1>4. Delete(r, g) = u
    BY DEF Delete, t
  <1> HIDE DEF u
  <1> QED
    BY <1>1, <1>3, <1>4, NoRows DEF T

(* WipeGroup and DeleteTaskGroup.                                          *)
LEMMA StepRemoves ==
  ASSUME TypeInv, NEW r \in Requests, pc[r] \in {"wipe", "delete"}, NEW g \in Groups,
         ~LockedFor(r, g), Step(r, pc[r], Next1(loc[r]), Delete(r, g))
  PROVE  Removes(r)
  <1>1. input = [input EXCEPT ![r] = input[r]]
    BY DEF TypeInv
  <1>2. Next1(loc[r]) \in Locs /\ Next1(loc[r]).at = loc[r].at
    BY RequestType, LocType
  <1>3. Sound(pc[r], input[r], Next1(loc[r]), Delete(r, g))
    BY <1>2, RequestType, DeleteType DEF Sound
  <1>4. Still /\ Turn(r, pc[r], input[r], Next1(loc[r]), Delete(r, g))
    BY <1>1, <1>3 DEF Step, Still, Turn
  <1> QED
    BY <1>4 DEF Removes

LEMMA WipeGroupKind ==
  ASSUME TypeInv, NEW r \in Requests, WipeGroup(r)
  PROVE  Removes(r)
  <1> DEFINE g == input[r].delete[loc[r].next]
  <1>1. /\ pc[r] = "wipe" /\ loc[r].next \in DOMAIN input[r].delete /\ ~LockedFor(r, g)
        /\ Step(r, "wipe", Next1(loc[r]), Delete(r, g))
    BY DEF WipeGroup
  <1>2. g \in Groups
    BY <1>1, RequestType, InputType
  <1> QED
    BY <1>1, <1>2, StepRemoves

LEMMA Next1Flows ==
  ASSUME TypeInv, NEW r \in Requests, pc[r] # "idle"
  PROVE  /\ Flows(r, pc[r], input[r], Next1(loc[r]))
         /\ \A l : l.next = loc[r].next + 1 => Flows(r, pc[r], input[r], l)
  <1>1. Next1(loc[r]).next = loc[r].next + 1 /\ loc[r].next \in Nat
    BY RequestType, LocType
  <1>2. ASSUME NEW l, l.next = loc[r].next + 1 PROVE Flows(r, pc[r], input[r], l)
    <2>1. loc[r].next <= l.next
      BY <1>1, <1>2
    <2> QED
      BY <2>1 DEF Flows
  <1> QED
    BY <1>1, <1>2

LEMMA DeleteTaskGroupKind ==
  ASSUME TypeInv, NEW r \in Requests, DeleteTaskGroup(r)
  PROVE  Removes(r) \/ Goes(r)
  <1> DEFINE g == input[r].delete[loc[r].next]
  <1>1. /\ pc[r] = "delete" /\ loc[r].next \in DOMAIN input[r].delete /\ ~LockedFor(r, g)
        /\ Step(r, "delete", Next1(loc[r]), IF GroupsSeen(r)[g] = None THEN tx[r] ELSE Delete(r, g))
    BY DEF DeleteTaskGroup
  <1>2. g \in Groups
    BY <1>1, RequestType, InputType
  <1>3. CASE GroupsSeen(r)[g] = None
    <2>1. Step(r, "delete", Next1(loc[r]), tx[r])
      BY <1>1, <1>3
    <2>2. Next1(loc[r]) \in Locs /\ Flows(r, "delete", input[r], Next1(loc[r]))
      BY <1>1, RequestType, LocType, Next1Flows
    <2> QED
      BY <2>1, <2>2, StepGoes DEF Labels
  <1>4. CASE GroupsSeen(r)[g] # None
    <2>1. Step(r, "delete", Next1(loc[r]), Delete(r, g))
      BY <1>1, <1>4
    <2> QED
      BY <1>1, <1>2, <2>1, StepRemoves
  <1> QED
    BY <1>3, <1>4

GroupPacks == [at : Slices(Groups), old : Partial(Groups, Int), why : Whys]

LEMMA UnlinkAllType ==
  ASSUME NEW p \in GroupPacks, NEW ids, Asks(ids)
  PROVE  UnlinkAll(p, ids) \in GroupPacks
  <1>1. ASSUME NEW s \in GroupPacks, NEW id PROVE Unlink(s, id) \in GroupPacks
    <2>1. s.at \in Slices(Groups) /\ s.old \in Partial(Groups, Int)
      BY DEF GroupPacks
    <2>2. CASE Unlink(s, id) \in Refused(s)
      BY <2>2 DEF Refused, Reject, Panic, GroupPacks, Whys
    <2>3. CASE Unlinked(Unlink(s, id), s, Groups)
      BY <2>3 DEF Unlinked, GroupPacks
    <2> QED
      BY <2>1, <2>2, <2>3, UnlinkType, Zenon
  <1> DEFINE V == GroupPacks
             m == Len(ids)
  <1>2. UnlinkKeeps(V, ids)
    BY <1>1 DEF UnlinkKeeps
  <1> HIDE DEF V
  <1>3. PICK st : UnlinkRun(p, ids, st)
    BY <1>2, UnlinkSteps DEF V
  <1>4. st[0] \in V /\ \A k \in 1 .. m : st[k - 1] \in V => st[k] \in V
    BY <1>2, <1>3 DEF UnlinkKeeps, UnlinkRun, V
  <1>5. st[m] \in V
    BY <1>4, AllStepsStay DEF Asks
  <1> QED
    BY <1>3, <1>5 DEF UnlinkRun, V

LEMMA GetOldTaskGroupsKind ==
  ASSUME TypeInv, NEW r \in Requests, GetOldTaskGroups(r)
  PROVE  Goes(r) \/ Ends(r)
  <1> DEFINE rows == Rows(GroupsSeen(r))
             pack == UnlinkAll(Pack(rows), input[r].delete)
             l == [NoLoc EXCEPT !.at = pack.at, !.old = pack.old, !.why = pack.why, !.seen = rows]
  <1>1. rows \in Partial(Groups, Nat) /\ rows \in Partial(Groups, Int)
    BY RowsSeen
  <1>2. pc[r] = "read" /\ Proceed(r, l, "delete")
    BY DEF GetOldTaskGroups
  <1> HIDE DEF rows
  <1>3. Pack(rows) \in GroupPacks
    <2>1. /\ Pack(rows).at \in Slices(Groups)
          /\ Pack(rows) = [at |-> Pack(rows).at, old |-> rows, why |-> "ok"]
      BY <1>1, PackType, BulkEditAssumption
    <2>2. ASSUME NEW at \in Slices(Groups)
          PROVE  [at |-> at, old |-> rows, why |-> "ok"] \in GroupPacks
      BY <1>1 DEF GroupPacks, Whys
    <2> QED
      BY <2>1, <2>2, Zenon
  <1>4. pack \in GroupPacks
    BY <1>3, RequestType, InputType, UnlinkAllType
  <1> HIDE DEF pack
  <1>5. l \in Locs
    BY <1>1, <1>4, NoLocType DEF GroupPacks, Locs
  <1> HIDE DEF l
  <1>6. Flows(r, "delete", input[r], [l EXCEPT !.next = 1])
    BY <1>2 DEF Flows, Early
  <1> QED
    BY <1>2, <1>5, <1>6, ProceedKind DEF Labels

LEMMA ReorderUpdatedTaskGroupsKind ==
  ASSUME TypeInv, NEW r \in Requests, ReorderUpdatedTaskGroups(r)
  PROVE  Goes(r) \/ Ends(r)
  <1> DEFINE created == Len(input[r].create)
             deleted == Len(input[r].delete)
             updates == input[r].update
             grown == Grow(loc[r], created, deleted)
             l == Reorder(grown, updates)
  <1>1. pc[r] = "delete" /\ Proceed(r, l, "update")
    BY DEF ReorderUpdatedTaskGroups
  <1>2. /\ created \in Nat /\ deleted \in Nat /\ Asks(updates)
        /\ \A k \in DOMAIN updates : updates[k].idx \in Int
    BY RequestType, InputType DEF Asks
  <1>3. loc[r] \in Locs /\ loc[r].at \in Slices(Groups)
    BY RequestType, LocType
  <1> HIDE DEF created, deleted
  <1>4. grown = loc[r] \/ \E a \in Slices(Groups) : grown = [loc[r] EXCEPT !.at = a]
    BY <1>2, <1>3, GrowType
  <1>5. grown \in Locs
    BY <1>3, <1>4 DEF Locs
  <1> HIDE DEF grown, updates
  <1>6. grown.at \in Slices(Groups) /\ grown.old \in Partial(Groups, Int)
    BY <1>5, LocType
  <1>7. l \in Refused(grown) \cup WithSlice(grown, Groups)
    BY <1>2, <1>6, ReorderType
  <1> HIDE DEF l
  <1>8. l \in Locs
    BY <1>5, <1>7, PackIsLoc
  <1>9. Flows(r, "update", input[r], [l EXCEPT !.next = 1])
    BY <1>1 DEF Flows, Early
  <1> QED
    BY <1>1, <1>8, <1>9, ProceedKind DEF Labels

LEMMA CheckCreateTaskGroupsKind ==
  ASSUME TypeInv, NEW r \in Requests, CheckCreateTaskGroups(r)
  PROVE  Goes(r) \/ Ends(r)
  <1> DEFINE l == CheckCreates(loc[r], input[r].create)
  <1>1. pc[r] = "update" /\ Proceed(r, l, "create")
    BY DEF CheckCreateTaskGroups
  <1>2. loc[r] \in Locs
    BY RequestType
  <1>3. l \in Refused(loc[r])
    BY DEF CheckCreates, Refused
  <1>4. l.why = "ok" => InSlice(input[r], l)
    BY DEF CheckCreates, InSlice, Reject, Panic
  <1> HIDE DEF l
  <1>5. l \in Locs
    BY <1>2, <1>3, PackIsLoc
  <1>6. Flows(r, "create", input[r], [l EXCEPT !.next = 1])
    BY <1>1 DEF Flows, Early
  <1> QED
    BY <1>1, <1>4, <1>5, <1>6, ProceedKind DEF Labels

(* A statement on the row of a group, with no edit of its tasks.           *)
LEMMA StepIndexes ==
  ASSUME TypeInv, NEW r \in Requests, pc[r] \in {"update", "create", "clap"}, NEW g \in Groups,
         NEW idx \in Nat, ~LockedFor(r, g), NEW l \in Locs, Flows(r, pc[r], input[r], l),
         pc[r] = "create" => InSlice(input[r], l), Step(r, pc[r], l, WriteGroup(r, g, idx))
  PROVE  Indexes(r)
  <1>1. input = [input EXCEPT ![r] = input[r]]
    BY DEF TypeInv
  <1>2. WroteGroup(WriteGroup(r, g, idx), r, g, idx)
    BY WriteGroupType
  <1>3. Sound(pc[r], input[r], l, WriteGroup(r, g, idx))
    BY <1>2, RequestType DEF Sound, WroteGroup
  <1>4. Still /\ Turn(r, pc[r], input[r], l, WriteGroup(r, g, idx))
    BY <1>1, <1>3 DEF Step, Still, Turn
  <1> QED
    BY <1>4 DEF Indexes

LEMMA EditedRows ==
  ASSUME NEW g \in Groups, NEW rows, NEW made, NEW careful, NEW s \in Edited(g, rows, made, careful),
         s.why = "ok"
  PROVE  s.rows \in Partial(Tasks, Row)
  <1>1. /\ s.rows \in Partial(Tasks, TaskRow(g))
        /\ \A t \in DOMAIN s.rows : s.rows[t].idx \in Nat
    BY DEF Edited, EditPacks, Counted
  <1>2. DOMAIN s.rows \in SUBSET Tasks /\ s.rows \in [DOMAIN s.rows -> TaskRow(g)]
    BY <1>1, PartialIs
  <1>3. ASSUME NEW t \in DOMAIN s.rows PROVE s.rows[t] \in Row
    <2>1. s.rows[t] \in TaskRow(g) /\ s.rows[t].idx \in Nat
      BY <1>1, <1>2
    <2> QED
      BY <2>1 DEF TaskRow, Row
  <1>4. s.rows \in [DOMAIN s.rows -> Row]
    BY <1>2, <1>3
  <1> QED
    BY <1>2, <1>4, IsPartial

(* The edit of a group, then that of its tasks if there is one.            *)
LEMMA EditTasksKind ==
  ASSUME TypeInv, NEW r \in Requests, pc[r] \in {"update", "create"}, NEW g \in Groups,
         NEW idx \in Nat, ~LockedFor(r, g), NEW l \in Locs, l.next = loc[r].next + 1,
         pc[r] = "create" => InSlice(input[r], l), NEW req \in TasksEdit \cup {None},
         req # None => NestedIn(r, g, l, req.update),
         EditTasks(r, g, req, WriteGroup(r, g, idx), l)
  PROVE  Kinds(r)
  <1>1. Flows(r, pc[r], input[r], l)
    BY Next1Flows
  <1>2. CASE req = None
    <2>1. Step(r, pc[r], l, WriteGroup(r, g, idx))
      BY <1>2 DEF EditTasks
    <2>2. Indexes(r)
      BY <1>1, <2>1, StepIndexes
    <2> QED
      BY <2>2 DEF Kinds
  <1>3. CASE req # None
    <2> DEFINE rows == TasksOf(TasksSeen(r), g)
               t == WriteGroup(r, g, idx)
    <2>1. PICK ids \in Fresh(task, Len(req.create)) :
            \E s \in {BulkUpdate(rows, req, ids, g)} :
              IF s.why = "ok" THEN Step(r, pc[r], l, WriteTasks(t, r, g, s.rows))
              ELSE Proceed(r, [l EXCEPT !.why = s.why], pc[r])
      BY <1>3 DEF EditTasks
    <2> DEFINE s == BulkUpdate(rows, req, ids, g)
               made == Supplied(ids)
    <2>2. IF s.why = "ok" THEN Step(r, pc[r], l, WriteTasks(t, r, g, s.rows))
          ELSE Proceed(r, [l EXCEPT !.why = s.why], pc[r])
      BY <2>1
    <2>3. ids \in [1 .. Len(req.create) -> Unused(task)]
      BY DEF Fresh
    <2>4. ids \in [1 .. Len(req.create) -> Tasks] /\ Free(made)
      <3>1. \A k \in Unused(task) : /\ k \in Tasks /\ task[k] = None
                                    /\ \A q \in Requests : k \notin tx[q].wrote
        BY DEF Unused, TypeInv, TaskTable
      <3> QED
        BY <2>3, <3>1 DEF Supplied, Free
    <2>5. rows \in Partial(Tasks, TaskRow(g)) /\ IdxNat(rows)
      BY SeenType, TasksOfType
    <2> HIDE DEF rows
    <2>6. s \in Edited(g, rows, made, EachOnce(req.update))
      BY <1>3, <2>4, <2>5, BulkUpdateType
    <2> HIDE DEF s, made, t
    <2>7. s.why \in Whys
      BY <2>6 DEF Edited, EditPacks
    <2>8. CASE s.why = "ok"
      <3> DEFINE u == WriteTasks(t, r, g, s.rows)
      <3>1. s.rows \in Partial(Tasks, Row)
        BY <2>6, <2>8, EditedRows
      <3>2. WroteGroup(t, r, g, idx)
        BY WriteGroupType DEF t
      <3>3. WroteTasks(u, t, r, g, s.rows)
        BY <3>1, <3>2, WriteTasksType DEF WroteGroup
      <3>4. input = [input EXCEPT ![r] = input[r]]
        BY DEF TypeInv
      <3>5. Step(r, pc[r], l, u)
        BY <2>2, <2>8
      <3> HIDE DEF u
      <3>6. u \in Txs /\ u.suspect \subseteq u.wrote
        BY <3>2, <3>3 DEF WroteGroup, WroteTasks
      <3>7. Sound(pc[r], input[r], l, u)
        BY <3>6, RequestType DEF Sound
      <3>8. Still /\ Turn(r, pc[r], input[r], l, u)
        BY <3>4, <3>5, <3>7 DEF Step, Still, Turn
      <3>9. Nests(r)
        BY <1>3, <2>4, <2>6, <3>1, <3>8, Zenon DEF Nests, rows, u, t
      <3> QED
        BY <3>9 DEF Kinds
    <2>9. CASE s.why # "ok"
      <3>1. Proceed(r, [l EXCEPT !.why = s.why], pc[r])
        BY <2>2, <2>9
      <3>2. [l EXCEPT !.why = s.why] \in Locs /\ [l EXCEPT !.why = s.why].why = s.why
        BY <2>7, LocType DEF Locs
      <3> DEFINE p == [l EXCEPT !.why = s.why]
      <3> HIDE DEF p
      <3>3. Goes(r) \/ Ends(r)
        BY <2>9, <3>1, <3>2, RequestType, ProceedKind DEF p
      <3> QED
        BY <3>3 DEF Kinds
    <2> QED
      BY <2>8, <2>9
  <1> QED
    BY <1>2, <1>3

LEMMA UpdateTaskGroupKind ==
  ASSUME TypeInv, NEW r \in Requests, UpdateTaskGroup(r)
  PROVE  Kinds(r)
  <1> DEFINE u == input[r].update[loc[r].next]
             item == Item(u.id, u.idx)
             l == Put(loc[r], item)
  <1>1. /\ pc[r] = "update" /\ loc[r].next \in DOMAIN input[r].update /\ ~LockedFor(r, u.id)
        /\ IF GroupsSeen(r)[u.id] = None THEN Rollback(r)
           ELSE IF l.why = "panic" THEN Goto(r, "panic", l)
           ELSE EditTasks(r, u.id, u.tasks, WriteGroup(r, u.id, u.idx), Next1(l))
    BY DEF UpdateTaskGroup
  <1>2. u.id \in Groups /\ u.idx \in Int /\ u.tasks \in TasksEdit \cup {None}
    BY <1>1, RequestType, InputType
  <1>3. item \in Items(Groups) /\ item.idx = u.idx
    <2> HIDE DEF u
    <2> QED
      BY <1>2 DEF Item, Items
  <1>4. loc[r] \in Locs /\ loc[r].at \in Slices(Groups)
    BY RequestType, LocType
  <1> HIDE DEF item
  <1>5. l = Panic(loc[r]) \/ (u.idx \in Nat /\ l \in WithSlice(loc[r], Groups))
    BY <1>3, <1>4, PutType
  <1>6. l \in Locs /\ l.next = loc[r].next
    BY <1>4, <1>5, PackIsLoc DEF Refused
  <1>7. Panic(loc[r]).why = "panic"
    BY <1>4 DEF Panic, Locs
  <1> HIDE DEF l
  <1>8. CASE GroupsSeen(r)[u.id] = None
    BY <1>1, <1>8, RollbackEnds DEF Kinds
  <1>9. CASE GroupsSeen(r)[u.id] # None /\ l.why = "panic"
    <2>1. Step(r, "panic", [l EXCEPT !.next = 1], tx[r])
      BY <1>1, <1>9 DEF Goto
    <2>2. [l EXCEPT !.next = 1] \in Locs
      BY <1>6, LocType
    <2>3. Flows(r, "panic", input[r], [l EXCEPT !.next = 1])
      BY <1>1 DEF Flows, Early
    <2>4. Goes(r)
      BY <2>1, <2>2, <2>3, StepGoes DEF Labels
    <2> QED
      BY <2>4 DEF Kinds
  <1>10. CASE GroupsSeen(r)[u.id] # None /\ l.why # "panic"
    <2>1. EditTasks(r, u.id, u.tasks, WriteGroup(r, u.id, u.idx), Next1(l))
      BY <1>1, <1>10
    <2>2. u.idx \in Nat
      BY <1>5, <1>7, <1>10
    <2>3. Next1(l) \in Locs /\ Next1(l).next = loc[r].next + 1
      BY <1>6, LocType
    <2>4. u.tasks # None => NestedIn(r, u.id, Next1(l), u.tasks.update)
      BY <1>1, <2>3 DEF NestedIn
    <2> HIDE DEF u
    <2> QED
      BY <1>1, <1>2, <2>1, <2>2, <2>3, <2>4, EditTasksKind DEF u
  <1> QED
    BY <1>8, <1>9, <1>10

LEMMA CreateTaskGroupKind ==
  ASSUME TypeInv, NEW r \in Requests, CreateTaskGroup(r)
  PROVE  Kinds(r)
  <1> DEFINE c == input[r].create[loc[r].next]
  <1>1. PICK ids \in Fresh(group, 1) :
          EditTasks(r, ids[1], c.tasks, WriteGroup(r, ids[1], c.idx),
                    Next1(Put(loc[r], Item(ids[1], c.idx))))
    BY DEF CreateTaskGroup
  <1> DEFINE g == ids[1]
             item == Item(g, c.idx)
             l == Put(loc[r], item)
  <1>2. pc[r] = "create" /\ loc[r].next \in DOMAIN input[r].create
    BY DEF CreateTaskGroup
  <1>3. /\ c.idx \in Int /\ c.tasks \in TasksEdit \cup {None}
        /\ c.tasks # None => c.tasks.update = <<>>
    BY <1>2, RequestType, InputType
  <1>4. g \in Groups /\ \A q \in Requests : g \notin tx[q].wrote
    <2>1. 1 \in 1 .. 1
      OBVIOUS
    <2>2. g \in Unused(group)
      BY <2>1 DEF Fresh
    <2> HIDE DEF g
    <2> QED
      BY <2>2 DEF Unused, TypeInv, GroupTable
  <1>5. ~LockedFor(r, g)
    BY <1>4 DEF LockedFor
  <1>6. loc[r] \in Locs /\ loc[r].at \in Slices(Groups) /\ InSlice(input[r], loc[r])
    BY <1>2, RequestType, LocType
  <1>7. item \in Items(Groups) /\ item.idx = c.idx /\ c.idx \in DOMAIN loc[r].at
    <2>1. c.idx \in DOMAIN loc[r].at
      BY <1>2, <1>6 DEF InSlice
    <2> HIDE DEF c, g
    <2> QED
      BY <1>3, <1>4, <2>1 DEF Item, Items
  <1>8. EditTasks(r, g, c.tasks, WriteGroup(r, g, c.idx), Next1(l))
    BY <1>1
  <1> HIDE DEF item, g, c
  <1>9. c.idx \in Nat /\ l \in WithSlice(loc[r], Groups)
    BY <1>6, <1>7, PutIn
  <1> HIDE DEF l
  <1>10. l \in Locs /\ DOMAIN l.at = DOMAIN loc[r].at /\ l.next = loc[r].next
    BY <1>6, <1>9, PackIsLoc
  <1>11. Next1(l) \in Locs /\ Next1(l).next = loc[r].next + 1 /\ Next1(l).at = l.at
    BY <1>10, LocType
  <1>12. InSlice(input[r], Next1(l))
    BY <1>6, <1>10, <1>11 DEF InSlice
  <1>13. c.tasks # None => NestedIn(r, g, Next1(l), c.tasks.update)
    BY <1>2, <1>3, <1>4 DEF NestedIn
  <1> QED
    BY <1>2, <1>3, <1>4, <1>5, <1>8, <1>9, <1>11, <1>12, <1>13, EditTasksKind

LEMMA StartClapKind ==
  ASSUME TypeInv, NEW r \in Requests, StartClap(r)
  PROVE  Goes(r)
  <1> DEFINE claps == Claps(loc[r])
             l == [loc[r] EXCEPT !.claps = claps]
  <1>1. pc[r] = "create" /\ Step(r, "clap", [l EXCEPT !.next = 1], tx[r])
    BY DEF StartClap, Goto
  <1>2. loc[r] \in Locs /\ claps \in Seq([id : Groups, idx : Nat])
    BY RequestType, LocType, ClapsType
  <1> HIDE DEF claps
  <1>3. l \in Locs
    BY <1>2 DEF Locs
  <1> HIDE DEF l
  <1>4. [l EXCEPT !.next = 1] \in Locs
    BY <1>3, LocType
  <1>5. Flows(r, "clap", input[r], [l EXCEPT !.next = 1])
    BY <1>1 DEF Flows, Early
  <1> QED
    BY <1>1, <1>4, <1>5, StepGoes DEF Labels

LEMMA ClapPackKind ==
  ASSUME TypeInv, NEW r \in Requests, ClapPack(r)
  PROVE  Ends(r) \/ Indexes(r)
  <1> DEFINE item == loc[r].claps[loc[r].next]
  <1>1. /\ pc[r] = "clap" /\ loc[r].next \in DOMAIN loc[r].claps /\ ~LockedFor(r, item.id)
        /\ IF GroupsSeen(r)[item.id] = None THEN Rollback(r)
           ELSE Step(r, "clap", Next1(loc[r]), WriteGroup(r, item.id, item.idx))
    BY DEF ClapPack
  <1>2. item \in [id : Groups, idx : Nat]
    <2>1. loc[r].claps \in Seq([id : Groups, idx : Nat])
      BY RequestType, LocType
    <2>2. Asks(loc[r].claps) /\ \A k \in 1 .. Len(loc[r].claps) :
            loc[r].claps[k] \in [id : Groups, idx : Nat]
      BY <2>1, SeqIs, Zenon
    <2> QED
      BY <1>1, <2>2 DEF Asks
  <1> HIDE DEF item
  <1>3. Next1(loc[r]) \in Locs /\ Flows(r, "clap", input[r], Next1(loc[r]))
    BY <1>1, RequestType, LocType, Next1Flows
  <1>4. CASE GroupsSeen(r)[item.id] = None
    BY <1>1, <1>4, RollbackEnds
  <1>5. CASE GroupsSeen(r)[item.id] # None
    <2>1. Step(r, "clap", Next1(loc[r]), WriteGroup(r, item.id, item.idx))
      BY <1>1, <1>5
    <2>2. item.id \in Groups /\ item.idx \in Nat
      BY <1>2
    <2> QED
      BY <1>1, <1>3, <2>1, <2>2, StepIndexes
  <1> QED
    BY <1>4, <1>5

LEMMA GetNewTaskGroupsKind ==
  ASSUME TypeInv, NEW r \in Requests, GetNewTaskGroups(r)
  PROVE  Goes(r) \/ Ends(r)
  <1>1. /\ pc[r] = "clap"
        /\ IF GetTasksWorks(Rows(TasksSeen(r))) THEN Goto(r, "commit", loc[r]) ELSE Rollback(r)
    BY DEF GetNewTaskGroups
  <1>2. CASE GetTasksWorks(Rows(TasksSeen(r)))
    <2> DEFINE l == [loc[r] EXCEPT !.next = 1]
    <2>1. Step(r, "commit", l, tx[r])
      BY <1>1, <1>2 DEF Goto
    <2>2. l \in Locs
      BY RequestType, LocType
    <2> HIDE DEF l
    <2>3. Flows(r, "commit", input[r], l)
      BY <1>1 DEF Flows, Early
    <2> QED
      BY <2>1, <2>2, <2>3, StepGoes DEF Labels
  <1>3. CASE ~GetTasksWorks(Rows(TasksSeen(r)))
    BY <1>1, <1>3, RollbackEnds
  <1> QED
    BY <1>2, <1>3

LEMMA CommitKind ==
  ASSUME TypeInv, NEW r \in Requests, Commit(r)
  PROVE  Commits(r) \/ Ends(r)
  <1>1. Sound("idle", NoEdit, NoLoc, NoTx)
    BY NoEditType, NoLocType, NoTxType DEF Sound, Labels
  <1>2. Turn(r, "idle", NoEdit, NoLoc, NoTx)
    BY <1>1 DEF Commit, End, Turn
  <1>3. CASE OrderIsUnique(r)
    BY <1>2, <1>3 DEF Commit, CommitUnique, Commits
  <1>4. CASE ~OrderIsUnique(r)
    BY <1>2, <1>4 DEF Commit, Ends, Still
  <1> QED
    BY <1>3, <1>4

Acts(r) == HandleBulkUpdate(r) \/ HandleCreate(r) \/ Serve(r) \/ Fail(r)

LEMMA ActsKind ==
  ASSUME TypeInv, NEW r \in Requests, Acts(r)
  PROVE  Kinds(r)
  <1>1. CASE HandleBulkUpdate(r) \/ HandleCreate(r)
    BY <1>1, ArriveKind DEF HandleBulkUpdate, HandleCreate, Kinds
  <1>2. CASE Fail(r) \/ Recover(r) \/ DeadlockVictim(r)
    BY <1>2, RollbackEnds DEF Fail, Recover, DeadlockVictim, Kinds
  <1>3. CASE ListOldGroups(r) \/ WipeGroup(r) \/ EndWipe(r)
    BY <1>3, ListOldGroupsKind, WipeGroupKind, EndWipeKind DEF Kinds
  <1>4. CASE GetOldTaskGroups(r) \/ DeleteTaskGroup(r) \/ ReorderUpdatedTaskGroups(r)
    BY <1>4, GetOldTaskGroupsKind, DeleteTaskGroupKind, ReorderUpdatedTaskGroupsKind DEF Kinds
  <1>5. CASE UpdateTaskGroup(r) \/ CheckCreateTaskGroups(r) \/ CreateTaskGroup(r)
    BY <1>5, UpdateTaskGroupKind, CheckCreateTaskGroupsKind, CreateTaskGroupKind DEF Kinds
  <1>6. CASE StartClap(r) \/ ClapPack(r) \/ GetNewTaskGroups(r) \/ Commit(r)
    BY <1>6, StartClapKind, ClapPackKind, GetNewTaskGroupsKind, CommitKind DEF Kinds
  <1> QED
    BY <1>1, <1>2, <1>3, <1>4, <1>5, <1>6 DEF Acts, Serve

LEMMA StepKinds ==
  ASSUME TypeInv, [Next]_vars
  PROVE  UNCHANGED vars \/ \E r \in Requests : Kinds(r)
  <1>1. CASE Next
    <2>1. PICK r \in Requests : Acts(r)
      BY <1>1 DEF Next, Acts
    <2> QED
      BY <2>1, ActsKind
  <1> QED
    BY <1>1

-----------------------------------------------------------------------------
(* Type correctness.                                                       *)
LEMMA InitType == Init => TypeInv
  <1> SUFFICES ASSUME Init PROVE TypeInv
    OBVIOUS
  <1>1. group \in GroupTable /\ task \in TaskTable
    BY DEF Init, GroupTable, TaskTable
  <1>2. Sound("idle", NoEdit, NoLoc, NoTx)
    BY NoEditType, NoLocType, NoTxType DEF Sound, Labels
  <1> QED
    BY <1>1, <1>2 DEF Init, TypeInv

LEMMA TurnType ==
  ASSUME TypeInv, NEW r \in Requests, NEW p, NEW i, NEW l, NEW t, Turn(r, p, i, l, t),
         group' \in GroupTable, task' \in TaskTable
  PROVE  TypeInv'
  <1>1. /\ pc' = [q \in Requests |-> IF q = r THEN p ELSE pc[q]]
        /\ input' = [q \in Requests |-> IF q = r THEN i ELSE input[q]]
        /\ loc' = [q \in Requests |-> IF q = r THEN l ELSE loc[q]]
        /\ tx' = [q \in Requests |-> IF q = r THEN t ELSE tx[q]]
    BY DEF Turn, TypeInv
  <1>2. /\ pc' = [q \in Requests |-> pc'[q]] /\ input' = [q \in Requests |-> input'[q]]
        /\ loc' = [q \in Requests |-> loc'[q]] /\ tx' = [q \in Requests |-> tx'[q]]
    BY <1>1
  <1>3. ASSUME NEW q \in Requests PROVE Sound(pc'[q], input'[q], loc'[q], tx'[q])
    <2>1. CASE q = r
      BY <1>1, <2>1 DEF Turn
    <2>2. CASE q # r
      BY <1>1, <2>2 DEF TypeInv
    <2> QED
      BY <2>1, <2>2
  <1> QED
    BY <1>2, <1>3 DEF TypeInv, Sound

(* A step of a request is a turn of it, which changes the tables only when *)
(* it commits.                                                             *)
LEMMA KindsTurn ==
  ASSUME NEW r \in Requests, Kinds(r)
  PROVE  \E p, i, l, t : Turn(r, p, i, l, t) /\ (Still \/ Commits(r))
  <1>1. CASE Starts(r)
    BY <1>1, Zenon DEF Starts
  <1>2. CASE Ends(r)
    BY <1>2, Zenon DEF Ends
  <1>3. CASE Goes(r)
    BY <1>3, Zenon DEF Goes
  <1>4. CASE Removes(r)
    BY <1>4, Zenon DEF Removes
  <1>5. CASE Indexes(r)
    BY <1>5, Zenon DEF Indexes
  <1>6. CASE Nests(r)
    BY <1>6, Zenon DEF Nests
  <1>7. CASE Commits(r)
    <2>1. Turn(r, "idle", NoEdit, NoLoc, NoTx)
      BY <1>7 DEF Commits
    <2> QED
      BY <1>7, <2>1
  <1> QED
    BY <1>1, <1>2, <1>3, <1>4, <1>5, <1>6, <1>7 DEF Kinds

LEMMA StepType == TypeInv /\ [Next]_vars => TypeInv'
  <1> SUFFICES ASSUME TypeInv, [Next]_vars PROVE TypeInv'
    OBVIOUS
  <1>1. CASE UNCHANGED vars
    BY <1>1 DEF vars, TypeInv
  <1>2. ASSUME NEW r \in Requests, Kinds(r) PROVE TypeInv'
    <2>1. PICK p, i, l, t : Turn(r, p, i, l, t) /\ (Still \/ Commits(r))
      BY <1>2, KindsTurn
    <2>2. group' \in GroupTable /\ task' \in TaskTable
      BY <2>1, SeenType DEF Still, Commits, TypeInv
    <2> QED
      BY <2>1, <2>2, TurnType
  <1> QED
    BY <1>1, <1>2, StepKinds

LEMMA TypeIsOK == TypeInv /\ TasksHaveGroups => TypeOK
  <1> SUFFICES ASSUME TypeInv, TasksHaveGroups PROVE TypeOK
    OBVIOUS
  <1>1. group \in [Groups -> Nat \cup {None}]
    BY DEF TypeInv, GroupTable
  <1>2. ASSUME NEW t \in Tasks, task[t] # None
        PROVE  task[t].group \in Groups /\ task[t].idx \in Nat /\ Len(task[t].hints) <= MaxHints
    <2>1. task[t] \in Row
      BY <1>2 DEF TypeInv, TaskTable
    <2> QED
      BY <2>1 DEF Row
  <1>3. pc \in [Requests -> Labels]
    BY DEF TypeInv, Sound
  <1>4. ASSUME NEW r \in Requests PROVE tx[r].suspect \subseteq tx[r].wrote \cap Groups
    BY RequestType DEF Txs
  <1> QED
    BY <1>1, <1>2, <1>3, <1>4 DEF TypeOK, Labels

-----------------------------------------------------------------------------
(* Who has written what.                                                   *)
RowIn(t, k) == IF k \in t.wrote THEN t.task[k] ELSE task[k]
IndexIn(t, g) == IF g \in t.wrote THEN t.group[g] ELSE group[g]

(* A written task was and is in a group whose row is locked.               *)
Covers(t) ==
  \A k \in Tasks \cap t.wrote :
    /\ task[k] # None => task[k].group \in t.wrote
    /\ t.task[k] # None => t.task[k].group \in t.wrote
Apart(r, t) == \A q \in Requests \ {r} : t.wrote \cap tx[q].wrote = {}

RowsHaveOneWriter ==
  \A r \in Requests : Apart(r, tx[r]) /\ Covers(tx[r])
Locked ==
  /\ RowsHaveOneWriter
  /\ \A r \in Requests : pc[r] = "idle" => tx[r].wrote = {}

(* No task that a transaction sees is without its group.                   *)
Whole(t) == \A k \in Tasks : RowIn(t, k) # None => IndexIn(t, RowIn(t, k).group) # None
AllWhole == TasksHaveGroups /\ \A r \in Requests : Whole(tx[r])

(* u is what r's transaction becomes when it writes group g and its tasks. *)
Rewritten(u, r, g, idx, rows) ==
  /\ u.wrote = tx[r].wrote \cup {g} \cup Touched(r, g, rows)
  /\ u.group = [tx[r].group EXCEPT ![g] = idx]
  /\ \A i \in Tasks : u.task[i] = IF i \notin Touched(r, g, rows) THEN tx[r].task[i]
                                  ELSE IF i \in DOMAIN rows THEN rows[i] ELSE None
OfGroup(r, g, rows, made) ==
  /\ DOMAIN rows \subseteq DOMAIN TasksOf(TasksSeen(r), g) \cup made
  /\ DOMAIN rows \subseteq Tasks /\ \A k \in DOMAIN rows : rows[k].group = g

LEMMA RemovesRewrites ==
  ASSUME TypeInv, NEW r \in Requests, NEW g \in Groups
  PROVE  Rewritten(Delete(r, g), r, g, None, <<>>) /\ OfGroup(r, g, <<>>, {})
  <1>1. Touched(r, g, <<>>) = DOMAIN TasksOf(TasksSeen(r), g)
    BY NoRows DEF Touched
  <1>2. OfGroup(r, g, <<>>, {})
    BY NoRows DEF OfGroup
  <1> QED
    BY <1>1, <1>2, DeleteType, NoRows DEF Rewritten

LEMMA NestsRewrites ==
  ASSUME TypeInv, NEW r \in Requests, NEW g \in Groups, NEW idx \in Nat, NEW made, NEW careful,
         NEW s \in Edited(g, TasksOf(TasksSeen(r), g), made, careful), s.rows \in Partial(Tasks, Row)
  PROVE  /\ Rewritten(WriteTasks(WriteGroup(r, g, idx), r, g, s.rows), r, g, idx, s.rows)
         /\ OfGroup(r, g, s.rows, made)
  <1> DEFINE t == WriteGroup(r, g, idx)
             u == WriteTasks(t, r, g, s.rows)
  <1>1. WroteGroup(t, r, g, idx)
    BY WriteGroupType
  <1>2. WroteTasks(u, t, r, g, s.rows)
    BY <1>1, WriteTasksType DEF WroteGroup
  <1> HIDE DEF t, u
  <1>3. Rewritten(u, r, g, idx, s.rows)
    BY <1>1, <1>2 DEF WroteGroup, WroteTasks, Rewritten
  <1>4. DOMAIN s.rows \subseteq DOMAIN TasksOf(TasksSeen(r), g) \cup made
    BY DEF Edited
  <1>5. DOMAIN s.rows \subseteq Tasks /\ \A k \in DOMAIN s.rows : s.rows[k].group = g
    <2>1. s.rows \in Partial(Tasks, TaskRow(g))
      BY DEF Edited, EditPacks
    <2>2. DOMAIN s.rows \in SUBSET Tasks /\ s.rows \in [DOMAIN s.rows -> TaskRow(g)]
      BY <2>1, PartialIs
    <2>3. ASSUME NEW k \in DOMAIN s.rows PROVE s.rows[k].group = g
      <3>1. s.rows[k] \in TaskRow(g)
        BY <2>2
      <3> QED
        BY <3>1 DEF TaskRow
    <2> QED
      BY <2>2, <2>3
  <1> QED
    BY <1>3, <1>4, <1>5 DEF OfGroup, t, u

(* What is touched was seen in the group, or belonged to nobody.           *)
LEMMA TouchedIs ==
  ASSUME TypeInv, NEW r \in Requests, NEW g \in Groups, NEW rows, NEW made, OfGroup(r, g, rows, made)
  PROVE  /\ Touched(r, g, rows) \subseteq Tasks
         /\ \A k \in Touched(r, g, rows) :
              \/ RowIn(tx[r], k) # None /\ RowIn(tx[r], k).group = g
              \/ k \in made
         /\ \A k \in Tasks : RowIn(tx[r], k) # None /\ RowIn(tx[r], k).group = g
                               => k \in Touched(r, g, rows)
  <1>1. /\ TasksSeen(r) \in TaskTable
        /\ \A k \in Tasks : TasksSeen(r)[k] = RowIn(tx[r], k)
    BY SeenType DEF RowIn
  <1>2. DOMAIN TasksOf(TasksSeen(r), g) =
          {k \in Tasks : TasksSeen(r)[k] # None /\ TasksSeen(r)[k].group = g}
    BY <1>1, TasksOfType
  <1> QED
    BY <1>1, <1>2 DEF Touched, OfGroup

LEMMA RewritesApart ==
  ASSUME TypeInv, Locked, NEW r \in Requests, NEW g \in Groups, ~LockedFor(r, g), NEW idx,
         NEW rows, NEW made, OfGroup(r, g, rows, made), Free(made),
         NEW u, Rewritten(u, r, g, idx, rows)
  PROVE  Apart(r, u) /\ Covers(u)
  <1> DEFINE T == Touched(r, g, rows)
             W == tx[r].wrote
  <1>1. u.wrote = W \cup {g} \cup T
    BY DEF Rewritten
  <1>2. /\ \A k \in T : \/ RowIn(tx[r], k) # None /\ RowIn(tx[r], k).group = g
                        \/ k \in made
        /\ T \subseteq Tasks
    BY TouchedIs
  <1>3. Apart(r, tx[r]) /\ Covers(tx[r]) /\ \A q \in Requests : Apart(q, tx[q]) /\ Covers(tx[q])
    BY DEF Locked, RowsHaveOneWriter
  <1> HIDE DEF T
  <1>4. ASSUME NEW q \in Requests \ {r}, NEW x \in u.wrote, x \in tx[q].wrote PROVE FALSE
    <2>1. x \notin W
      BY <1>3, <1>4 DEF Apart
    <2>2. g \notin tx[q].wrote
      BY DEF LockedFor
    <2>3. x \in T
      BY <1>1, <1>4, <2>1, <2>2
    <2>4. x \notin made
      BY <1>4 DEF Free
    <2>5. RowIn(tx[r], x) # None /\ RowIn(tx[r], x).group = g
      BY <1>2, <2>3, <2>4
    <2>6. task[x] # None /\ task[x].group = g
      BY <2>1, <2>5 DEF RowIn
    <2>7. task[x].group \in tx[q].wrote
      BY <1>2, <1>3, <1>4, <2>3, <2>6 DEF Covers
    <2> QED
      BY <2>2, <2>6, <2>7
  <1>5. ASSUME NEW k \in Tasks \cap u.wrote
        PROVE  /\ task[k] # None => task[k].group \in u.wrote
               /\ u.task[k] # None => u.task[k].group \in u.wrote
    <2>1. k # g
      BY BulkEditAssumption
    <2>2. CASE k \in T
      <3>1. u.task[k] # None => u.task[k].group = g
        BY <2>2 DEF Rewritten, OfGroup, T
      <3>2. CASE k \in W
        BY <1>1, <1>3, <3>1, <3>2 DEF Covers
      <3>3. CASE k \notin W
        <4>1. task[k] # None => task[k].group = g
          BY <1>2, <2>2, <3>3 DEF RowIn, Free
        <4> QED
          BY <1>1, <3>1, <4>1
      <3> QED
        BY <3>2, <3>3
    <2>3. CASE k \notin T
      <3>1. k \in W /\ u.task[k] = tx[r].task[k]
        BY <1>1, <2>1, <2>3 DEF Rewritten, T
      <3> QED
        BY <1>1, <1>3, <3>1 DEF Covers
    <2> QED
      BY <2>2, <2>3
  <1> QED
    BY <1>4, <1>5 DEF Apart, Covers

LEMMA RewritesWhole ==
  ASSUME TypeInv, NEW r \in Requests, Whole(tx[r]), NEW g \in Groups, NEW idx \in Nat \cup {None},
         NEW rows, NEW made, OfGroup(r, g, rows, made), DOMAIN rows # {} => idx # None,
         NEW u, Rewritten(u, r, g, idx, rows)
  PROVE  Whole(u)
  <1> DEFINE T == Touched(r, g, rows)
             W == tx[r].wrote
  <1>1. u.wrote = W \cup {g} \cup T /\ u.group = [tx[r].group EXCEPT ![g] = idx]
    BY DEF Rewritten
  <1>2. /\ T \subseteq Tasks
        /\ \A k \in Tasks : RowIn(tx[r], k) # None /\ RowIn(tx[r], k).group = g => k \in T
    BY TouchedIs
  <1>3. tx[r].group \in GroupTable /\ tx[r].task \in TaskTable /\ task \in TaskTable
    BY RequestType DEF Txs, TypeInv
  <1>4. IndexIn(u, g) = idx
    BY <1>1, <1>3 DEF IndexIn, GroupTable
  <1> SUFFICES ASSUME NEW k \in Tasks, RowIn(u, k) # None
               PROVE  IndexIn(u, RowIn(u, k).group) # None
    BY DEF Whole
  <1>5. CASE k \in T
    <2>1. k \in u.wrote /\ RowIn(u, k) = u.task[k]
      BY <1>1, <1>5 DEF RowIn
    <2>2. k \in DOMAIN rows /\ u.task[k] = rows[k] /\ rows[k].group = g
      BY <1>5, <2>1 DEF Rewritten, OfGroup
    <2> QED
      BY <1>4, <2>1, <2>2
  <1>6. CASE k \notin T
    <2>1. k # g
      BY BulkEditAssumption
    <2>2. RowIn(u, k) = RowIn(tx[r], k)
      BY <1>1, <1>6, <2>1 DEF RowIn, Rewritten
    <2> DEFINE h == RowIn(tx[r], k).group
    <2>3. h # g
      BY <1>2, <1>6, <2>2
    <2>4. IndexIn(tx[r], h) # None
      BY <2>2 DEF Whole
    <2>5. h \in Groups
      <3>1. RowIn(tx[r], k) \in Row
        BY <1>3, <2>2 DEF RowIn, TaskTable
      <3> QED
        BY <3>1 DEF Row
    <2>6. IndexIn(u, h) = IndexIn(tx[r], h)
      <3>1. h \in u.wrote <=> h \in W
        BY <1>1, <1>2, <2>3, <2>5, BulkEditAssumption
      <3>2. u.group[h] = tx[r].group[h]
        BY <1>1, <1>3, <2>3, <2>5 DEF GroupTable
      <3> QED
        BY <3>1, <3>2 DEF IndexIn
    <2> QED
      BY <2>2, <2>4, <2>6
  <1> QED
    BY <1>5, <1>6

(* A statement on the row of a group is a rewriting of no tasks.           *)
LEMMA IndexesApart ==
  ASSUME TypeInv, Locked, NEW r \in Requests, NEW g \in Groups, ~LockedFor(r, g),
         NEW idx \in Nat, NEW u, WroteGroup(u, r, g, idx)
  PROVE  Apart(r, u) /\ Covers(u)
  <1>1. u.wrote = tx[r].wrote \cup {g} /\ u.task = tx[r].task /\ g \notin Tasks
    BY BulkEditAssumption DEF WroteGroup
  <1>2. Apart(r, tx[r]) /\ Covers(tx[r])
    BY DEF Locked, RowsHaveOneWriter
  <1>3. \A q \in Requests \ {r} : g \notin tx[q].wrote
    BY DEF LockedFor
  <1> QED
    BY <1>1, <1>2, <1>3 DEF Apart, Covers

LEMMA IndexesWhole ==
  ASSUME TypeInv, NEW r \in Requests, Whole(tx[r]), NEW g \in Groups, NEW idx \in Nat,
         NEW u, WroteGroup(u, r, g, idx)
  PROVE  Whole(u)
  <1>1. /\ u.wrote = tx[r].wrote \cup {g} /\ u.task = tx[r].task /\ g \notin Tasks
        /\ u.group = [tx[r].group EXCEPT ![g] = idx]
    BY BulkEditAssumption DEF WroteGroup
  <1>2. tx[r].group \in GroupTable /\ idx # None
    BY RequestType, BulkEditAssumption DEF Txs
  <1>3. ASSUME NEW k \in Tasks PROVE RowIn(u, k) = RowIn(tx[r], k)
    BY <1>1 DEF RowIn
  <1>4. ASSUME NEW h, IndexIn(tx[r], h) # None PROVE IndexIn(u, h) # None
    <2>1. CASE h = g
      BY <1>1, <1>2, <2>1 DEF IndexIn, GroupTable
    <2>2. CASE h # g
      BY <1>1, <1>2, <1>4, <2>2 DEF IndexIn, GroupTable
    <2> QED
      BY <2>1, <2>2
  <1> QED
    BY <1>3, <1>4 DEF Whole


(* The tables as the requests see them after a turn of r.                  *)
LEMMA TurnIs ==
  ASSUME TypeInv, NEW r \in Requests, NEW p, NEW i, NEW l, NEW t, Turn(r, p, i, l, t)
  PROVE  /\ pc'[r] = p /\ input'[r] = i /\ loc'[r] = l /\ tx'[r] = t
         /\ \A q \in Requests \ {r} : /\ pc'[q] = pc[q] /\ input'[q] = input[q]
                                      /\ loc'[q] = loc[q] /\ tx'[q] = tx[q]
  BY DEF TypeInv, Turn

LEMMA TurnKeepsLocked ==
  ASSUME TypeInv, Locked, NEW r \in Requests, NEW p, NEW i, NEW l, NEW t, Turn(r, p, i, l, t),
         Still, Apart(r, t), Covers(t), p = "idle" => t.wrote = {}
  PROVE  Locked'
  <1>1. /\ pc'[r] = p /\ tx'[r] = t
        /\ \A q \in Requests \ {r} : pc'[q] = pc[q] /\ tx'[q] = tx[q]
    BY TurnIs
  <1>2. task' = task
    BY DEF Still
  <1>3. ASSUME NEW q \in Requests PROVE Apart(q, tx[q])' /\ Covers(tx[q])'
    <2>1. CASE q = r
      BY <1>1, <1>2, <2>1 DEF Apart, Covers
    <2>2. CASE q # r
      <3>1. Covers(tx[q])'
        BY <1>1, <1>2, <2>2 DEF Locked, RowsHaveOneWriter, Covers
      <3>2. ASSUME NEW o \in Requests \ {q} PROVE tx'[q].wrote \cap tx'[o].wrote = {}
        <4>1. CASE o = r
          BY <1>1, <2>2, <4>1 DEF Apart
        <4>2. CASE o # r
          BY <1>1, <2>2, <4>2 DEF Locked, RowsHaveOneWriter, Apart
        <4> QED
          BY <4>1, <4>2
      <3> QED
        BY <3>1, <3>2 DEF Apart
    <2> QED
      BY <2>1, <2>2
  <1>4. ASSUME NEW q \in Requests, pc'[q] = "idle" PROVE tx'[q].wrote = {}
    BY <1>1, <1>4 DEF Locked
  <1> QED
    BY <1>3, <1>4 DEF Locked, RowsHaveOneWriter

LEMMA NothingWritten ==
  /\ \A r : Apart(r, NoTx) /\ Covers(NoTx)
  /\ TasksHaveGroups => Whole(NoTx)
  BY NoTxType DEF Apart, Covers, Whole, RowIn, IndexIn, TasksHaveGroups

LEMMA CommitKeepsLocked ==
  ASSUME TypeInv, Locked, NEW r \in Requests, Commits(r)
  PROVE  /\ Locked'
         /\ tx'[r] = NoTx /\ \A q \in Requests \ {r} : tx'[q] = tx[q]
         /\ \A k \in Tasks : task'[k] = RowIn(tx[r], k)
         /\ \A g \in Groups : group'[g] = IndexIn(tx[r], g)
         /\ \A q \in Requests \ {r} : \A k \in Tasks \cap tx[q].wrote : task'[k] = task[k]
  <1>1. /\ pc'[r] = "idle" /\ tx'[r] = NoTx
        /\ \A q \in Requests \ {r} : pc'[q] = pc[q] /\ tx'[q] = tx[q]
    BY TurnIs DEF Commits
  <1>2. /\ \A k \in Tasks : task'[k] = RowIn(tx[r], k)
        /\ \A g \in Groups : group'[g] = IndexIn(tx[r], g)
    BY SeenType DEF Commits, RowIn, IndexIn
  <1>3. \A q \in Requests \ {r} : \A k \in Tasks \cap tx[q].wrote : task'[k] = task[k]
    BY <1>2 DEF Locked, RowsHaveOneWriter, Apart, RowIn
  <1>4. ASSUME NEW q \in Requests PROVE Apart(q, tx[q])' /\ Covers(tx[q])'
    <2>1. CASE q = r
      <3>1. tx'[q].wrote = {}
        BY <1>1, <2>1, NoTxType
      <3> QED
        BY <3>1 DEF Apart, Covers
    <2>2. CASE q # r
      <3>1. tx'[q] = tx[q] /\ \A k \in Tasks \cap tx[q].wrote : task'[k] = task[k]
        BY <1>1, <1>3, <2>2
      <3>2. Covers(tx[q])'
        BY <3>1 DEF Locked, RowsHaveOneWriter, Covers
      <3>3. ASSUME NEW o \in Requests \ {q} PROVE tx'[q].wrote \cap tx'[o].wrote = {}
        <4>1. CASE o = r
          BY <1>1, <4>1, NoTxType
        <4>2. CASE o # r
          BY <1>1, <2>2, <4>2 DEF Locked, RowsHaveOneWriter, Apart
        <4> QED
          BY <4>1, <4>2
      <3> QED
        BY <3>2, <3>3 DEF Apart
    <2> QED
      BY <2>1, <2>2
  <1>5. ASSUME NEW q \in Requests, pc'[q] = "idle" PROVE tx'[q].wrote = {}
    BY <1>1, <1>5, NoTxType DEF Locked
  <1> QED
    BY <1>1, <1>2, <1>3, <1>4, <1>5 DEF Locked, RowsHaveOneWriter

(* What a step that is not a commit makes of r's transaction.              *)
LEMMA KindKeeps ==
  ASSUME TypeInv, Locked, AllWhole, NEW r \in Requests, Kinds(r), ~Commits(r)
  PROVE  \E p, i, l, t : /\ Still /\ Turn(r, p, i, l, t) /\ Apart(r, t) /\ Covers(t) /\ Whole(t)
                         /\ p = "idle" => t.wrote = {}
  <1>1. Apart(r, tx[r]) /\ Covers(tx[r]) /\ Whole(tx[r])
    BY DEF Locked, RowsHaveOneWriter, AllWhole
  <1>2. CASE Starts(r)
    <2>1. PICK p \in {"list", "read"} : \E i : Still /\ Turn(r, p, i, loc[r], tx[r])
      BY <1>2 DEF Starts
    <2> QED
      BY <1>1, <2>1
  <1>3. CASE Ends(r)
    <2>1. Apart(r, NoTx) /\ Covers(NoTx) /\ Whole(NoTx) /\ NoTx.wrote = {}
      BY NothingWritten, NoTxType DEF AllWhole
    <2> QED
      BY <1>3, <2>1, Zenon DEF Ends
  <1>4. CASE Goes(r)
    <2>1. PICK p, i, l : Still /\ Flows(r, p, i, l) /\ Turn(r, p, i, l, tx[r])
      BY <1>4 DEF Goes
    <2>2. p # "idle"
      BY <2>1 DEF Flows
    <2> QED
      BY <1>1, <2>1, <2>2
  <1>5. CASE Removes(r)
    <2>1. PICK g \in Groups : \E l : /\ Still /\ pc[r] \in {"wipe", "delete"} /\ ~LockedFor(r, g)
                                     /\ Turn(r, pc[r], input[r], l, Delete(r, g))
      BY <1>5 DEF Removes
    <2>2. PICK l : /\ Still /\ pc[r] \in {"wipe", "delete"} /\ ~LockedFor(r, g)
                   /\ Turn(r, pc[r], input[r], l, Delete(r, g))
      BY <2>1
    <2> DEFINE u == Delete(r, g)
    <2>3. Rewritten(u, r, g, None, <<>>) /\ OfGroup(r, g, <<>>, {}) /\ DOMAIN <<>> = {} /\ Free({})
      BY RemovesRewrites, NoRows DEF Free
    <2>4. Still /\ ~LockedFor(r, g) /\ pc[r] # "idle" /\ Turn(r, pc[r], input[r], l, u)
      BY <2>2
    <2> HIDE DEF u
    <2>5. Apart(r, u) /\ Covers(u)
      BY <2>3, <2>4, RewritesApart
    <2>6. Whole(u)
      BY <1>1, <2>3, RewritesWhole
    <2> QED
      BY <2>4, <2>5, <2>6
  <1>6. CASE Indexes(r)
    <2>1. PICK g \in Groups, idx \in Nat : \E l :
            /\ Still /\ pc[r] \in {"update", "create", "clap"} /\ ~LockedFor(r, g)
            /\ Turn(r, pc[r], input[r], l, WriteGroup(r, g, idx))
      BY <1>6 DEF Indexes
    <2>2. PICK l : /\ Still /\ pc[r] \in {"update", "create", "clap"} /\ ~LockedFor(r, g)
                   /\ Turn(r, pc[r], input[r], l, WriteGroup(r, g, idx))
      BY <2>1
    <2> DEFINE u == WriteGroup(r, g, idx)
    <2>3. WroteGroup(u, r, g, idx)
      BY WriteGroupType
    <2>4. Still /\ ~LockedFor(r, g) /\ pc[r] # "idle" /\ Turn(r, pc[r], input[r], l, u)
      BY <2>2
    <2> HIDE DEF u
    <2>5. Apart(r, u) /\ Covers(u) /\ Whole(u)
      BY <1>1, <2>3, <2>4, IndexesApart, IndexesWhole
    <2> QED
      BY <2>4, <2>5
  <1>7. CASE Nests(r)
    <2>0. PICK g \in Groups, idx \in Nat : \E l, s, made, updates :
            /\ Still /\ ~LockedFor(r, g) /\ Free(made) /\ NestedIn(r, g, l, updates)
            /\ s \in Edited(g, TasksOf(TasksSeen(r), g), made, EachOnce(updates))
            /\ s.rows \in Partial(Tasks, Row)
            /\ Turn(r, pc[r], input[r], l, WriteTasks(WriteGroup(r, g, idx), r, g, s.rows))
      BY <1>7 DEF Nests
    <2>1. PICK l, s, made, updates :
            /\ Still /\ ~LockedFor(r, g) /\ Free(made) /\ NestedIn(r, g, l, updates)
            /\ s \in Edited(g, TasksOf(TasksSeen(r), g), made, EachOnce(updates))
            /\ s.rows \in Partial(Tasks, Row)
            /\ Turn(r, pc[r], input[r], l, WriteTasks(WriteGroup(r, g, idx), r, g, s.rows))
      BY <2>0
    <2> DEFINE u == WriteTasks(WriteGroup(r, g, idx), r, g, s.rows)
               rows == s.rows
    <2>2. Rewritten(u, r, g, idx, rows) /\ OfGroup(r, g, rows, made)
      BY <2>1, NestsRewrites
    <2>3. /\ Still /\ ~LockedFor(r, g) /\ Free(made) /\ pc[r] # "idle"
          /\ Turn(r, pc[r], input[r], l, u)
      BY <2>1 DEF NestedIn
    <2> HIDE DEF u, rows
    <2>4. Apart(r, u) /\ Covers(u)
      BY <2>2, <2>3, RewritesApart
    <2>5. Whole(u)
      BY <1>1, <2>2, RewritesWhole, BulkEditAssumption
    <2> QED
      BY <2>3, <2>4, <2>5
  <1> QED
    BY <1>2, <1>3, <1>4, <1>5, <1>6, <1>7 DEF Kinds

LEMMA CommitKeepsWhole ==
  ASSUME TypeInv, Locked, AllWhole, NEW r \in Requests, Commits(r)
  PROVE  AllWhole'
  <1>1. /\ tx'[r] = NoTx /\ \A q \in Requests \ {r} : tx'[q] = tx[q]
        /\ \A k \in Tasks : task'[k] = RowIn(tx[r], k)
        /\ \A g \in Groups : group'[g] = IndexIn(tx[r], g)
    BY CommitKeepsLocked
  <1>2. \A k \in Tasks : task[k] # None => task[k] \in Row
    BY DEF TypeInv, TaskTable
  <1>3. \A q \in Requests : \A k \in Tasks : tx[q].task[k] # None => tx[q].task[k] \in Row
    BY RequestType DEF Txs, TaskTable
  <1>4. \A row \in Row : row.group \in Groups
    BY DEF Row
  <1>5. \A q \in Requests : \A k \in Tasks :
          RowIn(tx[q], k) # None => RowIn(tx[q], k).group \in Groups
    BY <1>2, <1>3, <1>4 DEF RowIn
  <1>6. TasksHaveGroups'
    <2> SUFFICES ASSUME NEW k \in Tasks, task'[k] # None PROVE group'[task'[k].group] # None
      BY DEF TasksHaveGroups
    <2> QED
      BY <1>1, <1>5 DEF AllWhole, Whole
  <1>7. ASSUME NEW q \in Requests PROVE Whole(tx[q])'
    <2>1. CASE q = r
      <3>1. tx'[q].wrote = {}
        BY <1>1, <2>1, NoTxType
      <3> QED
        BY <3>1, <1>6 DEF Whole, RowIn, IndexIn, TasksHaveGroups
    <2>2. CASE q # r
      <3> DEFINE row(k) == IF k \in tx[q].wrote THEN tx[q].task[k] ELSE task'[k]
                 idx(g) == IF g \in tx[q].wrote THEN tx[q].group[g] ELSE group'[g]
      <3>1. tx'[q] = tx[q]
        BY <1>1, <2>2
      <3> SUFFICES ASSUME NEW k \in Tasks, row(k) # None PROVE idx(row(k).group) # None
        BY <3>1 DEF Whole, RowIn, IndexIn
      <3>2. Apart(r, tx[r]) /\ Covers(tx[r]) /\ Covers(tx[q]) /\ Whole(tx[r]) /\ Whole(tx[q])
        BY DEF Locked, RowsHaveOneWriter, AllWhole
      <3>3. CASE k \in tx[q].wrote
        <4>1. row(k) = RowIn(tx[q], k)
          BY <3>3 DEF RowIn
        <4>2. row(k).group \in tx[q].wrote
          BY <3>2, <3>3 DEF Covers
        <4>3. IndexIn(tx[q], row(k).group) # None
          BY <3>2, <4>1 DEF Whole
        <4> QED
          BY <4>2, <4>3 DEF IndexIn
      <3>4. CASE k \notin tx[q].wrote
        <4>1. row(k) = RowIn(tx[r], k)
          BY <1>1, <3>4
        <4> DEFINE g == row(k).group
        <4>2. g \in Groups /\ IndexIn(tx[r], g) # None
          BY <1>5, <3>2, <4>1 DEF Whole
        <4>3. CASE g \notin tx[q].wrote
          BY <1>1, <4>2, <4>3
        <4>4. CASE g \in tx[q].wrote
          <5>1. k \notin tx[r].wrote
            <6> SUFFICES ASSUME k \in tx[r].wrote PROVE FALSE
              OBVIOUS
            <6>1. g \in tx[r].wrote
              BY <3>2, <4>1 DEF Covers, RowIn
            <6> QED
              BY <2>2, <3>2, <4>4, <6>1 DEF Apart
          <5>2. row(k) = RowIn(tx[q], k)
            BY <3>4, <4>1, <5>1 DEF RowIn
          <5>3. IndexIn(tx[q], g) # None
            BY <3>2, <5>2 DEF Whole
          <5> QED
            BY <4>4, <5>3 DEF IndexIn
        <4> QED
          BY <4>3, <4>4
      <3> QED
        BY <3>3, <3>4
    <2> QED
      BY <2>1, <2>2
  <1> QED
    BY <1>6, <1>7 DEF AllWhole

LEMMA InitLocked == Init => Locked /\ AllWhole
  <1> SUFFICES ASSUME Init PROVE Locked /\ AllWhole
    OBVIOUS
  <1>1. \A r \in Requests : tx[r] = NoTx
    BY DEF Init
  <1>2. TasksHaveGroups
    BY DEF Init, TasksHaveGroups
  <1>3. ASSUME NEW r \in Requests
        PROVE  Apart(r, tx[r]) /\ Covers(tx[r]) /\ Whole(tx[r]) /\ tx[r].wrote = {}
    BY <1>1, <1>2, NothingWritten, NoTxType
  <1> QED
    BY <1>2, <1>3 DEF Locked, RowsHaveOneWriter, AllWhole

LEMMA StepLocked ==
  TypeInv /\ Locked /\ AllWhole /\ [Next]_vars => Locked' /\ AllWhole'
  <1> SUFFICES ASSUME TypeInv, Locked, AllWhole, [Next]_vars PROVE Locked' /\ AllWhole'
    OBVIOUS
  <1>1. CASE UNCHANGED vars
    BY <1>1 DEF vars, Locked, RowsHaveOneWriter, AllWhole, TasksHaveGroups, Apart, Covers, Whole,
                RowIn, IndexIn
  <1>2. ASSUME NEW r \in Requests, Kinds(r) PROVE Locked' /\ AllWhole'
    <2>1. CASE Commits(r)
      BY <2>1, CommitKeepsLocked, CommitKeepsWhole
    <2>2. CASE ~Commits(r)
      <3>1. PICK p, i, l, t : /\ Still /\ Turn(r, p, i, l, t) /\ Apart(r, t) /\ Covers(t) /\ Whole(t)
                              /\ p = "idle" => t.wrote = {}
        BY <1>2, <2>2, KindKeeps
      <3>2. Locked'
        BY <3>1, TurnKeepsLocked
      <3>3. tx'[r] = t /\ \A q \in Requests \ {r} : tx'[q] = tx[q]
        BY <3>1, TurnIs
      <3>4. group' = group /\ task' = task
        BY <3>1 DEF Still
      <3>5. AllWhole'
        BY <3>1, <3>3, <3>4 DEF AllWhole, TasksHaveGroups, Whole, RowIn, IndexIn
      <3> QED
        BY <3>2, <3>5
    <2> QED
      BY <2>1, <2>2
  <1> QED
    BY <1>1, <1>2, StepKinds

(* Edits that overlap never write the same row, and the tasks one of them  *)
(* has written were and are in groups whose rows it has locked: this is    *)
(* what lets the edit of a group's tasks be one step.                      *)
THEOREM TasksAreLockedByGroup == Spec => []RowsHaveOneWriter
  <1>1. Init => TypeInv /\ Locked /\ AllWhole
    BY InitType, InitLocked
  <1>2. TypeInv /\ Locked /\ AllWhole /\ [Next]_vars => (TypeInv /\ Locked /\ AllWhole)'
    BY StepType, StepLocked
  <1>3. Locked => RowsHaveOneWriter
    BY DEF Locked
  <1> QED
    BY <1>1, <1>2, <1>3, PTL DEF Spec

(* No task is left behind by its group, whatever edits overlap, fail, or   *)
(* delete the group while another adds to it.                              *)
THEOREM TasksKeepTheirGroups == Spec => []TasksHaveGroups
  <1>1. Init => TypeInv /\ Locked /\ AllWhole
    BY InitType, InitLocked
  <1>2. TypeInv /\ Locked /\ AllWhole /\ [Next]_vars => (TypeInv /\ Locked /\ AllWhole)'
    BY StepType, StepLocked
  <1>3. AllWhole => TasksHaveGroups
    BY DEF AllWhole
  <1> QED
    BY <1>1, <1>2, <1>3, PTL DEF Spec

(* The tables and what requests hold keep their types: no index that a     *)
(* bulk edit of groups or tasks computes, whatever it was asked for,       *)
(* leaves the slices for the tables as anything but a position             *)
(* (taskgroups/updater.go:68), no task has more hints than the CHECK of    *)
(* questspace.hint allows, and every task has its group.                   *)
THEOREM TypeCorrect == Spec => []TypeOK
  <1>1. Init => TypeInv /\ Locked /\ AllWhole
    BY InitType, InitLocked
  <1>2. TypeInv /\ Locked /\ AllWhole /\ [Next]_vars => (TypeInv /\ Locked /\ AllWhole)'
    BY StepType, StepLocked
  <1>3. TypeInv /\ AllWhole => TypeOK
    BY TypeIsOK DEF AllWhole
  <1> QED
    BY <1>1, <1>2, <1>3, PTL DEF Spec

-----------------------------------------------------------------------------
(* The hints that an edit leaves which names everything once.  A task that *)
(* its transaction has written has hints that fit or those of the table;   *)
(* while groups are updated, it is in a group already updated, and before  *)
(* that it is gone.                                                        *)
Hinting(p, i, l, t) ==
  NamesOnce(i) =>
    \A k \in Tasks \cap t.wrote : t.task[k] # None =>
      /\ p \notin Early
      /\ p = "update" => \E j \in DOMAIN i.update : j < l.next /\ i.update[j].id = t.task[k].group
      /\ Fits(t.task[k]) \/ (task[k] # None /\ t.task[k].hints = task[k].hints)
HintInv ==
  \A r \in Requests : Hinting(pc[r], input[r], loc[r], tx[r])

LEMMA NothingHinted ==
  \A p, i, l, t : t.wrote = {} => Hinting(p, i, l, t)
  BY DEF Hinting

(* The same tasks, further on.                                             *)
LEMMA FlowsHinted ==
  ASSUME TypeInv, HintInv, NEW r \in Requests, NEW p, NEW i, NEW l \in Locs, Flows(r, p, i, l),
         NEW t, t.task = tx[r].task, Tasks \cap t.wrote = Tasks \cap tx[r].wrote
  PROVE  Hinting(p, i, l, t)
  <1> SUFFICES ASSUME NamesOnce(i) PROVE Hinting(p, i, l, t)
    BY DEF Hinting
  <1>2. NamesOnce(input[r])
    BY DEF Flows, NamesOnce
  <1>1. Hinting(pc[r], input[r], loc[r], tx[r])
    BY DEF HintInv
  <1>3. loc[r].next \in Nat /\ l.next \in Nat
    BY RequestType, LocType
  <1>4. DOMAIN input[r].update \subseteq Nat
    BY RequestType, InputType DEF Asks
  <1> SUFFICES ASSUME NEW k \in Tasks \cap t.wrote, t.task[k] # None
               PROVE  /\ p \notin Early
                      /\ p = "update" => \E j \in DOMAIN i.update :
                           j < l.next /\ i.update[j].id = t.task[k].group
                      /\ Fits(t.task[k]) \/ (task[k] # None /\ t.task[k].hints = task[k].hints)
    BY DEF Hinting
  <1>5. /\ k \in Tasks \cap tx[r].wrote /\ t.task[k] = tx[r].task[k] /\ pc[r] \notin Early
        /\ Fits(t.task[k]) \/ (task[k] # None /\ t.task[k].hints = task[k].hints)
    BY <1>1, <1>2 DEF Hinting
  <1>6. ASSUME p = "update"
        PROVE  \E j \in DOMAIN i.update : j < l.next /\ i.update[j].id = t.task[k].group
    <2>1. pc[r] = "update" /\ loc[r].next <= l.next /\ i.update = input[r].update
      BY <1>5, <1>6 DEF Flows
    <2>2. PICK j \in DOMAIN input[r].update :
            j < loc[r].next /\ input[r].update[j].id = tx[r].task[k].group
      BY <1>1, <1>2, <1>5, <2>1 DEF Hinting
    <2>3. j < l.next
      BY <1>3, <1>4, <2>1, <2>2
    <2> QED
      BY <1>5, <2>1, <2>2, <2>3
  <1> QED
    BY <1>5, <1>6 DEF Flows

LEMMA RemovesHinted ==
  ASSUME TypeInv, HintInv, NEW r \in Requests, pc[r] \in Early, NEW g \in Groups,
         NEW p, NEW l
  PROVE  Hinting(p, input[r], l, Delete(r, g))
  <1> SUFFICES ASSUME NamesOnce(input[r]) PROVE Hinting(p, input[r], l, Delete(r, g))
    BY DEF Hinting
  <1> DEFINE u == Delete(r, g)
             T == DOMAIN TasksOf(TasksSeen(r), g)
  <1>1. /\ u.wrote = tx[r].wrote \cup {g} \cup T
        /\ \A k \in Tasks : u.task[k] = IF k \in T THEN None ELSE tx[r].task[k]
    BY DeleteType
  <1>2. \A k \in Tasks \cap tx[r].wrote : tx[r].task[k] = None
    BY DEF HintInv, Hinting
  <1> HIDE DEF u, T
  <1>3. ASSUME NEW k \in Tasks \cap u.wrote PROVE u.task[k] = None
    <2>1. k # g
      BY BulkEditAssumption
    <2> QED
      BY <1>1, <1>2, <2>1
  <1> QED
    BY <1>3 DEF Hinting, u

LEMMA NestsHinted ==
  ASSUME TypeInv, Locked, HintInv, NEW r \in Requests, NEW g \in Groups, NEW idx \in Nat,
         NEW l, NEW s, NEW made, NEW updates, NestedIn(r, g, l, updates), Free(made),
         s \in Edited(g, TasksOf(TasksSeen(r), g), made, EachOnce(updates)),
         s.rows \in Partial(Tasks, Row)
  PROVE  Hinting(pc[r], input[r], l, WriteTasks(WriteGroup(r, g, idx), r, g, s.rows))
  <1> SUFFICES ASSUME NamesOnce(input[r])
               PROVE  Hinting(pc[r], input[r], l, WriteTasks(WriteGroup(r, g, idx), r, g, s.rows))
    BY DEF Hinting
  <1> DEFINE u == WriteTasks(WriteGroup(r, g, idx), r, g, s.rows)
             rows == s.rows
             old == TasksOf(TasksSeen(r), g)
             T == Touched(r, g, rows)
  <1>1. Rewritten(u, r, g, idx, rows) /\ OfGroup(r, g, rows, made)
    BY NestsRewrites
  <1>2. T \subseteq Tasks /\ g \notin Tasks
    BY <1>1, TouchedIs, BulkEditAssumption
  <1>3. Hinting(pc[r], input[r], loc[r], tx[r]) /\ NamesOnce(input[r]) /\ Covers(tx[r])
    BY DEF HintInv, Locked, RowsHaveOneWriter
  <1>4. loc[r].next \in Nat /\ DOMAIN input[r].update \subseteq Nat
    <2>1. input[r] \in Input /\ loc[r] \in Locs
      BY RequestType, Zenon
    <2>2. loc[r].next \in Nat
      BY <2>1, LocType, Zenon
    <2>3. Asks(input[r].update)
      BY <2>1, InputType, Zenon
    <2>4. DOMAIN input[r].update = 1 .. Len(input[r].update)
      BY <2>3 DEF Asks
    <2> QED
      BY <2>2, <2>4
  <1>5. /\ \A k \in DOMAIN old : /\ k \in Tasks /\ RowIn(tx[r], k) # None
                                 /\ RowIn(tx[r], k).group = g /\ old[k] = RowIn(tx[r], k)
    <2>1. TasksSeen(r) \in TaskTable /\ \A k \in Tasks : TasksSeen(r)[k] = RowIn(tx[r], k)
      BY SeenType DEF RowIn
    <2>2. /\ DOMAIN old = {k \in Tasks : TasksSeen(r)[k] # None /\ TasksSeen(r)[k].group = g}
          /\ \A k \in DOMAIN old : old[k] = TasksSeen(r)[k]
      BY <2>1, TasksOfType, Zenon
    <2> HIDE DEF old
    <2> QED
      BY <2>1, <2>2
  <1>6. Hinted(old, rows)
    <2>1. EachOnce(updates)
      <3>1. CASE pc[r] = "update"
        BY <1>3, <3>1 DEF NestedIn, NamesOnce
      <3>2. CASE pc[r] # "update"
        <4>1. updates = <<>>
          BY <3>2 DEF NestedIn
        <4> QED
          BY <4>1 DEF EachOnce
      <3> QED
        BY <3>1, <3>2
    <2> QED
      BY <2>1 DEF Edited
  <1> HIDE DEF u, rows, old, T
  (* The tasks of the group are still those of the table.                  *)
  <1>7. ASSUME NEW k \in DOMAIN old PROVE k \notin tx[r].wrote
    <2> SUFFICES ASSUME k \in tx[r].wrote PROVE FALSE
      OBVIOUS
    <2>1. k \in Tasks /\ tx[r].task[k] # None /\ tx[r].task[k].group = g
      BY <1>5 DEF RowIn
    <2>2. CASE pc[r] = "update"
      <3>1. PICK j \in DOMAIN input[r].update : j < loc[r].next /\ input[r].update[j].id = g
        BY <1>3, <2>1, <2>2 DEF Hinting
      <3>2. loc[r].next \in DOMAIN input[r].update /\ input[r].update[loc[r].next].id = g
        BY <2>2 DEF NestedIn
      <3>3. j = loc[r].next
        BY <1>3, <3>1, <3>2 DEF NamesOnce, EachOnce
      <3> QED
        BY <1>4, <3>1, <3>3
    <2>3. CASE pc[r] # "update"
      <3>1. g \notin tx[r].wrote
        BY <2>3 DEF NestedIn
      <3>2. g \in tx[r].wrote
        BY <1>3, <2>1 DEF Covers
      <3> QED
        BY <3>1, <3>2
    <2> QED
      BY <2>2, <2>3
  <1> SUFFICES ASSUME NEW k \in Tasks \cap u.wrote, u.task[k] # None
               PROVE  /\ pc[r] \notin Early
                      /\ pc[r] = "update" => \E j \in DOMAIN input[r].update :
                           j < l.next /\ input[r].update[j].id = u.task[k].group
                      /\ Fits(u.task[k]) \/ (task[k] # None /\ u.task[k].hints = task[k].hints)
    BY DEF Hinting, u, rows
  <1>8. pc[r] \notin Early
    BY DEF NestedIn, Early
  <1>9. CASE k \in T
    <2>1. k \in DOMAIN rows /\ u.task[k] = rows[k] /\ rows[k].group = g
      BY <1>1, <1>9 DEF Rewritten, OfGroup, T
    <2>2. Fits(rows[k]) \/ (task[k] # None /\ rows[k].hints = task[k].hints)
      <3>1. CASE Fits(rows[k])
        BY <3>1
      <3>2. CASE k \in DOMAIN old /\ rows[k].hints = old[k].hints
        BY <1>5, <1>7, <3>2 DEF RowIn
      <3> QED
        BY <1>6, <2>1, <3>1, <3>2 DEF Hinted
    <2>3. ASSUME pc[r] = "update"
          PROVE  \E j \in DOMAIN input[r].update : j < l.next /\ input[r].update[j].id = g
      <3>1. /\ loc[r].next \in DOMAIN input[r].update /\ input[r].update[loc[r].next].id = g
            /\ l.next = loc[r].next + 1
        BY <2>3 DEF NestedIn
      <3> QED
        BY <1>4, <3>1
    <2> QED
      BY <1>8, <2>1, <2>2, <2>3
  <1>10. CASE k \notin T
    <2>1. k \in Tasks \cap tx[r].wrote /\ u.task[k] = tx[r].task[k]
      BY <1>1, <1>2, <1>10 DEF Rewritten, T
    <2>2. Fits(u.task[k]) \/ (task[k] # None /\ u.task[k].hints = task[k].hints)
      BY <1>3, <2>1 DEF Hinting
    <2>3. ASSUME pc[r] = "update"
          PROVE  \E j \in DOMAIN input[r].update : j < l.next /\ input[r].update[j].id = u.task[k].group
      <3>1. PICK j \in DOMAIN input[r].update :
              j < loc[r].next /\ input[r].update[j].id = tx[r].task[k].group
        BY <1>3, <2>1, <2>3 DEF Hinting
      <3>2. l.next = loc[r].next + 1
        BY <2>3 DEF NestedIn
      <3>3. j < l.next
        BY <1>4, <3>1, <3>2
      <3> QED
        BY <2>1, <3>1, <3>3
    <2> QED
      BY <1>8, <2>2, <2>3
  <1> QED
    BY <1>9, <1>10

LEMMA KindHints ==
  ASSUME TypeInv, Locked, HintInv, NEW r \in Requests, Kinds(r), ~Commits(r)
  PROVE  \E p, i, l, t : Still /\ Turn(r, p, i, l, t) /\ Hinting(p, i, l, t)
  <1>2. CASE Starts(r)
    <2>1. PICK p \in {"list", "read"} : \E i :
            Still /\ pc[r] = "idle" /\ Sent(i) /\ Turn(r, p, i, loc[r], tx[r])
      BY <1>2 DEF Starts
    <2>2. PICK i : Still /\ pc[r] = "idle" /\ Sent(i) /\ Turn(r, p, i, loc[r], tx[r])
      BY <2>1
    <2>3. Hinting(p, i, loc[r], tx[r])
      BY <2>2, NothingHinted DEF Locked
    <2> QED
      BY <2>2, <2>3
  <1>3. CASE Ends(r)
    <2>1. Hinting("idle", NoEdit, NoLoc, NoTx)
      BY NothingHinted, NoTxType
    <2> QED
      BY <1>3, <2>1, Zenon DEF Ends
  <1>4. CASE Goes(r)
    <2>1. PICK p, i, l : Still /\ Flows(r, p, i, l) /\ Turn(r, p, i, l, tx[r])
      BY <1>4 DEF Goes
    <2>2. l \in Locs
      BY <2>1 DEF Turn, Sound
    <2>3. Hinting(p, i, l, tx[r])
      BY <2>1, <2>2, FlowsHinted
    <2> QED
      BY <2>1, <2>3
  <1>5. CASE Removes(r)
    <2>1. PICK g \in Groups : \E l : /\ Still /\ pc[r] \in {"wipe", "delete"}
                                     /\ Turn(r, pc[r], input[r], l, Delete(r, g))
      BY <1>5 DEF Removes
    <2>2. PICK l : /\ Still /\ pc[r] \in {"wipe", "delete"}
                   /\ Turn(r, pc[r], input[r], l, Delete(r, g))
      BY <2>1
    <2>3. Hinting(pc[r], input[r], l, Delete(r, g))
      BY <2>2, RemovesHinted DEF Early
    <2> QED
      BY <2>2, <2>3
  <1>6. CASE Indexes(r)
    <2>1. PICK g \in Groups, idx \in Nat : \E l :
            /\ Still /\ Flows(r, pc[r], input[r], l)
            /\ Turn(r, pc[r], input[r], l, WriteGroup(r, g, idx))
      BY <1>6 DEF Indexes
    <2>2. PICK l : /\ Still /\ Flows(r, pc[r], input[r], l)
                   /\ Turn(r, pc[r], input[r], l, WriteGroup(r, g, idx))
      BY <2>1
    <2> DEFINE u == WriteGroup(r, g, idx)
    <2>3. WroteGroup(u, r, g, idx)
      BY WriteGroupType
    <2>4. l \in Locs
      BY <2>2 DEF Turn, Sound
    <2> HIDE DEF u
    <2>5. u.task = tx[r].task /\ Tasks \cap u.wrote = Tasks \cap tx[r].wrote
      BY <2>3, BulkEditAssumption DEF WroteGroup
    <2>6. Hinting(pc[r], input[r], l, u)
      BY <2>2, <2>4, <2>5, FlowsHinted
    <2> QED
      BY <2>2, <2>6 DEF u
  <1>7. CASE Nests(r)
    <2>1. PICK g \in Groups, idx \in Nat : \E l, s, made, updates :
            /\ Still /\ ~LockedFor(r, g) /\ Free(made) /\ NestedIn(r, g, l, updates)
            /\ s \in Edited(g, TasksOf(TasksSeen(r), g), made, EachOnce(updates))
            /\ s.rows \in Partial(Tasks, Row)
            /\ Turn(r, pc[r], input[r], l, WriteTasks(WriteGroup(r, g, idx), r, g, s.rows))
      BY <1>7 DEF Nests
    <2>2. PICK l, s, made, updates :
            /\ Still /\ ~LockedFor(r, g) /\ Free(made) /\ NestedIn(r, g, l, updates)
            /\ s \in Edited(g, TasksOf(TasksSeen(r), g), made, EachOnce(updates))
            /\ s.rows \in Partial(Tasks, Row)
            /\ Turn(r, pc[r], input[r], l, WriteTasks(WriteGroup(r, g, idx), r, g, s.rows))
      BY <2>1
    <2>3. Hinting(pc[r], input[r], l, WriteTasks(WriteGroup(r, g, idx), r, g, s.rows))
      BY <2>2, NestsHinted
    <2> QED
      BY <2>2, <2>3
  <1> QED
    BY <1>2, <1>3, <1>4, <1>5, <1>6, <1>7 DEF Kinds

LEMMA InitHints == Init => HintInv
  <1> SUFFICES ASSUME Init, NEW r \in Requests
               PROVE  Hinting(pc[r], input[r], loc[r], tx[r])
    BY DEF HintInv
  <1>1. tx[r].wrote = {}
    BY NoTxType DEF Init
  <1> QED
    BY <1>1, NothingHinted

LEMMA StepHints ==
  TypeInv /\ Locked /\ HintInv /\ [Next]_vars => HintInv'
  <1> SUFFICES ASSUME TypeInv, Locked, HintInv, [Next]_vars PROVE HintInv'
    OBVIOUS
  <1>1. CASE UNCHANGED vars
    BY <1>1 DEF vars, HintInv, Hinting
  <1>2. ASSUME NEW r \in Requests, Kinds(r) PROVE HintInv'
    <2>1. CASE Commits(r)
      <3>1. /\ tx'[r] = NoTx /\ \A q \in Requests \ {r} : tx'[q] = tx[q]
            /\ \A q \in Requests \ {r} : \A k \in Tasks \cap tx[q].wrote : task'[k] = task[k]
        BY <2>1, CommitKeepsLocked
      <3>2. /\ input'[r] = NoEdit
            /\ \A q \in Requests \ {r} : /\ pc'[q] = pc[q] /\ input'[q] = input[q]
                                         /\ loc'[q] = loc[q]
        BY <2>1, TurnIs DEF Commits
      <3>3. ASSUME NEW q \in Requests PROVE Hinting(pc[q], input[q], loc[q], tx[q])'
        <4>1. CASE q = r
          <5>1. tx'[q].wrote = {}
            BY <3>1, <4>1, NoTxType
          <5> QED
            BY <4>1, <5>1 DEF Hinting
        <4>2. CASE q # r
          BY <3>1, <3>2, <4>2 DEF HintInv, Hinting
        <4> QED
          BY <4>1, <4>2
      <3> QED
        BY <3>3 DEF HintInv
    <2>2. CASE ~Commits(r)
      <3>1. PICK p, i, l, t : Still /\ Turn(r, p, i, l, t) /\ Hinting(p, i, l, t)
        BY <1>2, <2>2, KindHints
      <3>2. /\ pc'[r] = p /\ input'[r] = i /\ loc'[r] = l /\ tx'[r] = t
            /\ \A q \in Requests \ {r} : /\ pc'[q] = pc[q] /\ input'[q] = input[q]
                                         /\ loc'[q] = loc[q] /\ tx'[q] = tx[q]
        BY <3>1, TurnIs
      <3>3. task' = task
        BY <3>1 DEF Still
      <3>4. ASSUME NEW q \in Requests PROVE Hinting(pc[q], input[q], loc[q], tx[q])'
        <4>1. CASE q = r
          BY <3>1, <3>2, <3>3, <4>1 DEF Hinting
        <4>2. CASE q # r
          BY <3>2, <3>3, <4>2 DEF HintInv, Hinting
        <4> QED
          BY <4>1, <4>2
      <3> QED
        BY <3>4 DEF HintInv
    <2> QED
      BY <2>1, <2>2
  <1> QED
    BY <1>1, <1>2, StepKinds

PenaltiesFitNow ==
  \A r \in Requests : pc[r] = "commit" /\ pc'[r] = "idle" /\ NamesOnce(input[r]) =>
    \A t \in Tasks :
      task'[t] # None /\ (task[t] = None \/ task'[t].hints # task[t].hints)
        => TotalPenalty(task'[t].hints, task'[t].reward) <= task'[t].reward

LEMMA StepFits == TypeInv /\ Locked /\ HintInv /\ [Next]_vars => [PenaltiesFitNow]_vars
  <1> SUFFICES ASSUME TypeInv, Locked, HintInv, [Next]_vars, ~UNCHANGED vars PROVE PenaltiesFitNow
    OBVIOUS
  <1> SUFFICES ASSUME NEW r \in Requests, pc[r] = "commit", pc'[r] = "idle", NamesOnce(input[r]),
                      NEW t \in Tasks, task'[t] # None,
                      task[t] = None \/ task'[t].hints # task[t].hints
               PROVE  TotalPenalty(task'[t].hints, task'[t].reward) <= task'[t].reward
    BY DEF PenaltiesFitNow
  <1>1. PICK s \in Requests : Kinds(s)
    BY StepKinds
  <1>2. PICK p, i, l, u : Turn(s, p, i, l, u) /\ (Still \/ Commits(s))
    BY <1>1, KindsTurn
  <1>3. s = r
    BY <1>2, TurnIs
  <1>4. task'[t] # task[t]
    OBVIOUS
  <1>5. task'[t] = RowIn(tx[r], t)
    BY <1>2, <1>3, <1>4, CommitKeepsLocked DEF Still
  <1>6. t \in tx[r].wrote /\ task'[t] = tx[r].task[t]
    BY <1>4, <1>5 DEF RowIn
  <1>7. Fits(tx[r].task[t]) \/ (task[t] # None /\ tx[r].task[t].hints = task[t].hints)
    BY <1>6 DEF HintInv, Hinting
  <1>8. Fits(task'[t])
    BY <1>6, <1>7
  <1> QED
    BY <1>8 DEF Fits

(* Hints that an edit gives to a task cost no more than the reward the     *)
(* task has when the edit is committed, if the edit names each group, and  *)
(* each task of a group, once, whatever else is edited meanwhile: then the *)
(* edit of a group's tasks works on the rows of the table, and what        *)
(* validatePenalties has seen of a task (tasks/updater.go:134) is what is  *)
(* committed.                                                              *)
THEOREM HintsFitTheirReward == Spec => PenaltiesFit
  <1>1. Init => TypeInv /\ Locked /\ AllWhole /\ HintInv
    BY InitType, InitLocked, InitHints
  <1>2. TypeInv /\ Locked /\ AllWhole /\ HintInv /\ [Next]_vars
          => (TypeInv /\ Locked /\ AllWhole /\ HintInv)'
    BY StepType, StepLocked, StepHints
  <1>3. TypeInv /\ Locked /\ HintInv /\ [Next]_vars => [PenaltiesFitNow]_vars
    BY StepFits
  <1>4. Init /\ [][Next]_vars => [][PenaltiesFitNow]_vars
    BY <1>1, <1>2, <1>3, PTL
  <1> QED
    BY <1>4 DEF Spec, PenaltiesFit, PenaltiesFitNow

-----------------------------------------------------------------------------
(* The order indexes of groups.  Postgres rechecks at the commit only the  *)
(* rows whose index looked taken when it was written: of two rows written  *)
(* with one index the later is suspect, and the index of a row that is not *)
(* suspect is that of no other row.  Before an edit updates groups, those  *)
(* it has written are gone.                                                *)
GroupsAreUnique ==
  \A g, h \in Groups : group[g] = group[h] /\ group[g] # None => g = h

Suspected(t, u) ==
  \A g \in Groups \cap t.wrote : \A h \in (Groups \cap u.wrote) \ {g} :
    t.group[g] = u.group[h] /\ t.group[g] # None => g \in t.suspect \/ h \in u.suspect
Live(t) ==
  \A g \in (Groups \cap t.wrote) \ t.suspect : t.group[g] # None =>
    \A h \in Groups \ (t.wrote \cup {g}) : group[h] # t.group[g]
Removed(p, t) ==
  p \in Early \cup {"idle"} => \A g \in Groups \cap t.wrote : t.group[g] = None

Keyed(r, p, t) ==
  /\ Live(t) /\ Removed(p, t) /\ Suspected(t, t)
  /\ \A q \in Requests \ {r} : Suspected(t, tx[q]) /\ Suspected(tx[q], t)
KeyInv == GroupsAreUnique /\ \A r \in Requests : Keyed(r, pc[r], tx[r])

LEMMA NothingKeyed ==
  \A r, p : Keyed(r, p, NoTx)
  BY NoTxType DEF Keyed, Live, Removed, Suspected

(* u is what r's transaction becomes when it writes the index of group g.  *)
Reindexed(u, r, g, idx) ==
  /\ Groups \cap u.wrote = (Groups \cap tx[r].wrote) \cup {g}
  /\ u.group = [tx[r].group EXCEPT ![g] = idx]
  /\ u.suspect = IF idx # None /\ Clash(r, g, idx)
                 THEN tx[r].suspect \cup {g} ELSE tx[r].suspect \ {g}

LEMMA WriteReindexes ==
  ASSUME TypeInv, NEW r \in Requests, NEW g \in Groups, NEW idx \in Nat \cup {None}
  PROVE  /\ Reindexed(WriteGroup(r, g, idx), r, g, idx)
         /\ \A rows \in Partial(Tasks, Row) :
              Reindexed(WriteTasks(WriteGroup(r, g, idx), r, g, rows), r, g, idx)
  <1> DEFINE t == WriteGroup(r, g, idx)
  <1>1. WroteGroup(t, r, g, idx)
    BY WriteGroupType
  <1> HIDE DEF t
  <1>2. Reindexed(t, r, g, idx)
    BY <1>1 DEF WroteGroup, Reindexed
  <1>3. ASSUME NEW rows \in Partial(Tasks, Row)
        PROVE  Reindexed(WriteTasks(t, r, g, rows), r, g, idx)
    <2>1. t \in Txs
      BY <1>1 DEF WroteGroup
    <2>2. WroteTasks(WriteTasks(t, r, g, rows), t, r, g, rows)
      BY <2>1, WriteTasksType
    <2> DEFINE u == WriteTasks(t, r, g, rows)
               T == Touched(r, g, rows)
    <2>3. u.wrote = t.wrote \cup T /\ u.group = t.group /\ u.suspect = t.suspect /\ T \subseteq Tasks
      BY <2>2 DEF WroteTasks
    <2> HIDE DEF u, T
    <2>4. Groups \cap u.wrote = Groups \cap t.wrote
      BY <2>3, BulkEditAssumption
    <2>5. Reindexed(u, r, g, idx)
      BY <1>2, <2>3, <2>4 DEF Reindexed
    <2> QED
      BY <2>5 DEF u
  <1> QED
    BY <1>2, <1>3 DEF t

LEMMA ReindexedKeyed ==
  ASSUME TypeInv, KeyInv, NEW r \in Requests, NEW g \in Groups, NEW idx \in Nat \cup {None},
         NEW u, Reindexed(u, r, g, idx), NEW p, p \in Early \cup {"idle"} => idx = None /\ pc[r] \in Early
  PROVE  Keyed(r, p, u)
  <1> DEFINE t == tx[r]
             W == Groups \cap t.wrote
  <1>1. t.group \in GroupTable /\ t.suspect \subseteq Groups
    BY RequestType DEF Txs
  <1>2. /\ Groups \cap u.wrote = W \cup {g} /\ u.group[g] = idx
        /\ \A h \in Groups \ {g} : u.group[h] = t.group[h] /\ (h \in u.suspect <=> h \in t.suspect)
        /\ g \in u.suspect <=> idx # None /\ Clash(r, g, idx)
    BY <1>1 DEF Reindexed, GroupTable
  <1>3. Keyed(r, pc[r], t)
    BY DEF KeyInv
  <1> HIDE DEF t, W
  <1>4. ASSUME idx # None, g \notin u.suspect
        PROVE  /\ \A h \in Groups \ {g} : h \notin W => group[h] # idx
               /\ \A q \in Requests : \A h \in (Groups \cap tx[q].wrote) \ {g} : tx[q].group[h] # idx
    <2>1. ~Clash(r, g, idx)
      BY <1>2, <1>4
    <2> QED
      BY <2>1 DEF Clash, HasKey, t, W
  <1>5. Live(u)
    <2> SUFFICES ASSUME NEW f \in (Groups \cap u.wrote) \ u.suspect, u.group[f] # None,
                        NEW h \in Groups \ (u.wrote \cup {f})
                 PROVE  group[h] # u.group[f]
      BY DEF Live
    <2>1. h # g /\ h \notin W
      BY <1>2
    <2>2. CASE f = g
      BY <1>2, <1>4, <2>1, <2>2
    <2>3. CASE f # g
      <3>1. f \in W /\ f \notin t.suspect /\ u.group[f] = t.group[f]
        BY <1>2, <2>3
      <3> QED
        BY <1>3, <2>1, <3>1 DEF Keyed, Live, W
    <2> QED
      BY <2>2, <2>3
  <1>6. Removed(p, u)
    BY <1>2, <1>3 DEF Keyed, Removed, W
  <1>7. Suspected(u, u)
    <2> SUFFICES ASSUME NEW f \in Groups \cap u.wrote, NEW h \in (Groups \cap u.wrote) \ {f},
                        u.group[f] = u.group[h], u.group[f] # None
                 PROVE  f \in u.suspect \/ h \in u.suspect
      BY DEF Suspected
    <2>1. CASE f = g
      <3>1. h \in W /\ u.group[h] = t.group[h]
        BY <1>2, <2>1
      <3> QED
        BY <1>2, <1>4, <2>1, <3>1 DEF t, W
    <2>2. CASE h = g
      <3>1. f \in W /\ u.group[f] = t.group[f]
        BY <1>2, <2>2
      <3> QED
        BY <1>2, <1>4, <2>2, <3>1 DEF t, W
    <2>3. CASE f # g /\ h # g
      BY <1>2, <1>3, <2>3 DEF Keyed, Suspected, W
    <2> QED
      BY <2>1, <2>2, <2>3
  <1>8. ASSUME NEW q \in Requests \ {r} PROVE Suspected(u, tx[q]) /\ Suspected(tx[q], u)
    <2>1. ASSUME NEW f \in Groups \cap u.wrote, NEW h \in (Groups \cap tx[q].wrote) \ {f},
                 u.group[f] = tx[q].group[h], u.group[f] # None
          PROVE  f \in u.suspect \/ h \in tx[q].suspect
      <3>1. CASE f = g
        BY <1>2, <1>4, <2>1, <3>1
      <3>2. CASE f # g
        BY <1>2, <1>3, <2>1, <3>2 DEF Keyed, Suspected, W
      <3> QED
        BY <3>1, <3>2
    <2>2. Suspected(u, tx[q])
      BY <2>1 DEF Suspected
    <2>3. Suspected(tx[q], u)
      BY <2>1 DEF Suspected
    <2> QED
      BY <2>2, <2>3
  <1> QED
    BY <1>5, <1>6, <1>7, <1>8 DEF Keyed

(* A step that is not a commit.                                            *)
LEMMA KindKeyed ==
  ASSUME TypeInv, KeyInv, NEW r \in Requests, Kinds(r), ~Commits(r)
  PROVE  \E p, i, l, t : Still /\ Turn(r, p, i, l, t) /\ Keyed(r, p, t)
  <1>1. Keyed(r, pc[r], tx[r])
    BY DEF KeyInv
  <1>2. CASE Starts(r)
    <2>1. PICK p \in {"list", "read"} : \E i : Still /\ pc[r] = "idle" /\ Turn(r, p, i, loc[r], tx[r])
      BY <1>2 DEF Starts
    <2>2. Keyed(r, p, tx[r])
      BY <1>1, <2>1 DEF Keyed, Removed, Early
    <2> QED
      BY <2>1, <2>2
  <1>3. CASE Ends(r)
    BY <1>3, NothingKeyed, Zenon DEF Ends
  <1>4. CASE Goes(r)
    <2>1. PICK p, i, l : Still /\ Flows(r, p, i, l) /\ Turn(r, p, i, l, tx[r])
      BY <1>4 DEF Goes
    <2>2. Keyed(r, p, tx[r])
      BY <1>1, <2>1 DEF Keyed, Removed, Flows
    <2> QED
      BY <2>1, <2>2
  <1>5. CASE Removes(r)
    <2>1. PICK g \in Groups : \E l : /\ Still /\ pc[r] \in {"wipe", "delete"}
                                     /\ Turn(r, pc[r], input[r], l, Delete(r, g))
      BY <1>5 DEF Removes
    <2>2. Reindexed(Delete(r, g), r, g, None)
      BY WriteReindexes, NoRows DEF Delete
    <2>3. Keyed(r, pc[r], Delete(r, g))
      BY <2>1, <2>2, ReindexedKeyed DEF Early
    <2> QED
      BY <2>1, <2>3
  <1>6. CASE Indexes(r)
    <2>1. PICK g \in Groups, idx \in Nat : \E l :
            /\ Still /\ pc[r] \in {"update", "create", "clap"}
            /\ Turn(r, pc[r], input[r], l, WriteGroup(r, g, idx))
      BY <1>6 DEF Indexes
    <2>2. Reindexed(WriteGroup(r, g, idx), r, g, idx)
      BY WriteReindexes
    <2>3. Keyed(r, pc[r], WriteGroup(r, g, idx))
      BY <2>1, <2>2, ReindexedKeyed DEF Early
    <2> QED
      BY <2>1, <2>3
  <1>7. CASE Nests(r)
    <2>0. PICK g \in Groups, idx \in Nat : \E l, s, made, updates :
            /\ Still /\ NestedIn(r, g, l, updates) /\ s.rows \in Partial(Tasks, Row)
            /\ Turn(r, pc[r], input[r], l, WriteTasks(WriteGroup(r, g, idx), r, g, s.rows))
      BY <1>7 DEF Nests
    <2>1. PICK l, s, made, updates :
            /\ Still /\ NestedIn(r, g, l, updates) /\ s.rows \in Partial(Tasks, Row)
            /\ Turn(r, pc[r], input[r], l, WriteTasks(WriteGroup(r, g, idx), r, g, s.rows))
      BY <2>0
    <2> DEFINE u == WriteTasks(WriteGroup(r, g, idx), r, g, s.rows)
    <2>2. Reindexed(u, r, g, idx)
      BY <2>1, WriteReindexes
    <2>3. pc[r] \in {"update", "create"}
      BY <2>1 DEF NestedIn
    <2>4. Still /\ Turn(r, pc[r], input[r], l, u)
      BY <2>1
    <2> HIDE DEF u
    <2>5. Keyed(r, pc[r], u)
      BY <2>2, <2>3, ReindexedKeyed DEF Early
    <2> QED
      BY <2>4, <2>5
  <1> QED
    BY <1>2, <1>3, <1>4, <1>5, <1>6, <1>7 DEF Kinds

(* The rows a commit checks are enough.                                    *)
LEMMA CommitKeepsUnique ==
  ASSUME TypeInv, Locked, KeyInv, NEW r \in Requests, Commits(r)
  PROVE  GroupsAreUnique'
  <1> DEFINE t == tx[r]
             key(g) == IndexIn(t, g)
  <1>1. /\ \A g \in Groups : group'[g] = key(g) /\ GroupsSeen(r)[g] = key(g)
        /\ OrderIsUnique(r)
    BY CommitKeepsLocked, SeenType DEF Commits, IndexIn
  <1>2. Keyed(r, pc[r], t) /\ GroupsAreUnique
    BY DEF KeyInv
  <1>3. t.suspect \subseteq Groups \cap t.wrote
    BY RequestType DEF Txs
  <1>4. \A g \in t.suspect : \A h \in Groups \ {g} : key(h) # key(g)
    BY <1>1, <1>3 DEF OrderIsUnique, IndexIn
  <1> HIDE DEF t
  <1>5. ASSUME NEW g \in Groups, NEW h \in Groups \ {g}, key(g) = key(h), key(g) # None,
               g \in t.wrote
        PROVE  FALSE
    <2>1. g \notin t.suspect /\ h \notin t.suspect /\ key(g) = t.group[g]
      BY <1>4, <1>5 DEF IndexIn
    <2>2. CASE h \in t.wrote
      BY <1>2, <1>5, <2>1, <2>2 DEF Keyed, Suspected, IndexIn
    <2>3. CASE h \notin t.wrote
      BY <1>2, <1>5, <2>1, <2>3 DEF Keyed, Live, IndexIn
    <2> QED
      BY <2>2, <2>3
  <1> SUFFICES ASSUME NEW g \in Groups, NEW h \in Groups, group'[g] = group'[h], group'[g] # None
               PROVE  g = h
    BY DEF GroupsAreUnique
  <1>6. key(g) = key(h) /\ key(g) # None
    BY <1>1
  <1>7. CASE g \notin t.wrote /\ h \notin t.wrote
    BY <1>2, <1>6, <1>7 DEF GroupsAreUnique, IndexIn
  <1>8. CASE g \in t.wrote \/ h \in t.wrote
    BY <1>5, <1>6, <1>8
  <1> QED
    BY <1>7, <1>8

(* Another transaction, whose rows the commit did not wait for, has no     *)
(* index that the commit takes.                                            *)
LEMMA CommitKeepsLive ==
  ASSUME TypeInv, Locked, KeyInv, NEW r \in Requests, Commits(r), NEW q \in Requests \ {r}
  PROVE  Live(tx[q])'
  <1> DEFINE t == tx[q]
  <1>1. tx'[q] = t /\ \A g \in Groups : group'[g] = IndexIn(tx[r], g)
    BY CommitKeepsLocked
  <1>2. Live(t) /\ Suspected(tx[r], t) /\ ~CommitWaits(r, q)
    BY DEF KeyInv, Keyed, Commits
  <1> HIDE DEF t
  <1> SUFFICES ASSUME NEW g \in (Groups \cap t.wrote) \ t.suspect, t.group[g] # None,
                      NEW h \in Groups \ (t.wrote \cup {g}), group'[h] = t.group[g]
               PROVE  FALSE
    BY <1>1 DEF Live
  <1>3. CASE h \notin tx[r].wrote
    BY <1>1, <1>2, <1>3 DEF Live, IndexIn
  <1>4. CASE h \in tx[r].wrote
    <2>1. tx[r].group[h] = t.group[g]
      BY <1>1, <1>4 DEF IndexIn
    <2>2. h \in tx[r].suspect
      BY <1>2, <1>4, <2>1 DEF Suspected
    <2>3. CommitWaits(r, q)
      BY <2>1, <2>2 DEF CommitWaits, t
    <2> QED
      BY <1>2, <2>3
  <1> QED
    BY <1>3, <1>4

LEMMA InitKeyed == Init => KeyInv
  <1> SUFFICES ASSUME Init PROVE KeyInv
    OBVIOUS
  <1>1. GroupsAreUnique
    BY DEF Init, GroupsAreUnique
  <1>2. \A r \in Requests : tx[r] = NoTx
    BY DEF Init
  <1>3. ASSUME NEW r \in Requests PROVE Keyed(r, pc[r], tx[r])
    BY <1>2, NothingKeyed, Zenon
  <1> QED
    BY <1>1, <1>3 DEF KeyInv

LEMMA StepKeyed == TypeInv /\ Locked /\ KeyInv /\ [Next]_vars => KeyInv'
  <1> SUFFICES ASSUME TypeInv, Locked, KeyInv, [Next]_vars PROVE KeyInv'
    OBVIOUS
  <1>1. CASE UNCHANGED vars
    BY <1>1 DEF vars, KeyInv, GroupsAreUnique, Keyed, Live, Removed, Suspected
  <1>2. ASSUME NEW r \in Requests, Kinds(r) PROVE KeyInv'
    <2>1. CASE Commits(r)
      <3>1. /\ pc'[r] = "idle" /\ tx'[r] = NoTx
            /\ \A q \in Requests \ {r} : pc'[q] = pc[q] /\ tx'[q] = tx[q]
        BY <2>1, TurnIs DEF Commits
      <3>2. \A q \in Requests \ {r} : Live(tx[q])'
        BY <2>1, CommitKeepsLive
      <3>3. NoTx.wrote = {}
        BY NoTxType
      <3>4. ASSUME NEW q \in Requests PROVE Keyed(q, pc[q], tx[q])'
        <4>1. CASE q = r
          BY <3>1, <3>3, <4>1 DEF Keyed, Live, Removed, Suspected
        <4>2. CASE q # r
          <5>1. Live(tx[q])' /\ Removed(pc[q], tx[q])' /\ Suspected(tx[q], tx[q])'
            BY <3>1, <3>2, <4>2 DEF KeyInv, Keyed, Removed, Suspected
          <5>2. ASSUME NEW o \in Requests \ {q} PROVE Suspected(tx[q], tx[o])' /\ Suspected(tx[o], tx[q])'
            <6>1. CASE o = r
              BY <3>1, <3>3, <6>1 DEF Suspected
            <6>2. CASE o # r
              BY <3>1, <4>2, <6>2 DEF KeyInv, Keyed, Suspected
            <6> QED
              BY <6>1, <6>2
          <5> QED
            BY <5>1, <5>2 DEF Keyed
        <4> QED
          BY <4>1, <4>2
      <3> QED
        BY <2>1, <3>4, CommitKeepsUnique DEF KeyInv
    <2>2. CASE ~Commits(r)
      <3>1. PICK p, i, l, t : Still /\ Turn(r, p, i, l, t) /\ Keyed(r, p, t)
        BY <1>2, <2>2, KindKeyed
      <3>2. /\ pc'[r] = p /\ tx'[r] = t
            /\ \A q \in Requests \ {r} : pc'[q] = pc[q] /\ tx'[q] = tx[q]
        BY <3>1, TurnIs
      <3>3. group' = group
        BY <3>1 DEF Still
      <3>4. ASSUME NEW q \in Requests PROVE Keyed(q, pc[q], tx[q])'
        <4>1. CASE q = r
          BY <3>1, <3>2, <3>3, <4>1 DEF Keyed, Live, Removed, Suspected
        <4>2. CASE q # r
          <5>1. Live(tx[q])' /\ Removed(pc[q], tx[q])' /\ Suspected(tx[q], tx[q])'
            BY <3>2, <3>3, <4>2 DEF KeyInv, Keyed, Live, Removed, Suspected
          <5>2. ASSUME NEW o \in Requests \ {q} PROVE Suspected(tx[q], tx[o])' /\ Suspected(tx[o], tx[q])'
            <6>1. CASE o = r
              BY <3>1, <3>2, <4>2, <6>1 DEF Keyed, Suspected
            <6>2. CASE o # r
              BY <3>2, <4>2, <6>2 DEF KeyInv, Keyed, Suspected
            <6> QED
              BY <6>1, <6>2
          <5> QED
            BY <5>1, <5>2 DEF Keyed
        <4> QED
          BY <4>1, <4>2
      <3>5. GroupsAreUnique'
        BY <3>3 DEF KeyInv, GroupsAreUnique
      <3> QED
        BY <3>4, <3>5 DEF KeyInv
    <2> QED
      BY <2>1, <2>2
  <1> QED
    BY <1>1, <1>2, StepKinds

(* No two groups are committed with one order index, whatever edits        *)
(* overlap: the rows that Postgres rechecks at a commit, those whose index *)
(* looked taken when it was written, and the transactions it waits for     *)
(* are enough.                                                             *)
THEOREM OrderIndexesAreUnique == Spec => []GroupsAreUnique
  <1>1. Init => TypeInv /\ Locked /\ AllWhole /\ KeyInv
    BY InitType, InitLocked, InitKeyed
  <1>2. TypeInv /\ Locked /\ AllWhole /\ KeyInv /\ [Next]_vars
          => (TypeInv /\ Locked /\ AllWhole /\ KeyInv)'
    BY StepType, StepLocked, StepKeyed
  <1>3. KeyInv => GroupsAreUnique
    BY DEF KeyInv
  <1> QED
    BY <1>1, <1>2, <1>3, PTL DEF Spec


-----------------------------------------------------------------------------
(* What the edit of the groups has read: no two with one order index.      *)
OldOnce == \A r \in Requests : pc[r] = "delete" => IsInjective(loc[r].old)

LEMMA UnlinkAllOnce ==
  ASSUME NEW p \in GroupPacks, IsInjective(p.old), NEW ids, Asks(ids)
  PROVE  IsInjective(UnlinkAll(p, ids).old)
  <1> DEFINE V == {s \in GroupPacks : IsInjective(s.old)}
             m == Len(ids)
  <1>1. ASSUME NEW s \in V, NEW id PROVE Unlink(s, id) \in V
    <2>1. s \in GroupPacks /\ s.at \in Slices(Groups) /\ s.old \in Partial(Groups, Int)
      BY DEF GroupPacks
    <2>2. CASE ~(id \in DOMAIN s.old /\ s.old[id] \in DOMAIN s.at)
      BY <2>1, <2>2 DEF Unlink, Reject, Panic, GroupPacks, Whys
    <2>3. CASE id \in DOMAIN s.old /\ s.old[id] \in DOMAIN s.at
      <3> DEFINE o == [i \in DOMAIN s.old \ {id} |-> s.old[i]]
      <3>1. Unlink(s, id).old = o
        BY <2>1, <2>3 DEF Unlink, GroupPacks
      <3>2. IsInjective(o)
        BY DEF IsInjective
      <3>3. Unlink(s, id) \in GroupPacks
        <4>1. CASE Unlink(s, id) \in Refused(s)
          BY <2>1, <4>1 DEF Refused, Reject, Panic, GroupPacks, Whys
        <4>2. CASE Unlinked(Unlink(s, id), s, Groups)
          BY <2>1, <4>2 DEF Unlinked, GroupPacks
        <4> QED
          BY <2>1, <4>1, <4>2, UnlinkType, Zenon
      <3> QED
        BY <3>1, <3>2, <3>3
    <2> QED
      BY <2>2, <2>3
  <1>2. UnlinkKeeps(V, ids)
    BY <1>1 DEF UnlinkKeeps
  <1>3. p \in V
    OBVIOUS
  <1> HIDE DEF V
  <1>4. PICK st : UnlinkRun(p, ids, st)
    BY <1>2, <1>3, UnlinkSteps
  <1>5. st[0] \in V /\ \A k \in 1 .. m : st[k - 1] \in V => st[k] \in V
    BY <1>2, <1>3, <1>4 DEF UnlinkKeeps, UnlinkRun
  <1>6. st[m] \in V
    BY <1>5, AllStepsStay DEF Asks
  <1> QED
    BY <1>4, <1>6 DEF UnlinkRun, V

(* A transaction that has updated no group yet sees those of the table.    *)
LEMMA ReadOnce ==
  ASSUME TypeInv, KeyInv, NEW r \in Requests, pc[r] \in Early
  PROVE  IsInjective(Rows(GroupsSeen(r)))
  <1> DEFINE rows == Rows(GroupsSeen(r))
  <1>1. /\ GroupsSeen(r) \in [Groups -> Nat \cup {None}]
        /\ \A g \in Groups : GroupsSeen(r)[g] = IF g \in tx[r].wrote THEN tx[r].group[g] ELSE group[g]
    BY SeenType DEF GroupTable
  <1>2. /\ DOMAIN rows = {g \in Groups : GroupsSeen(r)[g] # None}
        /\ \A g \in DOMAIN rows : rows[g] = GroupsSeen(r)[g]
    <2> DEFINE table == GroupsSeen(r)
    <2>1. table \in [Groups -> Nat \cup {None}]
      BY <1>1
    <2> HIDE DEF table
    <2>2. /\ DOMAIN Rows(table) = {g \in Groups : table[g] # None}
          /\ \A g \in DOMAIN Rows(table) : Rows(table)[g] = table[g]
      BY <2>1 DEF Rows
    <2> QED
      BY <2>2 DEF table, rows
  <1>3. \A g \in Groups \cap tx[r].wrote : tx[r].group[g] = None
    BY DEF KeyInv, Keyed, Removed
  <1>4. \A g \in DOMAIN rows : g \in Groups /\ rows[g] = group[g] /\ group[g] # None
    BY <1>1, <1>2, <1>3
  <1> HIDE DEF rows
  <1>5. IsInjective(rows)
    BY <1>4 DEF KeyInv, GroupsAreUnique, IsInjective
  <1> QED
    BY <1>5 DEF rows

LEMMA ProceedLabel ==
  ASSUME TypeInv, NEW r \in Requests, NEW pack, NEW label, Proceed(r, pack, label)
  PROVE  pc'[r] \in {label, "panic", "idle"}
  BY DEF TypeInv, Proceed, Goto, Step, Rollback, End

LEMMA EditTasksLabel ==
  ASSUME TypeInv, NEW r \in Requests, NEW g, NEW req, NEW t, NEW l, EditTasks(r, g, req, t, l)
  PROVE  pc'[r] \in {pc[r], "panic", "idle"}
  <1>1. (\E q : Step(r, pc[r], l, q)) \/ \E pack : Proceed(r, pack, pc[r])
    BY DEF EditTasks
  <1> QED
    BY <1>1, ProceedLabel DEF Step, TypeInv

(* The steps that leave a request where it deletes groups.                 *)
LEMMA ReachesDelete ==
  ASSUME TypeInv, NEW r \in Requests, Acts(r), pc'[r] = "delete"
  PROVE  GetOldTaskGroups(r) \/ DeleteTaskGroup(r)
  <1>1. CASE HandleBulkUpdate(r) \/ HandleCreate(r)
    BY <1>1 DEF HandleBulkUpdate, HandleCreate, Arrive, TypeInv
  <1>2. CASE Fail(r) \/ Recover(r) \/ DeadlockVictim(r) \/ Commit(r)
    BY <1>2 DEF Fail, Recover, DeadlockVictim, Commit, Rollback, End, TypeInv
  <1>3. CASE ListOldGroups(r) \/ WipeGroup(r) \/ EndWipe(r)
    BY <1>3 DEF ListOldGroups, WipeGroup, EndWipe, Step, TypeInv
  <1>4. CASE ReorderUpdatedTaskGroups(r)
    BY <1>4, ProceedLabel DEF ReorderUpdatedTaskGroups
  <1>5. CASE UpdateTaskGroup(r)
    BY <1>5, EditTasksLabel DEF UpdateTaskGroup, Rollback, End, Goto, Step, TypeInv
  <1>6. CASE CheckCreateTaskGroups(r)
    BY <1>6, ProceedLabel DEF CheckCreateTaskGroups
  <1>7. CASE CreateTaskGroup(r)
    BY <1>7, EditTasksLabel DEF CreateTaskGroup
  <1>8. CASE StartClap(r) \/ ClapPack(r) \/ GetNewTaskGroups(r)
    BY <1>8 DEF StartClap, ClapPack, GetNewTaskGroups, Rollback, End, Goto, Step, TypeInv
  <1> QED
    BY <1>1, <1>2, <1>3, <1>4, <1>5, <1>6, <1>7, <1>8 DEF Acts, Serve

LEMMA StepOnce == TypeInv /\ KeyInv /\ OldOnce /\ [Next]_vars => OldOnce'
  <1> SUFFICES ASSUME TypeInv, KeyInv, OldOnce, [Next]_vars PROVE OldOnce'
    OBVIOUS
  <1>1. CASE UNCHANGED vars
    BY <1>1 DEF vars, OldOnce
  <1>2. ASSUME NEW r \in Requests, Acts(r) PROVE OldOnce'
    <2>1. \A q \in Requests \ {r} : pc'[q] = pc[q] /\ loc'[q] = loc[q]
      BY <1>2, ActsKind, KindsTurn, TurnIs
    <2>2. ASSUME pc'[r] = "delete" PROVE IsInjective(loc'[r].old)
      <3>1. CASE DeleteTaskGroup(r)
        <4>1. pc[r] = "delete" /\ loc'[r] = Next1(loc[r])
          BY <3>1 DEF DeleteTaskGroup, Step, TypeInv
        <4>2. Next1(loc[r]).old = loc[r].old
          BY RequestType DEF Next1, Locs
        <4> QED
          BY <4>1, <4>2 DEF OldOnce
      <3>2. CASE GetOldTaskGroups(r)
        <4> DEFINE rows == Rows(GroupsSeen(r))
                   pack == UnlinkAll(Pack(rows), input[r].delete)
                   l == [NoLoc EXCEPT !.at = pack.at, !.old = pack.old, !.why = pack.why,
                                      !.seen = rows]
        <4>1. pc[r] = "read" /\ Proceed(r, l, "delete")
          BY <3>2 DEF GetOldTaskGroups
        <4>2. Pack(rows) \in GroupPacks /\ Pack(rows).old = rows
          <5>1. rows \in Partial(Groups, Int)
            BY RowsSeen
          <5> HIDE DEF rows
          <5>2. /\ Pack(rows).at \in Slices(Groups)
                /\ Pack(rows) = [at |-> Pack(rows).at, old |-> rows, why |-> "ok"]
            BY <5>1, PackType, BulkEditAssumption
          <5>3. ASSUME NEW at \in Slices(Groups)
                PROVE  /\ [at |-> at, old |-> rows, why |-> "ok"] \in GroupPacks
                       /\ [at |-> at, old |-> rows, why |-> "ok"].old = rows
            BY <5>1 DEF GroupPacks, Whys
          <5> QED
            BY <5>2, <5>3, Zenon
        <4>3. IsInjective(rows)
          BY <4>1, ReadOnce DEF Early
        <4> HIDE DEF rows
        <4>4. Asks(input[r].delete)
          BY RequestType, InputType
        <4>5. IsInjective(pack.old)
          BY <4>2, <4>3, <4>4, UnlinkAllOnce
        <4> HIDE DEF pack
        <4>6. l.old = pack.old /\ [l EXCEPT !.next = 1].old = l.old
          BY DEF NoLoc
        <4> HIDE DEF l
        <4>7. loc'[r] = [l EXCEPT !.next = 1]
          BY <2>2, <4>1 DEF Proceed, Goto, Step, Rollback, End, TypeInv
        <4> QED
          BY <4>5, <4>6, <4>7
      <3> QED
        BY <1>2, <2>2, <3>1, <3>2, ReachesDelete
    <2>3. ASSUME NEW q \in Requests, pc'[q] = "delete" PROVE IsInjective(loc'[q].old)
      <3>1. CASE q = r
        BY <2>2, <2>3, <3>1
      <3>2. CASE q # r
        BY <2>1, <2>3, <3>2 DEF OldOnce
      <3> QED
        BY <3>1, <3>2
    <2> QED
      BY <2>3 DEF OldOnce
  <1>3. Next => \E r \in Requests : Acts(r)
    BY DEF Next, Acts
  <1> QED
    BY <1>1, <1>2, <1>3

LEMMA MovesSplit ==
  ASSUME TypeInv, OldOnce
  PROVE  MovesAreSplit
  <1> SUFFICES ASSUME NEW r \in Requests, pc[r] = "delete"
               PROVE  LET pack == Grow(loc[r], Len(input[r].create), Len(input[r].delete))
                          moves == Moves(pack, input[r].update)
                          split == FindTreesAndCycles(Length(pack), moves)
                      IN  EachOnce(input[r].update) /\ MovesAreSound(pack, input[r].update)
                          /\ InSlots(Length(pack), moves) =>
                            ~split.panics /\ SplitsMoves(split, moves)
    BY DEF MovesAreSplit
  <1> DEFINE updates == input[r].update
             created == Len(input[r].create)
             deleted == Len(input[r].delete)
             pack == Grow(loc[r], created, deleted)
             moves == Moves(pack, updates)
             n == Length(pack)
             split == FindTreesAndCycles(n, moves)
  <1>1. /\ loc[r] \in Locs /\ loc[r].at \in Slices(Groups) /\ loc[r].old \in Partial(Groups, Int)
        /\ Asks(updates) /\ \A i \in DOMAIN updates : updates[i].idx \in Int
        /\ created \in Nat /\ deleted \in Nat
    BY RequestType, LocType, InputType DEF Asks
  <1>3. IsInjective(loc[r].old)
    BY DEF OldOnce
  <1> HIDE DEF updates, created, deleted
  <1>4. pack.old = loc[r].old /\ pack.at \in Slices(Groups)
    <2>1. CASE pack = loc[r]
      BY <1>1, <2>1
    <2>2. CASE pack # loc[r]
      <3>1. PICK a \in Slices(Groups) : pack = [loc[r] EXCEPT !.at = a]
        BY <1>1, <2>2, GrowType
      <3> HIDE DEF pack
      <3> QED
        BY <1>1, <3>1 DEF Locs
    <2> QED
      BY <2>1, <2>2
  <1> HIDE DEF pack
  <1>5. n \in Nat
    BY <1>4, SliceIs DEF Length
  <1>6. moves \in Seq(SlotMoves)
    BY <1>1, <1>4, MovesType
  <1>7. ASSUME EachOnce(updates), MovesAreSound(pack, updates), InSlots(n, moves)
        PROVE  ~split.panics /\ SplitsMoves(split, moves)
    <2>3. \A i, j \in DOMAIN updates : updates[i].id = updates[j].id => i = j
      BY <1>7 DEF EachOnce
    <2>1. OneWay(moves)
      BY <1>1, <1>3, <1>4, <1>7, <2>3, MovesOneWay
    <2>2. split = Split(n, moves)
      BY <1>7 DEF FindTreesAndCycles
    <2> HIDE DEF moves, n, split
    <2> QED
      BY <1>5, <1>6, <1>7, <2>1, <2>2, SplitReturnsTheMoves
  <1> QED
    BY <1>7 DEF pack, updates, created, deleted

(* FindTreesAndCycles (permutations.go) returns the moves of an edit that  *)
(* names no group twice as disjoint chains and cycles, and does not        *)
(* dereference a nil pointer, for every number of groups and whatever      *)
(* edits overlap: the edit has read its groups with order indexes that     *)
(* differ, since no others are committed, so that its moves are one to     *)
(* one.                                                                    *)
THEOREM MovesAreChainsAndCycles == Spec => []MovesAreSplit
  <1> DEFINE Inv == TypeInv /\ Locked /\ AllWhole /\ KeyInv /\ OldOnce
  <1>1. Init => Inv
    <2>1. Init => OldOnce
      BY DEF Init, OldOnce
    <2> QED
      BY <2>1, InitType, InitLocked, InitKeyed
  <1>2. Inv /\ [Next]_vars => Inv'
    BY StepType, StepLocked, StepKeyed, StepOnce
  <1>3. Inv => MovesAreSplit
    BY MovesSplit
  <1> QED
    BY <1>1, <1>2, <1>3, PTL DEF Spec


=============================================================================
