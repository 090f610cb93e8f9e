---------------------------- MODULE Permutations ----------------------------
(***************************************************************************)
(* internal/questspace/permutations: the moves of a bulk edit, split into  *)
(* chains (called trees) and cycles.  A move is [prev, next]: the item in  *)
(* slot prev goes to slot next.  Union-find is kept, its path halving is   *)
(* not: it changes no root.                                                *)
(***************************************************************************)
EXTENDS Integers, Sequences, FiniteSets, SequencesExt

(* The members of rows in the order of their values.                       *)
InOrder(rows) ==
  CHOOSE s \in [1 .. Cardinality(DOMAIN rows) -> DOMAIN rows] :
    \A i, j \in DOMAIN s : i < j => s[i] # s[j] /\ rows[s[i]] <= rows[s[j]]

Increasing(S) == InOrder([x \in S |-> x])

Slots(n) == 0 .. n - 1
Nowhere == -1        \* a nil pointer of graph

(* merge: the root of a node.                                              *)
Roots(parent) ==
  LET root[x \in DOMAIN parent] ==
        IF parent[x] = x THEN x ELSE root[parent[x]]
  IN  root

Union(parent, move) ==
  LET root == Roots(parent)
  IN  [parent EXCEPT ![root[move.prev]] = root[move.next]]

Components(n, moves) ==
  LET root == Roots(FoldLeft(Union, [x \in Slots(n) |-> x], moves))
  IN  {{x \in Slots(n) : root[x] = root[y]} : y \in Slots(n)}

(* A slot keeps the last of its moves.                                     *)
Graph(n, moves) ==
  [x \in Slots(n) |->
    LET S == {i \in DOMAIN moves : moves[i].prev = x}
    IN  IF S = {} THEN Nowhere ELSE moves[Max(S)].next]

OutDegree(n, moves) ==  \* mutant: prev for next
  [x \in Slots(n) |-> Cardinality({i \in DOMAIN moves : moves[i].prev = x})]

InDegree(n, moves) ==
  [x \in Slots(n) |-> Cardinality({i \in DOMAIN moves : moves[i].next = x})]

(* The walk through a component in which every slot is entered.  It        *)
(* panics when it has to follow a nil pointer.                             *)
Walk(graph, comp) ==
  LET slot[i \in 1 .. Cardinality(comp)] ==
        IF i = 1 THEN Min(comp)
        ELSE IF slot[i-1] = Nowhere THEN Nowhere ELSE graph[slot[i-1]]
  IN  [i \in 1 .. Cardinality(comp) |-> slot[i]]

WalkPanics(graph, walk) ==
  \E i \in DOMAIN walk : walk[i] = Nowhere \/ graph[walk[i]] = Nowhere

(* Kahn's algorithm: each slot of the component enters the queue at most   *)
(* once.                                                                   *)
Visit(s, graph) ==
  IF s.queue = <<>> THEN s
  ELSE LET x == Head(s.queue)
           y == graph[x]
           t == [s EXCEPT !.queue = Tail(@), !.sorted = Append(@, x)]
       IN  IF y = Nowhere THEN t
           ELSE [t EXCEPT !.degree[y] = @ - 1,
                          !.queue = IF s.degree[y] = 1 THEN Append(@, y) ELSE @]

TopoSort(graph, degree, comp) ==
  LET start == [queue |-> Increasing({x \in comp : degree[x] = 0}),
                sorted |-> <<>>, degree |-> degree]
  IN  FoldLeft(Visit, start, [i \in 1 .. Cardinality(comp) |-> graph]).sorted

Split(n, moves) ==
  LET graph == Graph(n, moves)
      degree == InDegree(n, moves)
      comps == {c \in Components(n, moves) : Cardinality(c) > 1}
      round == {c \in comps : \A x \in c : degree[x] # 0}
  IN  [panics |-> \E c \in round : WalkPanics(graph, Walk(graph, c)),
       trees  |-> {TopoSort(graph, degree, c) : c \in comps \ round},
       cycles |-> {Walk(graph, c) : c \in round}]

NoSplit == [panics |-> TRUE, trees |-> {}, cycles |-> {}]

InSlots(n, moves) ==
  \A i \in DOMAIN moves : moves[i].prev \in Slots(n) /\ moves[i].next \in Slots(n)

(* FindTreesAndCycles: the order of its results is that of a Go map and    *)
(* means nothing, so they are sets.                                        *)
FindTreesAndCycles(n, moves) ==
  IF InSlots(n, moves) THEN Split(n, moves) ELSE NoSplit
-----------------------------------------------------------------------------
(* What it is for: the moves, as disjoint chains that begin where nothing  *)
(* goes and cycles that close.                                             *)
Pairs(s) == {<<s[i], s[i+1]>> : i \in 1 .. Len(s) - 1}

SplitsMoves(split, moves) ==
  LET all == split.trees \cup split.cycles
      pairs == {<<m.prev, m.next>> : m \in Range(moves)}
  IN  /\ (UNION {Pairs(s) : s \in all}) \cup {<<Last(c), Head(c)>> : c \in split.cycles} = pairs
      /\ \A t \in split.trees : \A p \in pairs : p[2] # Head(t) /\ p[1] # Last(t)
      /\ \A s, t \in all : Range(s) \cap Range(t) # {} => s = t
      /\ \A s \in all : IsInjective(s)
=============================================================================
