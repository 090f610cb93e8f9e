-------------------------- MODULE PermutationProofs -------------------------
(***************************************************************************)
(* Proofs about Permutations, for any number of slots and any moves that   *)
(* are one to one (OneWay).                                                *)
(*                                                                         *)
(* Recursive functions and folds are chosen: each is first shown to exist  *)
(* and turned into the states it goes through (FollowsExists, WalkSteps,   *)
(* FoldLeftExists, VisitSteps).  Then union-find keeps the roots it should *)
(* (Linked), so that its components are the least sets of slots that no    *)
(* move leaves or enters; a component in which every slot is entered is a  *)
(* cycle, which Walk goes round (WalkIsCycle); any other has one slot that *)
(* nothing enters, and the queue of Kahn's algorithm holds no more than    *)
(* the next slot of the chain that begins there (TopoIsChain).             *)
(***************************************************************************)
EXTENDS Permutations, FiniteSetTheorems, SequenceTheorems, WellFoundedInduction, TLAPS

(* Induction over the numbers in a set.                                    *)
LEMMA Induction ==
  ASSUME NEW P, 0 \in P, \A n \in Nat : n \in P => n + 1 \in P
  PROVE  Nat \subseteq P
  <1> SUFFICES ASSUME Nat \ P # {} PROVE FALSE
    OBVIOUS
  <1>1. \E m \in Nat \ P : \A y \in Nat \ P : ~ (<<y, m>> \in OpToRel(<, Nat))
    <2>1. Nat \ P \subseteq Nat
      OBVIOUS
    <2> QED
      BY <2>1, NatLessThanWellFounded, WFMin, Zenon
  <1>2. PICK m \in Nat \ P : \A y \in Nat \ P : ~(y < m)
    BY <1>1 DEF OpToRel
  <1>3. m - 1 \in Nat /\ m - 1 \in P
    BY <1>2
  <1> QED
    BY <1>3

LEMMA LastIsMax ==
  ASSUME NEW m \in Nat, NEW s \in SUBSET (1 .. m), m \in s
  PROVE  Max(s) = m
  <1>1. \A x \in s : m >= x
    OBVIOUS
  <1>2. \A x \in s : (\A y \in s : x >= y) => x = m
    OBVIOUS
  <1> QED
    BY <1>1, <1>2 DEF Max

(* A finite set has a last member under any integer value.                 *)
LEMMA LastExists ==
  ASSUME NEW rows, IsFiniteSet(DOMAIN rows), \A x \in DOMAIN rows : rows[x] \in Int,
         DOMAIN rows # {}
  PROVE  \E x \in DOMAIN rows : \A y \in DOMAIN rows : rows[y] <= rows[x]
  <1> DEFINE S == DOMAIN rows
             Highest(D) == D # {} => \E x \in D : \A y \in D : rows[y] <= rows[x]
             P == {m \in Nat : \A D \in SUBSET S : Cardinality(D) = m => Highest(D)}
  <1>1. 0 \in P
    <2>1. ASSUME NEW D \in SUBSET S, Cardinality(D) = 0 PROVE D = {}
      BY <2>1, FS_Subset, FS_EmptySet, Zenon
    <2> QED
      BY <2>1
  <1>2. ASSUME NEW m \in Nat, m \in P PROVE m + 1 \in P
    <2>1. ASSUME NEW D \in SUBSET S, Cardinality(D) = m + 1 PROVE Highest(D)
      <3> SUFFICES ASSUME D # {} PROVE \E x \in D : \A y \in D : rows[y] <= rows[x]
        OBVIOUS
      <3>1. PICK c \in D : TRUE
        OBVIOUS
      <3>2. Cardinality(D \ {c}) = m /\ D \ {c} \in SUBSET S
        <4>1. IsFiniteSet(D)
          BY FS_Subset
        <4>2. Cardinality(D \ {c}) = Cardinality(D) - 1
          BY <4>1, FS_RemoveElement, Zenon
        <4> QED
          BY <2>1, <4>2
      <3>3. CASE D \ {c} = {}
        <4>1. \A y \in D : y = c
          BY <3>3
        <4> QED
          BY <4>1, <3>1
      <3>4. CASE D \ {c} # {}
        <4>1. PICK x \in D \ {c} : \A y \in D \ {c} : rows[y] <= rows[x]
          BY <1>2, <3>2, <3>4
        <4>2. CASE rows[c] <= rows[x]
          BY <4>1, <4>2, <3>1
        <4>3. CASE ~(rows[c] <= rows[x])
          <5>1. \A y \in D : rows[y] <= rows[c]
            BY <4>1, <4>3, <3>1
          <5> QED
            BY <5>1
        <4> QED
          BY <4>2, <4>3
      <3> QED
        BY <3>3, <3>4
    <2> QED
      BY <2>1
  <1> HIDE DEF P
  <1>3. Cardinality(S) \in P
    BY <1>1, <1>2, Induction, FS_CardinalityType
  <1> QED
    BY <1>3 DEF P

Sorts(rows, D, m, s) ==
  /\ s \in [1 .. m -> D]
  /\ \A i, j \in 1 .. m : i < j => s[i] # s[j] /\ rows[s[i]] <= rows[s[j]]

(* InOrder chooses a sequence that exists.                                 *)
LEMMA InOrderSorts ==
  ASSUME NEW rows, IsFiniteSet(DOMAIN rows), \A x \in DOMAIN rows : rows[x] \in Int
  PROVE  /\ Cardinality(DOMAIN rows) \in Nat
         /\ Sorts(rows, DOMAIN rows, Cardinality(DOMAIN rows), InOrder(rows))
  <1> DEFINE S == DOMAIN rows
             P == {m \in Nat : \A D \in SUBSET S : Cardinality(D) = m => \E s : Sorts(rows, D, m, s)}
  <1>1. 0 \in P
    <2>1. ASSUME NEW D \in SUBSET S PROVE \E s : Sorts(rows, D, 0, s)
      <3>1. 1 .. 0 = {}
        OBVIOUS
      <3>2. Sorts(rows, D, 0, [i \in 1 .. 0 |-> rows])
        BY <3>1 DEF Sorts
      <3> QED
        BY <3>2
    <2> QED
      BY <2>1
  <1>2. ASSUME NEW m \in Nat, m \in P PROVE m + 1 \in P
    <2>1. ASSUME NEW D \in SUBSET S, Cardinality(D) = m + 1
          PROVE  \E s : Sorts(rows, D, m + 1, s)
      <3> DEFINE part == [y \in D |-> rows[y]]
      <3>1. IsFiniteSet(D) /\ D # {}
        BY <2>1, FS_Subset, FS_EmptySet
      <3>2. PICK x \in D : \A y \in D : rows[y] <= rows[x]
        <4>1. DOMAIN part = D /\ \A y \in D : part[y] = rows[y]
          OBVIOUS
        <4> HIDE DEF part
        <4>2. \A y \in DOMAIN part : part[y] \in Int
          BY <4>1
        <4>3. \E x \in DOMAIN part : \A y \in DOMAIN part : part[y] <= part[x]
          BY <3>1, <4>1, <4>2, LastExists
        <4> QED
          BY <4>1, <4>3
      <3>3. Cardinality(D \ {x}) = m /\ D \ {x} \in SUBSET S
        <4>1. Cardinality(D \ {x}) = Cardinality(D) - 1
          BY <3>1, FS_RemoveElement, Zenon
        <4> QED
          BY <2>1, <4>1
      <3>4. PICK s : Sorts(rows, D \ {x}, m, s)
        BY <1>2, <3>3
      <3> DEFINE t == [i \in 1 .. m + 1 |-> IF i = m + 1 THEN x ELSE s[i]]
      <3>5. \A i \in 1 .. m + 1 : t[i] = IF i = m + 1 THEN x ELSE s[i]
        OBVIOUS
      <3>6. t \in [1 .. m + 1 -> D]
        BY <3>4 DEF Sorts
      <3> HIDE DEF t
      <3>7. ASSUME NEW i \in 1 .. m + 1, NEW j \in 1 .. m + 1, i < j
            PROVE  t[i] # t[j] /\ rows[t[i]] <= rows[t[j]]
        <4>1. i \in 1 .. m /\ t[i] = s[i] /\ s[i] \in D \ {x}
          BY <3>4, <3>5, <3>7 DEF Sorts
        <4>2. CASE j = m + 1
          BY <3>2, <3>5, <4>1, <4>2
        <4>3. CASE j # m + 1
          <5>1. j \in 1 .. m /\ t[j] = s[j]
            BY <3>5, <4>3
          <5> QED
            BY <3>4, <3>7, <4>1, <5>1 DEF Sorts
        <4> QED
          BY <4>2, <4>3
      <3>8. Sorts(rows, D, m + 1, t)
        BY <3>6, <3>7 DEF Sorts
      <3> QED
        BY <3>8
    <2> QED
      BY <2>1
  <1> HIDE DEF P
  <1>3. Cardinality(S) \in Nat
    BY FS_CardinalityType
  <1>4. Cardinality(S) \in P
    BY <1>1, <1>2, <1>3, Induction
  <1>5. \E s : Sorts(rows, S, Cardinality(S), s)
    BY <1>4 DEF P
  <1>6. \A s \in [1 .. Cardinality(S) -> S] : DOMAIN s = 1 .. Cardinality(S)
    OBVIOUS
  <1>7. InOrder(rows) = CHOOSE s : Sorts(rows, S, Cardinality(S), s)
    BY <1>6, Zenon DEF InOrder, Sorts
  <1> QED
    BY <1>3, <1>5, <1>7

LEMMA IncreasingSorts ==
  ASSUME NEW S, IsFiniteSet(S), S \subseteq Int
  PROVE  /\ Cardinality(S) \in Nat
         /\ Increasing(S) \in [1 .. Cardinality(S) -> S]
         /\ \A i, j \in 1 .. Cardinality(S) : Increasing(S)[i] = Increasing(S)[j] => i = j
  <1> DEFINE rows == [x \in S |-> x]
             m == Cardinality(S)
  <1>1. DOMAIN rows = S /\ \A x \in S : rows[x] \in Int
    OBVIOUS
  <1>2. Increasing(S) = InOrder(rows)
    BY DEF Increasing
  <1> HIDE DEF rows
  <1>3. m \in Nat /\ Sorts(rows, S, m, Increasing(S))
    BY <1>1, <1>2, InOrderSorts
  <1> HIDE DEF m
  <1>4. ASSUME NEW i \in 1 .. m, NEW j \in 1 .. m, i # j
        PROVE  Increasing(S)[i] # Increasing(S)[j]
    <2>1. i < j \/ j < i
      BY <1>3, <1>4
    <2> QED
      BY <1>3, <2>1 DEF Sorts
  <1> QED
    BY <1>3, <1>4 DEF Sorts, m

-----------------------------------------------------------------------------
(* FoldLeft and FoldSet choose a function on all subsets of what they fold *)
(* over.  It exists for a step that stays within a set of values V; a step *)
(* is given as a function F to be the same lemma for all.                  *)
LEMMA MaxIsMember ==
  ASSUME NEW m \in Nat, NEW s \in SUBSET (1 .. m), s # {}
  PROVE  Max(s) \in s /\ \A y \in s : y <= Max(s)
  <1> DEFINE rows == [x \in s |-> x]
  <1>1. DOMAIN rows = s /\ \A x \in s : rows[x] = x
    OBVIOUS
  <1> HIDE DEF rows
  <1>2. IsFiniteSet(s)
    <2>1. 1 \in Int /\ m \in Int
      OBVIOUS
    <2>2. IsFiniteSet(1 .. m)
      BY <2>1, FS_Interval, Zenon
    <2> QED
      BY <2>2, FS_Subset
  <1>3. \E x \in s : \A y \in s : y <= x
    <2>1. \A x \in DOMAIN rows : rows[x] \in Int
      <3>1. s \subseteq Int
        OBVIOUS
      <3> QED
        BY <1>1, <3>1
    <2>2. \E x \in DOMAIN rows : \A y \in DOMAIN rows : rows[y] <= rows[x]
      BY <1>1, <1>2, <2>1, LastExists
    <2> QED
      BY <1>1, <2>2
  <1> QED
    BY <1>3 DEF Max

LastOf(s) == s \ {Max(s)}
LeftFolds(V, b, F, m, f) ==
  /\ f \in [SUBSET (1 .. m) -> V]
  /\ \A s \in SUBSET (1 .. m) : f[s] = IF s = {} THEN b ELSE F[<<f[LastOf(s)], Max(s)>>]

LEMMA FoldLeftExists ==
  ASSUME NEW n \in Nat, NEW V, NEW b \in V, NEW F \in [V \X (1 .. n) -> V]
  PROVE  \E f : LeftFolds(V, b, F, n, f)
  <1> DEFINE P == {m \in Nat : m <= n => \E f : LeftFolds(V, b, F, m, f)}
  <1>1. 0 \in P
    <2> DEFINE f == [s \in SUBSET (1 .. 0) |-> b]
    <2>1. 1 .. 0 = {}
      OBVIOUS
    <2>2. LeftFolds(V, b, F, 0, f)
      BY <2>1 DEF LeftFolds
    <2> QED
      BY <2>2
  <1>2. ASSUME NEW m \in Nat, m \in P PROVE m + 1 \in P
    <2> SUFFICES ASSUME m + 1 <= n PROVE \E f : LeftFolds(V, b, F, m + 1, f)
      OBVIOUS
    <2>1. PICK f : LeftFolds(V, b, F, m, f)
      BY <1>2
    <2> DEFINE g == [s \in SUBSET (1 .. m + 1) |->
                       IF m + 1 \in s THEN F[<<f[s \ {m + 1}], m + 1>>] ELSE f[s]]
    <2>2. \A s \in SUBSET (1 .. m + 1) :
            g[s] = IF m + 1 \in s THEN F[<<f[s \ {m + 1}], m + 1>>] ELSE f[s]
      OBVIOUS
    <2>3. g = [s \in SUBSET (1 .. m + 1) |-> g[s]]
      OBVIOUS
    <2> HIDE DEF g
    <2>4. ASSUME NEW s \in SUBSET (1 .. m + 1)
          PROVE  g[s] \in V /\ g[s] = IF s = {} THEN b ELSE F[<<g[LastOf(s)], Max(s)>>]
      <3>1. CASE m + 1 \in s
        <4>1. Max(s) = m + 1
          BY <3>1, LastIsMax
        <4>2. LastOf(s) \in SUBSET (1 .. m) /\ LastOf(s) \in SUBSET (1 .. m + 1)
          BY <4>1 DEF LastOf
        <4>3. g[LastOf(s)] = f[LastOf(s)] /\ f[LastOf(s)] \in V
          BY <2>1, <2>2, <4>1, <4>2 DEF LeftFolds, LastOf
        <4>4. g[s] = F[<<f[LastOf(s)], m + 1>>] /\ m + 1 \in 1 .. n
          BY <2>2, <3>1, <4>1 DEF LastOf
        <4>5. F[<<f[LastOf(s)], m + 1>>] \in V
          BY <4>3, <4>4
        <4> QED
          BY <3>1, <4>1, <4>3, <4>4, <4>5
      <3>2. CASE m + 1 \notin s
        <4>0. s \in SUBSET (1 .. m)
          BY <3>2
        <4>1. g[s] = f[s]
          BY <2>2, <3>2
        <4>2. LastOf(s) \in SUBSET (1 .. m + 1) /\ m + 1 \notin LastOf(s)
          BY <3>2 DEF LastOf
        <4>3. g[LastOf(s)] = f[LastOf(s)]
          BY <2>2, <4>2
        <4> QED
          BY <2>1, <4>0, <4>1, <4>3 DEF LeftFolds
      <3> QED
        BY <3>1, <3>2
    <2>5. LeftFolds(V, b, F, m + 1, g)
      BY <2>3, <2>4 DEF LeftFolds
    <2> QED
      BY <2>5
  <1>3. \A k \in Nat : k \in P => k + 1 \in P
    BY <1>2
  <1> HIDE DEF P
  <1>4. n \in P
    BY <1>1, <1>3, Induction
  <1> QED
    BY <1>4 DEF P

(* The steps of a fold, one for each prefix.                               *)
LEMMA PrefixOf ==
  ASSUME NEW m \in Nat, NEW k \in 1 .. m
  PROVE  /\ 1 .. k \in SUBSET (1 .. m) /\ 1 .. k # {}
         /\ Max(1 .. k) = k /\ LastOf(1 .. k) = 1 .. k - 1
  <1>1. 1 .. k \in SUBSET (1 .. m) /\ k \in 1 .. k /\ (1 .. k) \ {k} = 1 .. k - 1
    OBVIOUS
  <1>2. Max(1 .. k) = k
    BY <1>1, LastIsMax
  <1> QED
    BY <1>1, <1>2 DEF LastOf

(* What holds of the start and is kept by every step holds at the end.     *)
LEMMA StepsStay ==
  ASSUME NEW n \in Nat, NEW st, NEW G, st[0] \in G[0],
         \A k \in 1 .. n : st[k - 1] \in G[k - 1] => st[k] \in G[k]
  PROVE  \A k \in 0 .. n : st[k] \in G[k]
  <1> DEFINE P == {m \in Nat : m <= n => st[m] \in G[m]}
  <1>1. 0 \in P
    OBVIOUS
  <1>2. ASSUME NEW m \in Nat, m \in P PROVE m + 1 \in P
    <2> SUFFICES ASSUME m + 1 <= n PROVE st[m + 1] \in G[m + 1]
      OBVIOUS
    <2>1. m + 1 \in 1 .. n /\ (m + 1) - 1 = m /\ st[m] \in G[m]
      BY <1>2
    <2> QED
      BY <2>1
  <1> HIDE DEF P
  <1>3. Nat \subseteq P
    BY <1>1, <1>2, Induction
  <1> TAKE k \in 0 .. n
  <1>4. k \in Nat /\ k <= n
    OBVIOUS
  <1>5. k \in P
    BY <1>3, <1>4
  <1> QED
    BY <1>4, <1>5 DEF P

LEMMA AllStepsStay ==
  ASSUME NEW n \in Nat, NEW st, NEW V, st[0] \in V,
         \A k \in 1 .. n : st[k - 1] \in V => st[k] \in V
  PROVE  st[n] \in V
  <1> DEFINE G == [k \in 0 .. n |-> V]
  <1>1. /\ 0 \in 0 .. n /\ n \in 0 .. n /\ \A k \in 1 .. n : k \in 0 .. n /\ k - 1 \in 0 .. n
        /\ \A k \in 0 .. n : G[k] = V
    OBVIOUS
  <1> HIDE DEF G
  <1>2. \A k \in 0 .. n : st[k] \in G[k]
    BY <1>1, StepsStay
  <1> QED
    BY <1>1, <1>2

(* Sequences that lists of an edit and of a pack are.                      *)
Asks(updates) == DOMAIN updates = 1 .. Len(updates) /\ Len(updates) \in Nat

Within(S, m) == {s \in SUBSET S : Cardinality(s) <= m}
AnyOf(s) == CHOOSE x \in s : TRUE
RestOf(s) == s \ {AnyOf(s)}

LEMMA OneLess ==
  ASSUME NEW S, IsFiniteSet(S), NEW m \in Nat, NEW s \in Within(S, m + 1), s # {}
  PROVE  AnyOf(s) \in s /\ RestOf(s) \in Within(S, m)
  <1>1. AnyOf(s) \in s
    BY DEF AnyOf
  <1>2. s \in SUBSET S /\ Cardinality(s) <= m + 1
    BY DEF Within
  <1>3. IsFiniteSet(s)
    BY <1>2, FS_Subset
  <1>4. Cardinality(s) \in Nat /\ Cardinality(RestOf(s)) = Cardinality(s) - 1
    BY <1>1, <1>3, FS_RemoveElement, FS_CardinalityType DEF RestOf
  <1> QED
    BY <1>1, <1>2, <1>4 DEF Within, RestOf

LEMMA NoneWithin ==
  ASSUME NEW S, IsFiniteSet(S), NEW s \in Within(S, 0)
  PROVE  s = {}
  <1>1. IsFiniteSet(s) /\ Cardinality(s) <= 0
    BY FS_Subset DEF Within
  <1> QED
    BY <1>1, FS_EmptySet, FS_CardinalityType

LEMMA AllWithin ==
  ASSUME NEW S, IsFiniteSet(S)
  PROVE  Cardinality(S) \in Nat /\ Within(S, Cardinality(S)) = SUBSET S
  BY FS_Subset, FS_CardinalityType DEF Within

SetFolds(V, b, F, D, f) ==
  /\ f \in [D -> V]
  /\ \A s \in D : f[s] = IF s = {} THEN b ELSE F[<<AnyOf(s), f[RestOf(s)]>>]

LEMMA FoldSetExists ==
  ASSUME NEW S, IsFiniteSet(S), NEW V, NEW b \in V, NEW F \in [S \X V -> V]
  PROVE  \E f : SetFolds(V, b, F, SUBSET S, f)
  <1> DEFINE P == {m \in Nat : \E f : SetFolds(V, b, F, Within(S, m), f)}
  <1>1. 0 \in P
    <2> DEFINE f == [s \in Within(S, 0) |-> b]
    <2>1. SetFolds(V, b, F, Within(S, 0), f)
      BY NoneWithin DEF SetFolds
    <2> QED
      BY <2>1
  <1>2. ASSUME NEW m \in Nat, m \in P PROVE m + 1 \in P
    <2>1. PICK f : SetFolds(V, b, F, Within(S, m), f)
      BY <1>2
    <2> DEFINE g == [s \in Within(S, m + 1) |->
                       IF s = {} THEN b ELSE F[<<AnyOf(s), f[RestOf(s)]>>]]
    <2>2. \A s \in Within(S, m + 1) :
            g[s] = IF s = {} THEN b ELSE F[<<AnyOf(s), f[RestOf(s)]>>]
      OBVIOUS
    <2>3. g = [s \in Within(S, m + 1) |-> g[s]]
      OBVIOUS
    <2> HIDE DEF g
    <2>4. ASSUME NEW s \in Within(S, m) PROVE g[s] = f[s]
      <3>1. s \in Within(S, m + 1)
        <4>1. Cardinality(s) \in Nat
          BY FS_Subset, FS_CardinalityType DEF Within
        <4> QED
          BY <4>1 DEF Within
      <3> QED
        BY <2>1, <2>2, <3>1 DEF SetFolds
    <2>5. ASSUME NEW s \in Within(S, m + 1)
          PROVE  g[s] \in V /\ g[s] = IF s = {} THEN b ELSE F[<<AnyOf(s), g[RestOf(s)]>>]
      <3>1. CASE s = {}
        BY <2>2, <3>1
      <3>2. CASE s # {}
        <4>1. AnyOf(s) \in S /\ RestOf(s) \in Within(S, m)
          BY <3>2, OneLess DEF Within
        <4>2. g[RestOf(s)] = f[RestOf(s)] /\ f[RestOf(s)] \in V
          BY <2>1, <2>4, <4>1 DEF SetFolds
        <4>3. F[<<AnyOf(s), f[RestOf(s)]>>] \in V
          BY <4>1, <4>2
        <4> QED
          BY <2>2, <3>2, <4>2, <4>3
      <3> QED
        BY <3>1, <3>2
    <2>6. SetFolds(V, b, F, Within(S, m + 1), g)
      BY <2>3, <2>5 DEF SetFolds
    <2> QED
      BY <2>6
  <1> HIDE DEF P
  <1>3. Cardinality(S) \in P
    BY <1>1, <1>2, Induction, AllWithin
  <1> QED
    BY <1>3, AllWithin DEF P

(* What holds of the start and is kept by every step holds of the fold.    *)
LEMMA FoldStays ==
  ASSUME NEW S, IsFiniteSet(S), NEW V, NEW f, f[{}] \in V,
         \A s \in SUBSET S : s # {} /\ f[RestOf(s)] \in V => f[s] \in V
  PROVE  f[S] \in V
  <1> DEFINE P == {m \in Nat : \A s \in Within(S, m) : f[s] \in V}
  <1>1. 0 \in P
    <2>1. \A s \in Within(S, 0) : f[s] \in V
      BY NoneWithin
    <2> QED
      BY <2>1
  <1>2. ASSUME NEW m \in Nat, m \in P PROVE m + 1 \in P
    <2>1. ASSUME NEW s \in Within(S, m + 1) PROVE f[s] \in V
      <3>1. CASE s # {}
        BY <1>2, <3>1, OneLess DEF Within
      <3> QED
        BY <3>1
    <2> QED
      BY <2>1
  <1> HIDE DEF P
  <1>3. Cardinality(S) \in P
    BY <1>1, <1>2, Induction, AllWithin
  <1> QED
    BY <1>3, AllWithin DEF P

-----------------------------------------------------------------------------
(* Permutations: chains and cycles are made of slots.                      *)
SlotMoves == [prev : Int, next : Int]
Chains(n) == Seq(Slots(n)) \ {<<>>}

LEMMA SlotsAreFinite ==
  ASSUME NEW n \in Nat
  PROVE  IsFiniteSet(Slots(n)) /\ Slots(n) \subseteq Int /\ Nowhere \notin Slots(n)
  <1>1. 0 \in Int /\ n - 1 \in Int
    OBVIOUS
  <1>2. IsFiniteSet(0 .. n - 1)
    BY <1>1, FS_Interval, Zenon
  <1> QED
    BY <1>2 DEF Slots, Nowhere

LEMMA GraphType ==
  ASSUME NEW n \in Nat, NEW moves \in Seq(SlotMoves), InSlots(n, moves)
  PROVE  Graph(n, moves) \in [Slots(n) -> Slots(n) \cup {Nowhere}]
  <1> DEFINE Out(x) == {i \in DOMAIN moves : moves[i].prev = x}
  <1>1. ASSUME NEW x \in Slots(n), Out(x) # {}
        PROVE  moves[Max(Out(x))].next \in Slots(n)
    <2>1. Len(moves) \in Nat /\ Out(x) \in SUBSET (1 .. Len(moves))
      OBVIOUS
    <2>2. Max(Out(x)) \in Out(x)
      BY <1>1, <2>1, MaxIsMember
    <2> QED
      BY <2>2 DEF InSlots
  <1> QED
    BY <1>1 DEF Graph

LEMMA DegreeType ==
  ASSUME NEW n \in Nat, NEW moves \in Seq(SlotMoves)
  PROVE  InDegree(n, moves) \in [Slots(n) -> Nat]
  <1>1. ASSUME NEW x \in Slots(n) PROVE Cardinality({i \in DOMAIN moves : moves[i].next = x}) \in Nat
    <2>1. IsFiniteSet(1 .. Len(moves))
      <3>1. 1 \in Int /\ Len(moves) \in Int
        OBVIOUS
      <3> QED
        BY <3>1, FS_Interval, Zenon
    <2>2. {i \in DOMAIN moves : moves[i].next = x} \in SUBSET (1 .. Len(moves))
      OBVIOUS
    <2> QED
      BY <2>1, <2>2, FS_Subset, FS_CardinalityType
  <1> QED
    BY <1>1 DEF InDegree

(* A recursion over 1 .. m has a solution.                                 *)
Follows(V, b, F, m, f) ==
  f \in [1 .. m -> V] /\ \A i \in 1 .. m : f[i] = IF i = 1 THEN b ELSE F[f[i - 1]]

LEMMA FollowsExists ==
  ASSUME NEW m \in Nat, NEW V, NEW b \in V, NEW F \in [V -> V]
  PROVE  \E f : Follows(V, b, F, m, f)
  <1> DEFINE P == {k \in Nat : \E f : Follows(V, b, F, k, f)}
  <1>1. 0 \in P
    <2>1. 1 .. 0 = {}
      OBVIOUS
    <2>2. Follows(V, b, F, 0, [i \in 1 .. 0 |-> b])
      BY <2>1 DEF Follows
    <2> QED
      BY <2>2
  <1>2. ASSUME NEW k \in Nat, k \in P PROVE k + 1 \in P
    <2>1. PICK f : Follows(V, b, F, k, f)
      BY <1>2
    <2> DEFINE g == [i \in 1 .. k + 1 |-> IF i = 1 THEN b ELSE F[f[i - 1]]]
    <2>2. \A i \in 1 .. k + 1 : g[i] = IF i = 1 THEN b ELSE F[f[i - 1]]
      OBVIOUS
    <2>3. g = [i \in 1 .. k + 1 |-> g[i]]
      OBVIOUS
    <2> HIDE DEF g
    <2>4. \A i \in 1 .. k : g[i] = f[i]
      BY <2>1, <2>2 DEF Follows
    <2>5. ASSUME NEW i \in 1 .. k + 1
          PROVE  g[i] \in V /\ g[i] = IF i = 1 THEN b ELSE F[g[i - 1]]
      <3>1. CASE i = 1
        BY <2>2, <3>1
      <3>2. CASE i # 1
        <4>1. i - 1 \in 1 .. k
          BY <3>2
        <4>2. g[i - 1] = f[i - 1] /\ f[i - 1] \in V
          BY <2>1, <2>4, <4>1 DEF Follows
        <4> QED
          BY <2>2, <3>2, <4>2
      <3> QED
        BY <3>1, <3>2
    <2>6. Follows(V, b, F, k + 1, g)
      BY <2>3, <2>5 DEF Follows
    <2> QED
      BY <2>6
  <1> HIDE DEF P
  <1>3. m \in P
    BY <1>1, <1>2, Induction
  <1> QED
    BY <1>3 DEF P

LEMMA WalkType ==
  ASSUME NEW n \in Nat, NEW graph \in [Slots(n) -> Slots(n) \cup {Nowhere}],
         NEW comp \in SUBSET Slots(n), Cardinality(comp) > 1,
         ~WalkPanics(graph, Walk(graph, comp))
  PROVE  Walk(graph, comp) \in Chains(n)
  <1> DEFINE V == Slots(n) \cup {Nowhere}
             F == [x \in V |-> IF x = Nowhere THEN Nowhere ELSE graph[x]]
             m == Cardinality(comp)
             b == Min(comp)
             Eq(f) == f = [i \in 1 .. m |->
                            IF i = 1 THEN b
                            ELSE IF f[i - 1] = Nowhere THEN Nowhere ELSE graph[f[i - 1]]]
  <1>1. IsFiniteSet(comp) /\ comp \subseteq Int /\ comp # {} /\ m \in Nat
    <2>1. IsFiniteSet(comp)
      BY SlotsAreFinite, FS_Subset
    <2>2. comp # {}
      BY <2>1, FS_EmptySet
    <2> QED
      BY <2>1, <2>2, SlotsAreFinite, FS_CardinalityType
  <1>2. b \in comp
    <2> DEFINE rows == [x \in comp |-> -x]
    <2>1. DOMAIN rows = comp /\ \A x \in comp : rows[x] = -x
      OBVIOUS
    <2> HIDE DEF rows
    <2>2. ASSUME NEW x \in DOMAIN rows PROVE rows[x] \in Int
      <3>1. x \in Int /\ rows[x] = -x
        BY <1>1, <2>1
      <3> QED
        BY <3>1
    <2>3. PICK x \in comp : \A y \in comp : rows[y] <= rows[x]
      BY <1>1, <2>1, <2>2, LastExists
    <2>4. \A y \in comp : x <= y
      BY <1>1, <2>1, <2>3
    <2> QED
      BY <2>4 DEF Min
  <1>3. F \in [V -> V] /\ b \in V
    BY <1>2
  <1>4. \E f : Eq(f)
    <2>1. PICK f : Follows(V, b, F, m, f)
      <3> HIDE DEF F, m, b, V
      <3> QED
        BY <1>1, <1>3, FollowsExists
    <2>2. ASSUME NEW i \in 1 .. m
          PROVE  f[i] = IF i = 1 THEN b
                        ELSE IF f[i - 1] = Nowhere THEN Nowhere ELSE graph[f[i - 1]]
      <3>1. CASE i = 1
        BY <2>1, <3>1 DEF Follows
      <3>2. CASE i # 1
        <4>1. i - 1 \in 1 .. m
          BY <1>1, <3>2
        <4>2. f[i - 1] \in V /\ f[i] = F[f[i - 1]]
          BY <2>1, <3>2, <4>1 DEF Follows
        <4> QED
          BY <3>2, <4>2
      <3> QED
        BY <3>1, <3>2
    <2>3. f = [i \in 1 .. m |-> f[i]]
      BY <2>1 DEF Follows
    <2>4. Eq(f)
      BY <2>2, <2>3
    <2> QED
      BY <2>4
  <1>5. PICK slot : Eq(slot) /\ Walk(graph, comp) = [i \in 1 .. m |-> slot[i]]
    BY <1>4, Zenon DEF Walk
  <1> DEFINE walk == Walk(graph, comp)
  <1>6. DOMAIN walk = 1 .. m /\ walk = slot
    BY <1>5
  <1>7. \A i \in 1 .. m : slot[i] # Nowhere /\ graph[slot[i]] # Nowhere
    BY <1>5, <1>6 DEF WalkPanics
  <1>8. \A i \in 1 .. m : slot[i] \in Slots(n)
    <2> DEFINE G == [k \in 0 .. m |-> Slots(n)]
               st == [k \in 0 .. m |-> IF k = 0 THEN b ELSE slot[k]]
    <2>1. G[0] = Slots(n) /\ \A k \in 1 .. m : G[k] = Slots(n) /\ G[k - 1] = Slots(n)
      BY <1>1
    <2>2. st[0] = b /\ \A k \in 1 .. m : st[k] = slot[k] /\ st[k - 1] = IF k = 1 THEN b ELSE slot[k - 1]
      BY <1>1
    <2>3. ASSUME NEW k \in 1 .. m, st[k - 1] \in G[k - 1] PROVE st[k] \in G[k]
      <3>1. CASE k = 1
        BY <1>2, <1>5, <2>1, <2>2, <3>1
      <3>2. CASE k # 1
        <4>1. k - 1 \in 1 .. m
          BY <1>1, <3>2
        <4>2. slot[k] = graph[slot[k - 1]] /\ slot[k - 1] \in Slots(n)
          BY <1>5, <1>7, <2>1, <2>2, <2>3, <3>2, <4>1
        <4> QED
          BY <1>7, <2>1, <2>2, <4>2
      <3> QED
        BY <3>1, <3>2
    <2>4. st[0] \in G[0]
      BY <1>2, <2>1, <2>2
    <2> HIDE DEF st, G, m
    <2>5. \A k \in 0 .. m : st[k] \in G[k]
      BY <1>1, <2>3, <2>4, StepsStay
    <2>6. \A k \in 1 .. m : k \in 0 .. m
      BY <1>1
    <2> QED
      BY <2>1, <2>2, <2>5, <2>6
  <1>9. walk \in Seq(Slots(n)) /\ walk # <<>>
    <2>1. walk = [i \in 1 .. m |-> slot[i]] /\ m \in Nat
      BY <1>1, <1>5
    <2>2. walk \in Seq(Slots(n))
      <3> HIDE DEF walk, m
      <3> QED
        BY <1>8, <2>1
    <2>3. 1 \in DOMAIN walk
      BY <1>1, <1>6
    <2> QED
      BY <2>2, <2>3
  <1> QED
    BY <1>9 DEF Chains

-----------------------------------------------------------------------------
Sortings(n) ==
  [queue : Seq(Slots(n)), sorted : Seq(Slots(n)), degree : [Slots(n) -> Int]]

LEMMA AppendType ==
  ASSUME NEW S, NEW s \in Seq(S), NEW x \in S
  PROVE  Append(s, x) \in Seq(S) /\ Append(s, x) # <<>>
  <1>1. Append(s, x) \in Seq(S) /\ Len(Append(s, x)) = Len(s) + 1 /\ Len(s) \in Nat
    OBVIOUS
  <1>2. Len(<<>>) = 0
    OBVIOUS
  <1> QED
    BY <1>1, <1>2

LEMMA VisitType ==
  ASSUME NEW n \in Nat, NEW graph \in [Slots(n) -> Slots(n) \cup {Nowhere}],
         NEW s \in Sortings(n)
  PROVE  /\ Visit(s, graph) \in Sortings(n)
         /\ s.sorted # <<>> \/ s.queue # <<>> => Visit(s, graph).sorted # <<>>
  <1>1. CASE s.queue = <<>>
    BY <1>1 DEF Visit
  <1>2. CASE s.queue # <<>>
    <2> DEFINE x == Head(s.queue)
               y == graph[x]
               t == [s EXCEPT !.queue = Tail(@), !.sorted = Append(@, x)]
    <2>1. /\ s.queue \in Seq(Slots(n)) /\ s.sorted \in Seq(Slots(n))
          /\ s.degree \in [Slots(n) -> Int]
      BY DEF Sortings
    <2>2. x \in Slots(n) /\ Tail(s.queue) \in Seq(Slots(n))
      BY <1>2, <2>1
    <2>3. y \in Slots(n) \cup {Nowhere}
      BY <2>2
    <2>4. Append(s.sorted, x) \in Seq(Slots(n)) /\ Append(s.sorted, x) # <<>>
      <3> HIDE DEF x
      <3> QED
        BY <2>1, <2>2, AppendType
    <2>5. t \in Sortings(n) /\ t.sorted = Append(s.sorted, x)
      BY <2>1, <2>2, <2>4 DEF Sortings
    <2>6. CASE y = Nowhere
      BY <1>2, <2>4, <2>5, <2>6 DEF Visit
    <2>7. CASE y # Nowhere
      <3> DEFINE q == IF s.degree[y] = 1 THEN Append(t.queue, y) ELSE t.queue
                 d == [t.degree EXCEPT ![y] = @ - 1]
      <3>1. Visit(s, graph) = [t EXCEPT !.degree = d, !.queue = q]
        BY <1>2, <2>7 DEF Visit
      <3>2. q \in Seq(Slots(n)) /\ d \in [Slots(n) -> Int]
        <4> HIDE DEF t, y
        <4>1. t.queue \in Seq(Slots(n)) /\ t.degree \in [Slots(n) -> Int] /\ y \in Slots(n)
          BY <2>3, <2>5, <2>7 DEF Sortings
        <4> QED
          BY <4>1
      <3> HIDE DEF t, q, d
      <3>3. [t EXCEPT !.degree = d, !.queue = q] \in Sortings(n)
        BY <2>5, <3>2 DEF Sortings
      <3>4. [t EXCEPT !.degree = d, !.queue = q].sorted = t.sorted
        BY <2>5 DEF Sortings
      <3> QED
        BY <2>4, <2>5, <3>1, <3>3, <3>4
    <2> QED
      BY <2>6, <2>7
  <1> QED
    BY <1>1, <1>2

Visited(b, graphs) == FoldLeft(Visit, b, graphs)
VisitFolds(m, b, graphs, f) ==
  f = [s \in SUBSET (1 .. m) |-> IF s = {} THEN b ELSE Visit(f[LastOf(s)], graphs[Max(s)])]

VisitKeeps(V, graphs) ==
  \A s \in V : \A k \in 1 .. Len(graphs) : Visit(s, graphs[k]) \in V
VisitRun(b, graphs, st) ==
  /\ st[0] = b /\ st[Len(graphs)] = Visited(b, graphs)
  /\ \A k \in 1 .. Len(graphs) : st[k] = Visit(st[k - 1], graphs[k])

LEMMA VisitSteps ==
  ASSUME NEW V, NEW b \in V, NEW graphs, Asks(graphs), VisitKeeps(V, graphs)
  PROVE  \E st : VisitRun(b, graphs, st)
  <1> DEFINE m == Len(graphs)
             F == [p \in V \X (1 .. m) |-> Visit(p[1], graphs[p[2]])]
             Iter == CHOOSE f : VisitFolds(m, b, graphs, f)
             st == [k \in 0 .. m |-> Iter[1 .. k]]
  <1>1. m \in Nat /\ DOMAIN graphs = 1 .. m
    BY DEF Asks
  <1>2. /\ F \in [V \X (1 .. m) -> V]
        /\ \A s \in V : \A k \in 1 .. m : F[<<s, k>>] = Visit(s, graphs[k])
    BY DEF VisitKeeps
  <1>3. Visited(b, graphs) = Iter[1 .. m]
    BY <1>1, Zenon DEF Visited, FoldLeft, MapThenFoldSet, VisitFolds, LastOf
  <1> HIDE DEF F, m
  <1>4. PICK f : LeftFolds(V, b, F, m, f)
    BY <1>1, <1>2, FoldLeftExists
  <1>5. ASSUME NEW s \in SUBSET (1 .. m), s # {} PROVE f[s] = Visit(f[LastOf(s)], graphs[Max(s)])
    <2>1. Max(s) \in 1 .. m /\ LastOf(s) \in SUBSET (1 .. m)
      BY <1>1, <1>5, MaxIsMember DEF LastOf
    <2>2. f[LastOf(s)] \in V /\ f[s] = F[<<f[LastOf(s)], Max(s)>>]
      BY <1>4, <1>5, <2>1 DEF LeftFolds
    <2> QED
      BY <1>2, <2>1, <2>2
  <1>6. f = [s \in SUBSET (1 .. m) |-> f[s]] /\ f[{}] = b
    BY <1>4 DEF LeftFolds
  <1>7. VisitFolds(m, b, graphs, f)
    BY <1>5, <1>6 DEF VisitFolds
  <1>8. VisitFolds(m, b, graphs, Iter)
    BY <1>7
  <1> HIDE DEF Iter
  <1>9. Iter[{}] = b
    BY <1>8 DEF VisitFolds
  <1>10. ASSUME NEW k \in 1 .. m PROVE st[k] = Visit(st[k - 1], graphs[k])
    <2>1. Iter[1 .. k] = Visit(Iter[LastOf(1 .. k)], graphs[Max(1 .. k)])
      BY <1>1, <1>8, PrefixOf DEF VisitFolds
    <2>2. k \in 0 .. m /\ k - 1 \in 0 .. m /\ st[k] = Iter[1 .. k] /\ st[k - 1] = Iter[1 .. k - 1]
      BY <1>1
    <2> HIDE DEF st
    <2> QED
      BY <1>1, <2>1, <2>2, PrefixOf
  <1>11. st[0] = b /\ st[m] = Iter[1 .. m]
    <2>1. 0 \in 0 .. m /\ m \in 0 .. m /\ 1 .. 0 = {}
      BY <1>1
    <2> QED
      BY <1>9, <2>1
  <1> HIDE DEF st
  <1> QED
    BY <1>3, <1>10, <1>11 DEF m, VisitRun

LEMMA TopoType ==
  ASSUME NEW n \in Nat, NEW graph \in [Slots(n) -> Slots(n) \cup {Nowhere}],
         NEW degree \in [Slots(n) -> Int], NEW comp \in SUBSET Slots(n), Cardinality(comp) > 1,
         \E x \in comp : degree[x] = 0
  PROVE  TopoSort(graph, degree, comp) \in Chains(n)
  <1> DEFINE S == {x \in comp : degree[x] = 0}
             m == Cardinality(comp)
             start == [queue |-> Increasing(S), sorted |-> <<>>, degree |-> degree]
             Good == {s \in Sortings(n) : s.sorted # <<>>}
             Ready == {s \in Sortings(n) : s.queue # <<>>}
             graphs == [i \in 1 .. m |-> graph]
  <1>1. IsFiniteSet(comp) /\ m \in Nat
    BY SlotsAreFinite, FS_Subset, FS_CardinalityType
  <1>2. start \in Ready
    <2>1. IsFiniteSet(S) /\ S \subseteq Int /\ S # {}
      BY <1>1, FS_Subset, SlotsAreFinite
    <2>2. Cardinality(S) \in Nat /\ Cardinality(S) # 0
      BY <2>1, FS_EmptySet, FS_CardinalityType
    <2>3. Increasing(S) \in [1 .. Cardinality(S) -> S]
      BY <2>1, IncreasingSorts
    <2>4. Increasing(S) \in Seq(S)
      BY <2>2, <2>3
    <2>5. Increasing(S) \in Seq(Slots(n))
      BY <2>4
    <2>6. Increasing(S) # <<>>
      <3>1. 1 \in DOMAIN Increasing(S)
        BY <2>2, <2>3
      <3> QED
        BY <3>1
    <2> HIDE DEF S
    <2> QED
      BY <2>5, <2>6 DEF Sortings
  <1> HIDE DEF start, m
  <1>3. Asks(graphs) /\ Len(graphs) = m /\ \A k \in 1 .. m : graphs[k] = graph
    BY <1>1 DEF Asks
  <1>4. TopoSort(graph, degree, comp) = Visited(start, graphs).sorted
    BY Zenon DEF TopoSort, Visited, start, m
  <1> HIDE DEF graphs
  <1>5. PICK st : VisitRun(start, graphs, st)
    <2>1. start \in Sortings(n) /\ VisitKeeps(Sortings(n), graphs)
      BY <1>2, <1>3, VisitType DEF VisitKeeps
    <2> QED
      BY <1>3, <2>1, VisitSteps
  <1> DEFINE G == [k \in 0 .. m |-> IF k = 0 THEN Ready ELSE Good]
  <1>6. G[0] = Ready /\ \A k \in 1 .. m : G[k] = Good /\ G[k - 1] = IF k = 1 THEN Ready ELSE Good
    BY <1>1
  <1>7. ASSUME NEW k \in 1 .. m, st[k - 1] \in G[k - 1] PROVE st[k] \in G[k]
    <2>1. st[k] = Visit(st[k - 1], graph)
      BY <1>3, <1>5 DEF VisitRun
    <2>2. st[k - 1] \in Ready \cup Good /\ G[k] = Good
      BY <1>6, <1>7
    <2>3. Visit(st[k - 1], graph) \in Good
      BY <2>2, VisitType
    <2> HIDE DEF G
    <2> QED
      BY <2>1, <2>2, <2>3
  <1> HIDE DEF G
  <1>8. st[m] \in G[m]
    <2>1. \A k \in 0 .. m : st[k] \in G[k]
      BY <1>1, <1>2, <1>5, <1>6, <1>7, StepsStay DEF VisitRun
    <2> QED
      BY <1>1, <2>1
  <1>9. m \in 1 .. m
    BY <1>1 DEF m
  <1>10. Visited(start, graphs) \in Good
    BY <1>3, <1>5, <1>6, <1>8, <1>9 DEF VisitRun
  <1> QED
    BY <1>4, <1>10 DEF Sortings, Chains

-----------------------------------------------------------------------------
LEMMA ImageIsFinite ==
  ASSUME NEW g, IsFiniteSet(DOMAIN g)
  PROVE  IsFiniteSet({g[x] : x \in DOMAIN g})
  <1> DEFINE T == {g[x] : x \in DOMAIN g}
             h == [x \in DOMAIN g |-> g[x]]
  <1>1. h \in Surjection(DOMAIN g, T)
    BY DEF Surjection
  <1> QED
    BY <1>1, FS_Surjection

(* FindTreesAndCycles returns nonempty chains of slots.                    *)
LEMMA SplitType ==
  ASSUME NEW n \in Nat, NEW moves \in Seq(SlotMoves), InSlots(n, moves),
         ~Split(n, moves).panics
  PROVE  LET split == Split(n, moves)
         IN  /\ split.trees \subseteq Chains(n) /\ IsFiniteSet(split.trees)
             /\ split.cycles \subseteq Chains(n) /\ IsFiniteSet(split.cycles)
  <1> DEFINE graph == Graph(n, moves)
             degree == InDegree(n, moves)
             comps == {c \in Components(n, moves) : Cardinality(c) > 1}
             round == {c \in comps : \A x \in c : degree[x] # 0}
             split == Split(n, moves)
             Tree == [c \in comps \ round |-> TopoSort(graph, degree, c)]
             Cycle == [c \in round |-> Walk(graph, c)]
  <1>1. /\ split.panics = \E c \in round : WalkPanics(graph, Walk(graph, c))
        /\ split.trees = {TopoSort(graph, degree, c) : c \in comps \ round}
        /\ split.cycles = {Walk(graph, c) : c \in round}
    BY DEF Split
  <1>2. comps \subseteq SUBSET Slots(n)
    BY DEF Components
  <1>3. graph \in [Slots(n) -> Slots(n) \cup {Nowhere}] /\ degree \in [Slots(n) -> Int]
    BY GraphType, DegreeType
  <1>4. IsFiniteSet(comps) /\ IsFiniteSet(comps \ round) /\ IsFiniteSet(round)
    <2>1. IsFiniteSet(SUBSET Slots(n))
      BY SlotsAreFinite, FS_SUBSET
    <2>2. IsFiniteSet(comps)
      BY <1>2, <2>1, FS_Subset
    <2>3. comps \ round \in SUBSET comps /\ round \in SUBSET comps
      OBVIOUS
    <2> HIDE DEF comps, round
    <2> QED
      BY <2>2, <2>3, FS_Subset
  <1>5. /\ DOMAIN Tree = comps \ round /\ split.trees = {Tree[c] : c \in DOMAIN Tree}
        /\ DOMAIN Cycle = round /\ split.cycles = {Cycle[c] : c \in DOMAIN Cycle}
    BY <1>1
  <1>6. IsFiniteSet(split.trees) /\ IsFiniteSet(split.cycles)
    <2> HIDE DEF Tree, Cycle, split, comps, round
    <2> QED
      BY <1>4, <1>5, ImageIsFinite
  <1>7. ASSUME NEW c \in comps \ round PROVE TopoSort(graph, degree, c) \in Chains(n)
    <2>1. Cardinality(c) > 1 /\ c \in SUBSET Slots(n) /\ \E x \in c : degree[x] = 0
      BY <1>2
    <2> HIDE DEF graph, degree, comps, round
    <2> QED
      BY <1>3, <2>1, TopoType
  <1>8. ASSUME NEW c \in round PROVE Walk(graph, c) \in Chains(n)
    <2>1. Cardinality(c) > 1 /\ c \in SUBSET Slots(n)
      BY <1>2
    <2>2. ~WalkPanics(graph, Walk(graph, c))
      BY <1>1
    <2> HIDE DEF graph, degree, comps, round
    <2> QED
      BY <1>3, <2>1, <2>2, WalkType
  <1> HIDE DEF graph, degree, comps, round, split
  <1> QED
    BY <1>1, <1>6, <1>7, <1>8 DEF split

-----------------------------------------------------------------------------
(* Union-find: d is a depth that falls on the way from a slot to its root, *)
(* and R, where it exists, is what Roots chooses.                          *)
Deep(n, parent, d) ==
  /\ parent \in [Slots(n) -> Slots(n)] /\ d \in [Slots(n) -> Nat]
  /\ \A x \in Slots(n) : parent[x] # x => d[parent[x]] < d[x]
RootsOf(parent, R) == R = [x \in DOMAIN parent |-> IF parent[x] = x THEN x ELSE R[parent[x]]]

LEMMA DepthInduction ==
  ASSUME NEW n \in Nat, NEW parent, NEW d, Deep(n, parent, d), NEW Q,
         \A x \in Slots(n) : parent[x] = x \/ parent[x] \in Q => x \in Q
  PROVE  Slots(n) \subseteq Q
  <1> DEFINE P == {m \in Nat : \A x \in Slots(n) : d[x] < m => x \in Q}
  <1>1. 0 \in P
    BY DEF Deep
  <1>2. ASSUME NEW m \in Nat, m \in P PROVE m + 1 \in P
    <2>1. ASSUME NEW x \in Slots(n), d[x] < m + 1 PROVE x \in Q
      <3>1. CASE parent[x] = x
        BY <3>1
      <3>2. CASE parent[x] # x
        <4>1. /\ parent[x] \in Slots(n) /\ d[parent[x]] \in Nat /\ d[x] \in Nat
              /\ d[parent[x]] < d[x]
          BY <3>2 DEF Deep
        <4>2. d[parent[x]] < m
          BY <2>1, <4>1
        <4> QED
          BY <1>2, <4>1, <4>2
      <3> QED
        BY <3>1, <3>2
    <2> QED
      BY <2>1
  <1> HIDE DEF P
  <1>3. Nat \subseteq P
    BY <1>1, <1>2, Induction
  <1> SUFFICES ASSUME NEW x \in Slots(n) PROVE x \in Q
    OBVIOUS
  <1>4. d[x] \in Nat /\ d[x] + 1 \in Nat /\ d[x] < d[x] + 1
    BY DEF Deep
  <1> QED
    BY <1>3, <1>4 DEF P

LEMMA RootsAgree ==
  ASSUME NEW n \in Nat, NEW parent, NEW d, Deep(n, parent, d),
         NEW R, RootsOf(parent, R)
  PROVE  Roots(parent) = R
  <1> DEFINE root == Roots(parent)
             Q == {x \in Slots(n) : root[x] = R[x]}
  <1>1. root = CHOOSE f : RootsOf(parent, f)
    BY Zenon DEF Roots, RootsOf
  <1> HIDE DEF root
  <1>2. RootsOf(parent, root)
    BY <1>1
  <1>3. DOMAIN parent = Slots(n)
    BY DEF Deep
  <1>4. \A x \in Slots(n) : /\ root[x] = IF parent[x] = x THEN x ELSE root[parent[x]]
                            /\ R[x] = IF parent[x] = x THEN x ELSE R[parent[x]]
    BY <1>2, <1>3 DEF RootsOf
  <1>5. \A x \in Slots(n) : parent[x] = x \/ parent[x] \in Q => x \in Q
    BY <1>4
  <1> HIDE DEF Q
  <1>6. Slots(n) \subseteq Q
    BY <1>5, DepthInduction
  <1>7. root = [x \in Slots(n) |-> root[x]] /\ R = [x \in Slots(n) |-> R[x]]
    BY <1>2, <1>3 DEF RootsOf
  <1> QED
    BY <1>6, <1>7 DEF Q, root

LEMMA RootsType ==
  ASSUME NEW n \in Nat, NEW parent, NEW d, Deep(n, parent, d),
         NEW R, RootsOf(parent, R)
  PROVE  /\ R \in [Slots(n) -> Slots(n)]
         /\ \A x \in Slots(n) : parent[R[x]] = R[x] /\ R[R[x]] = R[x]
  <1> DEFINE Q == {x \in Slots(n) : R[x] \in Slots(n) /\ parent[R[x]] = R[x]}
  <1>1. DOMAIN parent = Slots(n) /\ \A x \in Slots(n) : parent[x] \in Slots(n)
    BY DEF Deep
  <1>2. \A x \in Slots(n) : R[x] = IF parent[x] = x THEN x ELSE R[parent[x]]
    BY <1>1 DEF RootsOf
  <1>3. \A x \in Slots(n) : parent[x] = x \/ parent[x] \in Q => x \in Q
    BY <1>2
  <1> HIDE DEF Q
  <1>4. Slots(n) \subseteq Q
    BY <1>3, DepthInduction
  <1>5. R = [x \in Slots(n) |-> R[x]]
    BY <1>1 DEF RootsOf
  <1>6. \A x \in Slots(n) : R[x] \in Slots(n) /\ parent[R[x]] = R[x] /\ R[R[x]] = R[x]
    BY <1>2, <1>4 DEF Q
  <1> QED
    BY <1>5, <1>6

(* A union joins two trees: the roots of the one become that of the other. *)
Joined(R, move) ==
  [x \in DOMAIN R |-> IF R[x] = R[move.prev] THEN R[move.next] ELSE R[x]]
Deeper(R, d, move) ==
  [x \in DOMAIN R |-> IF R[x] = R[move.prev] /\ R[move.prev] # R[move.next]
                      THEN d[x] + d[R[move.next]] + 1 ELSE d[x]]

LEMMA UnionRoots ==
  ASSUME NEW n \in Nat, NEW parent, NEW d, Deep(n, parent, d),
         NEW R, RootsOf(parent, R),
         NEW move, move.prev \in Slots(n), move.next \in Slots(n)
  PROVE  /\ Deep(n, Union(parent, move), Deeper(R, d, move))
         /\ RootsOf(Union(parent, move), Joined(R, move))
  <1> DEFINE a == R[move.prev]
             b == R[move.next]
             p == Union(parent, move)
             e == Deeper(R, d, move)
             Q == Joined(R, move)
  <1>1. /\ R \in [Slots(n) -> Slots(n)] /\ parent \in [Slots(n) -> Slots(n)]
        /\ d \in [Slots(n) -> Nat]
        /\ \A x \in Slots(n) : /\ parent[R[x]] = R[x] /\ R[R[x]] = R[x]
                               /\ parent[x] # x => d[parent[x]] < d[x]
                               /\ R[x] = IF parent[x] = x THEN x ELSE R[parent[x]]
    <2>1. RootsOf(parent, R) /\ Deep(n, parent, d)
      OBVIOUS
    <2> QED
      BY RootsType DEF Deep, RootsOf
  <1>2. p = [parent EXCEPT ![a] = b]
    BY RootsAgree DEF Union
  <1>3. a \in Slots(n) /\ b \in Slots(n) /\ parent[a] = a /\ parent[b] = b /\ R[a] = a /\ R[b] = b
    BY <1>1
  <1>4. p \in [Slots(n) -> Slots(n)] /\ \A x \in Slots(n) : p[x] = IF x = a THEN b ELSE parent[x]
    BY <1>1, <1>2, <1>3
  <1>5. /\ e \in [Slots(n) -> Nat]
        /\ \A x \in Slots(n) : e[x] = IF R[x] = a /\ a # b THEN d[x] + d[b] + 1 ELSE d[x]
    BY <1>1, <1>3 DEF Deeper
  <1>6. Q = [x \in Slots(n) |-> Q[x]] /\ \A x \in Slots(n) : Q[x] = IF R[x] = a THEN b ELSE R[x]
    BY <1>1 DEF Joined
  <1> HIDE DEF a, b, p, e, Q
  <1>7. ASSUME NEW x \in Slots(n), p[x] # x PROVE e[p[x]] < e[x]
    <2>0. R[x] \in Slots(n) /\ d[x] \in Nat /\ d[b] \in Nat
      BY <1>1, <1>3
    <2>1. CASE x = a
      <3>1. a # b /\ p[x] = b
        BY <1>4, <1>7, <2>1
      <3>2. e[b] = d[b] /\ e[x] = d[x] + d[b] + 1
        BY <1>3, <1>5, <2>1, <3>1
      <3> QED
        BY <2>0, <3>1, <3>2
    <2>2. CASE x # a
      <3>1. p[x] = parent[x] /\ parent[x] # x /\ parent[x] \in Slots(n)
        BY <1>1, <1>4, <1>7, <2>2
      <3>2. d[parent[x]] < d[x] /\ d[parent[x]] \in Nat /\ R[parent[x]] = R[x]
        BY <1>1, <3>1
      <3>3. CASE R[x] = a /\ a # b
        <4>1. e[x] = d[x] + d[b] + 1 /\ e[parent[x]] = d[parent[x]] + d[b] + 1
          BY <1>5, <3>1, <3>2, <3>3
        <4> QED
          BY <2>0, <3>1, <3>2, <4>1
      <3>4. CASE ~(R[x] = a /\ a # b)
        <4>1. e[x] = d[x] /\ e[parent[x]] = d[parent[x]]
          BY <1>5, <3>1, <3>2, <3>4
        <4> QED
          BY <3>1, <3>2, <4>1
      <3> QED
        BY <3>3, <3>4
    <2> QED
      BY <2>1, <2>2
  <1>8. ASSUME NEW x \in Slots(n) PROVE Q[x] = IF p[x] = x THEN x ELSE Q[p[x]]
    <2>1. CASE x = a
      BY <1>3, <1>4, <1>6, <2>1
    <2>2. CASE x # a
      <3>1. p[x] = parent[x] /\ parent[x] \in Slots(n)
        BY <1>1, <1>4, <2>2
      <3>2. CASE parent[x] = x
        <4>1. R[x] = x
          BY <1>1, <3>2
        <4> QED
          BY <1>6, <2>2, <3>1, <3>2, <4>1
      <3>3. CASE parent[x] # x
        <4>1. R[x] = R[parent[x]]
          BY <1>1, <3>3
        <4> QED
          BY <1>6, <3>1, <3>3, <4>1
      <3> QED
        BY <3>2, <3>3
    <2> QED
      BY <2>1, <2>2
  <1>9. Deep(n, p, e)
    BY <1>4, <1>5, <1>7 DEF Deep
  <1>10. RootsOf(p, Q)
    <2>1. DOMAIN p = Slots(n)
      BY <1>4
    <2> QED
      BY <1>6, <1>8, <2>1 DEF RootsOf
  <1> QED
    BY <1>9, <1>10 DEF p, e, Q

(* What is known of the parents when the first k moves have been joined.   *)
EvenUpTo(k, moves, S) == \A i \in 1 .. k : moves[i].prev \in S <=> moves[i].next \in S
Linked(n, k, moves, R) ==
  /\ R \in [Slots(n) -> Slots(n)]
  /\ \A x \in Slots(n) : R[R[x]] = R[x]
  /\ \A i \in 1 .. k : R[moves[i].prev] = R[moves[i].next]
  /\ \A S \in SUBSET Slots(n) : EvenUpTo(k, moves, S) =>
       \A x \in Slots(n) : x \in S <=> R[x] \in S
Forests(n) ==
  {p \in [Slots(n) -> Slots(n)] : \E d, R : Deep(n, p, d) /\ RootsOf(p, R)}
Linkings(n, k, moves) ==
  {p \in Forests(n) : \E d, R : Deep(n, p, d) /\ RootsOf(p, R) /\ Linked(n, k, moves, R)}

LEMMA UnionLinks ==
  ASSUME NEW n \in Nat, NEW moves \in Seq(SlotMoves), InSlots(n, moves),
         NEW k \in 1 .. Len(moves), NEW p \in Linkings(n, k - 1, moves)
  PROVE  Union(p, moves[k]) \in Linkings(n, k, moves)
  <1> DEFINE move == moves[k]
  <1>1. PICK d, R : Deep(n, p, d) /\ RootsOf(p, R) /\ Linked(n, k - 1, moves, R)
    BY DEF Linkings
  <1>2. move.prev \in Slots(n) /\ move.next \in Slots(n)
    BY DEF InSlots
  <1> DEFINE e == Deeper(R, d, move)
             Q == Joined(R, move)
             q == Union(p, move)
  <1>3. Deep(n, q, e) /\ RootsOf(q, Q)
    <2> HIDE DEF move
    <2> QED
      BY <1>1, <1>2, UnionRoots
  <1>4. Q \in [Slots(n) -> Slots(n)] /\ \A x \in Slots(n) : Q[Q[x]] = Q[x]
    <2> HIDE DEF Q, q, e
    <2> QED
      BY <1>3, RootsType
  <1>5. \A x \in Slots(n) : Q[x] = IF R[x] = R[move.prev] THEN R[move.next] ELSE R[x]
    BY <1>1 DEF Joined, Linked
  <1>6. /\ \A x \in Slots(n) : R[x] \in Slots(n)
        /\ \A i \in 1 .. k - 1 : R[moves[i].prev] = R[moves[i].next]
        /\ \A S \in SUBSET Slots(n) : EvenUpTo(k - 1, moves, S) =>
             \A x \in Slots(n) : x \in S <=> R[x] \in S
    BY <1>1 DEF Linked
  <1> HIDE DEF Q, q, e
  <1>7. ASSUME NEW i \in 1 .. k PROVE Q[moves[i].prev] = Q[moves[i].next]
    <2>1. moves[i].prev \in Slots(n) /\ moves[i].next \in Slots(n)
      BY DEF InSlots
    <2>2. CASE i = k
      BY <1>5, <2>1, <2>2
    <2>3. CASE i # k
      <3>1. R[moves[i].prev] = R[moves[i].next]
        BY <1>6, <2>3
      <3> QED
        BY <1>5, <2>1, <3>1
    <2> QED
      BY <2>2, <2>3
  <1>8. ASSUME NEW S \in SUBSET Slots(n), EvenUpTo(k, moves, S), NEW x \in Slots(n)
        PROVE  x \in S <=> Q[x] \in S
    <2>1. EvenUpTo(k - 1, moves, S) /\ (move.prev \in S <=> move.next \in S)
      BY <1>8 DEF EvenUpTo
    <2>2. \A y \in Slots(n) : y \in S <=> R[y] \in S
      BY <1>6, <2>1
    <2> HIDE DEF move
    <2> QED
      BY <1>2, <1>5, <2>1, <2>2
  <1>9. Linked(n, k, moves, Q)
    BY <1>4, <1>7, <1>8 DEF Linked
  <1>10. q \in [Slots(n) -> Slots(n)]
    BY <1>3 DEF Deep
  <1> QED
    BY <1>3, <1>9, <1>10 DEF Linkings, Forests, q

Start(n) == [x \in Slots(n) |-> x]
Unions(n, moves) == FoldLeft(Union, Start(n), moves)
UnionFolds(m, b, moves, f) ==
  f = [s \in SUBSET (1 .. m) |-> IF s = {} THEN b ELSE Union(f[LastOf(s)], moves[Max(s)])]

LEMMA StartLinks ==
  ASSUME NEW n \in Nat, NEW moves
  PROVE  Start(n) \in Linkings(n, 0, moves)
  <1> DEFINE p == Start(n)
             d == [x \in Slots(n) |-> 0]
  <1>1. p \in [Slots(n) -> Slots(n)] /\ \A x \in Slots(n) : p[x] = x
    BY DEF Start
  <1>2. d \in [Slots(n) -> Nat]
    OBVIOUS
  <1> HIDE DEF p, d
  <1>3. Deep(n, p, d) /\ RootsOf(p, p)
    BY <1>1, <1>2 DEF Deep, RootsOf
  <1>4. Linked(n, 0, moves, p)
    BY <1>1 DEF Linked
  <1> QED
    BY <1>1, <1>3, <1>4 DEF Linkings, Forests, p

LEMMA UnionsLink ==
  ASSUME NEW n \in Nat, NEW moves \in Seq(SlotMoves), InSlots(n, moves)
  PROVE  Unions(n, moves) \in Linkings(n, Len(moves), moves)
  <1> DEFINE m == Len(moves)
             b == Start(n)
             V == Forests(n)
             F == [p \in V \X (1 .. m) |-> Union(p[1], moves[p[2]])]
             Iter == CHOOSE f : UnionFolds(m, b, moves, f)
             st == [k \in 0 .. m |-> Iter[1 .. k]]
             G == [k \in 0 .. m |-> Linkings(n, k, moves)]
  <1>1. m \in Nat /\ DOMAIN moves = 1 .. m
    OBVIOUS
  <1>2. ASSUME NEW p \in V, NEW k \in 1 .. m PROVE Union(p, moves[k]) \in V
    <2>1. moves[k].prev \in Slots(n) /\ moves[k].next \in Slots(n)
      BY DEF InSlots
    <2>2. PICK d, R : Deep(n, p, d) /\ RootsOf(p, R)
      BY DEF Forests
    <2> DEFINE q == Union(p, moves[k])
    <2>3. Deep(n, q, Deeper(R, d, moves[k])) /\ RootsOf(q, Joined(R, moves[k]))
      BY <2>1, <2>2, UnionRoots
    <2>4. q \in [Slots(n) -> Slots(n)]
      BY <2>3 DEF Deep
    <2> QED
      BY <2>3, <2>4 DEF Forests
  <1>3. b \in Linkings(n, 0, moves) /\ b \in V
    BY StartLinks DEF Linkings
  <1> HIDE DEF V, b
  <1>4. /\ F \in [V \X (1 .. m) -> V]
        /\ \A p \in V : \A k \in 1 .. m : F[<<p, k>>] = Union(p, moves[k])
    BY <1>2
  <1>5. Unions(n, moves) = Iter[1 .. m]
    BY <1>1, Zenon DEF Unions, FoldLeft, MapThenFoldSet, UnionFolds, LastOf, b
  <1> HIDE DEF F, m
  <1>6. PICK f : LeftFolds(V, b, F, m, f)
    BY <1>1, <1>3, <1>4, FoldLeftExists
  <1>7. ASSUME NEW s \in SUBSET (1 .. m), s # {} PROVE f[s] = Union(f[LastOf(s)], moves[Max(s)])
    <2>1. Max(s) \in 1 .. m /\ LastOf(s) \in SUBSET (1 .. m)
      BY <1>1, <1>7, MaxIsMember DEF LastOf
    <2>2. f[LastOf(s)] \in V /\ f[s] = F[<<f[LastOf(s)], Max(s)>>]
      BY <1>6, <1>7, <2>1 DEF LeftFolds
    <2> QED
      BY <1>4, <2>1, <2>2
  <1>8. f = [s \in SUBSET (1 .. m) |-> f[s]] /\ f[{}] = b
    BY <1>6 DEF LeftFolds
  <1>9. UnionFolds(m, b, moves, f)
    BY <1>7, <1>8 DEF UnionFolds
  <1>10. UnionFolds(m, b, moves, Iter)
    BY <1>9
  <1> HIDE DEF Iter
  <1>11. Iter[{}] = b
    BY <1>10 DEF UnionFolds
  <1>12. ASSUME NEW k \in 1 .. m PROVE st[k] = Union(st[k - 1], moves[k])
    <2>1. Iter[1 .. k] = Union(Iter[LastOf(1 .. k)], moves[Max(1 .. k)])
      BY <1>1, <1>10, PrefixOf DEF UnionFolds
    <2>2. k \in 0 .. m /\ k - 1 \in 0 .. m /\ st[k] = Iter[1 .. k] /\ st[k - 1] = Iter[1 .. k - 1]
      BY <1>1
    <2> HIDE DEF st
    <2> QED
      BY <1>1, <2>1, <2>2, PrefixOf
  <1>13. st[0] = b /\ st[m] = Iter[1 .. m]
    <2>1. 0 \in 0 .. m /\ m \in 0 .. m /\ 1 .. 0 = {}
      BY <1>1
    <2> QED
      BY <1>11, <2>1
  <1>14. \A k \in 0 .. m : G[k] = Linkings(n, k, moves)
    OBVIOUS
  <1> HIDE DEF st, G
  <1>15. ASSUME NEW k \in 1 .. m, st[k - 1] \in G[k - 1] PROVE st[k] \in G[k]
    <2>1. k \in 0 .. m /\ k - 1 \in 0 .. m /\ k \in 1 .. Len(moves)
      BY <1>1 DEF m
    <2>2. st[k - 1] \in Linkings(n, k - 1, moves)
      BY <1>14, <1>15, <2>1
    <2>3. Union(st[k - 1], moves[k]) \in Linkings(n, k, moves)
      BY <2>1, <2>2, UnionLinks
    <2> QED
      BY <1>12, <1>14, <2>1, <2>3
  <1>16. st[0] \in G[0]
    BY <1>1, <1>3, <1>13, <1>14
  <1>17. \A k \in 0 .. m : st[k] \in G[k]
    BY <1>1, <1>15, <1>16, StepsStay
  <1> QED
    BY <1>1, <1>5, <1>13, <1>14, <1>17 DEF m

(* The components are the least nonempty sets of slots that no move leaves *)
(* or enters.                                                              *)
Even(moves, S) == \A i \in DOMAIN moves : moves[i].prev \in S <=> moves[i].next \in S
IsComponent(n, moves, c) ==
  /\ c \in SUBSET Slots(n) /\ c # {} /\ Even(moves, c)
  /\ \A S \in SUBSET Slots(n) : Even(moves, S) /\ S \cap c # {} => c \subseteq S

LEMMA ComponentsAreLeast ==
  ASSUME NEW n \in Nat, NEW moves \in Seq(SlotMoves), InSlots(n, moves)
  PROVE  /\ \A c \in Components(n, moves) : IsComponent(n, moves, c)
         /\ \A x \in Slots(n) : \E c \in Components(n, moves) : x \in c
  <1> DEFINE p == Unions(n, moves)
  <1>1. PICK d, R : Deep(n, p, d) /\ RootsOf(p, R) /\ Linked(n, Len(moves), moves, R)
    BY UnionsLink DEF Linkings
  <1>2. Roots(p) = R
    BY <1>1, RootsAgree
  <1>3. Components(n, moves) = {{x \in Slots(n) : R[x] = R[y]} : y \in Slots(n)}
    BY <1>2 DEF Components, Unions, Start
  <1> HIDE DEF p
  <1>4. DOMAIN moves = 1 .. Len(moves)
    OBVIOUS
  <1>5. \A i \in DOMAIN moves : moves[i].prev \in Slots(n) /\ moves[i].next \in Slots(n)
    BY DEF InSlots
  <1>6. \A S \in SUBSET Slots(n) : Even(moves, S) => \A x \in Slots(n) : x \in S <=> R[x] \in S
    BY <1>1, <1>4 DEF Linked, Even, EvenUpTo
  <1>7. \A i \in DOMAIN moves : R[moves[i].prev] = R[moves[i].next]
    BY <1>1, <1>4 DEF Linked
  <1>8. ASSUME NEW c \in Components(n, moves) PROVE IsComponent(n, moves, c)
    <2>1. PICK y \in Slots(n) : c = {x \in Slots(n) : R[x] = R[y]}
      BY <1>3
    <2>2. y \in c /\ c \in SUBSET Slots(n)
      BY <2>1
    <2>3. Even(moves, c)
      BY <1>5, <1>7, <2>1 DEF Even
    <2>4. ASSUME NEW S \in SUBSET Slots(n), Even(moves, S), NEW z \in S \cap c PROVE c \subseteq S
      <3>1. \A x \in Slots(n) : x \in S <=> R[x] \in S
        BY <1>6, <2>4
      <3> QED
        BY <2>1, <2>4, <3>1
    <2> QED
      BY <2>2, <2>3, <2>4 DEF IsComponent
  <1>9. ASSUME NEW x \in Slots(n) PROVE \E c \in Components(n, moves) : x \in c
    <2> DEFINE c == {z \in Slots(n) : R[z] = R[x]}
    <2>1. c \in Components(n, moves) /\ x \in c
      BY <1>3
    <2> QED
      BY <2>1
  <1> QED
    BY <1>8, <1>9

LEMMA ComponentsAreApart ==
  ASSUME NEW n, NEW moves, NEW b, NEW c,
         IsComponent(n, moves, b), IsComponent(n, moves, c), b \cap c # {}
  PROVE  b = c
  <1>1. b \subseteq c /\ c \subseteq b
    BY DEF IsComponent
  <1> QED
    BY <1>1

-----------------------------------------------------------------------------
(* Moves from and to different slots, none from a slot to itself.          *)
OneWay(moves) ==
  /\ \A i \in DOMAIN moves : moves[i].prev # moves[i].next
  /\ \A i, j \in DOMAIN moves : /\ moves[i].prev = moves[j].prev => i = j
                                /\ moves[i].next = moves[j].next => i = j
Moved(moves, x, y) == \E i \in DOMAIN moves : moves[i].prev = x /\ moves[i].next = y

LEMMA GraphIs ==
  ASSUME NEW n \in Nat, NEW moves \in Seq(SlotMoves), InSlots(n, moves), OneWay(moves)
  PROVE  \A x, y \in Slots(n) : Graph(n, moves)[x] = y <=> Moved(moves, x, y)
  <1> SUFFICES ASSUME NEW x \in Slots(n), NEW y \in Slots(n)
               PROVE  Graph(n, moves)[x] = y <=> Moved(moves, x, y)
    OBVIOUS
  <1> DEFINE Out == {i \in DOMAIN moves : moves[i].prev = x}
  <1>1. Graph(n, moves)[x] = IF Out = {} THEN Nowhere ELSE moves[Max(Out)].next
    BY DEF Graph
  <1>2. Len(moves) \in Nat /\ DOMAIN moves = 1 .. Len(moves) /\ Out \in SUBSET (1 .. Len(moves))
    OBVIOUS
  <1>3. CASE Out = {}
    <2>1. y # Nowhere
      BY SlotsAreFinite
    <2> QED
      BY <1>1, <1>3, <2>1 DEF Moved
  <1>4. CASE Out # {}
    <2>1. Max(Out) \in Out
      <3> HIDE DEF Out
      <3> QED
        BY <1>2, <1>4, MaxIsMember
    <2>2. \A i \in Out : i = Max(Out)
      BY <2>1 DEF OneWay
    <2> QED
      BY <1>1, <1>4, <2>1, <2>2 DEF Moved
  <1> QED
    BY <1>3, <1>4

LEMMA DegreeIs ==
  ASSUME NEW n \in Nat, NEW moves \in Seq(SlotMoves), InSlots(n, moves), OneWay(moves),
         NEW y \in Slots(n)
  PROVE  InDegree(n, moves)[y] = IF \E i \in DOMAIN moves : moves[i].next = y THEN 1 ELSE 0
  <1> DEFINE In == {i \in DOMAIN moves : moves[i].next = y}
  <1>1. InDegree(n, moves)[y] = Cardinality(In)
    BY DEF InDegree
  <1>2. CASE In = {}
    BY <1>1, <1>2, FS_EmptySet
  <1>3. CASE In # {}
    <2>1. PICK i \in DOMAIN moves : moves[i].next = y
      BY <1>3
    <2>2. In = {i}
      BY <2>1 DEF OneWay
    <2>3. Cardinality({i}) = 1
      BY FS_Singleton
    <2> QED
      BY <1>1, <2>1, <2>2, <2>3
  <1> QED
    BY <1>2, <1>3

-----------------------------------------------------------------------------
IsWalk(graph, comp, m, w) ==
  /\ w = [i \in 1 .. m |-> w[i]] /\ w[1] = Min(comp)
  /\ \A i \in 2 .. m : w[i] = IF w[i - 1] = Nowhere THEN Nowhere ELSE graph[w[i - 1]]

LEMMA WalkSteps ==
  ASSUME NEW n \in Nat, NEW graph \in [Slots(n) -> Slots(n) \cup {Nowhere}],
         NEW comp \in SUBSET Slots(n), Cardinality(comp) > 1
  PROVE  /\ IsFiniteSet(comp) /\ Cardinality(comp) \in Nat /\ Min(comp) \in comp
         /\ IsWalk(graph, comp, Cardinality(comp), Walk(graph, comp))
  <1> DEFINE V == Slots(n) \cup {Nowhere}
             F == [x \in V |-> IF x = Nowhere THEN Nowhere ELSE graph[x]]
             m == Cardinality(comp)
             b == Min(comp)
             Eq(f) == f = [i \in 1 .. m |->
                            IF i = 1 THEN b
                            ELSE IF f[i - 1] = Nowhere THEN Nowhere ELSE graph[f[i - 1]]]
  <1>1. IsFiniteSet(comp) /\ comp \subseteq Int /\ comp # {} /\ m \in Nat
    <2>1. IsFiniteSet(comp)
      BY SlotsAreFinite, FS_Subset
    <2>2. comp # {}
      BY <2>1, FS_EmptySet
    <2> QED
      BY <2>1, <2>2, SlotsAreFinite, FS_CardinalityType
  <1>2. b \in comp
    <2> DEFINE rows == [x \in comp |-> -x]
    <2>1. DOMAIN rows = comp /\ \A x \in comp : rows[x] = -x
      OBVIOUS
    <2> HIDE DEF rows
    <2>2. ASSUME NEW x \in DOMAIN rows PROVE rows[x] \in Int
      <3>1. x \in Int /\ rows[x] = -x
        BY <1>1, <2>1
      <3> QED
        BY <3>1
    <2>3. PICK x \in comp : \A y \in comp : rows[y] <= rows[x]
      BY <1>1, <2>1, <2>2, LastExists
    <2>4. \A y \in comp : x <= y
      BY <1>1, <2>1, <2>3
    <2> QED
      BY <2>4 DEF Min
  <1>3. F \in [V -> V] /\ b \in V
    BY <1>2
  <1>4. \E f : Eq(f)
    <2>1. PICK f : Follows(V, b, F, m, f)
      <3> HIDE DEF F, m, b, V
      <3> QED
        BY <1>1, <1>3, FollowsExists
    <2>2. ASSUME NEW i \in 1 .. m
          PROVE  f[i] = IF i = 1 THEN b
                        ELSE IF f[i - 1] = Nowhere THEN Nowhere ELSE graph[f[i - 1]]
      <3>1. CASE i = 1
        BY <2>1, <3>1 DEF Follows
      <3>2. CASE i # 1
        <4>1. i - 1 \in 1 .. m
          BY <1>1, <3>2
        <4>2. f[i - 1] \in V /\ f[i] = F[f[i - 1]]
          BY <2>1, <3>2, <4>1 DEF Follows
        <4> QED
          BY <3>2, <4>2
      <3> QED
        BY <3>1, <3>2
    <2>3. f = [i \in 1 .. m |-> f[i]]
      BY <2>1 DEF Follows
    <2>4. Eq(f)
      BY <2>2, <2>3
    <2> QED
      BY <2>4
  <1>5. PICK slot : Eq(slot) /\ Walk(graph, comp) = [i \in 1 .. m |-> slot[i]]
    BY <1>4, Zenon DEF Walk
  <1>6. /\ slot = [i \in 1 .. m |-> slot[i]]
        /\ \A i \in 1 .. m : slot[i] = IF i = 1 THEN b
                               ELSE IF slot[i - 1] = Nowhere THEN Nowhere ELSE graph[slot[i - 1]]
    BY <1>5
  <1>7. 1 \in 1 .. m /\ \A i \in 2 .. m : i \in 1 .. m /\ i # 1
    BY <1>1
  <1>8. slot = Walk(graph, comp)
    BY <1>5, <1>6
  <1> HIDE DEF m
  <1>9. IsWalk(graph, comp, m, slot)
    BY <1>6, <1>7 DEF IsWalk
  <1> QED
    BY <1>1, <1>2, <1>8, <1>9 DEF m

(* What holds of the first slot of a walk and is kept by the graph holds   *)
(* of all of them.                                                         *)
LEMMA WalkStays ==
  ASSUME NEW graph, NEW comp, NEW m \in Nat, NEW w, IsWalk(graph, comp, m, w),
         NEW S, Min(comp) \in S, Nowhere \notin S, \A x \in S : graph[x] \in S
  PROVE  \A i \in 1 .. m : w[i] \in S
  <1> DEFINE P == {k \in Nat : k \in 1 .. m => w[k] \in S}
  <1>1. 0 \in P
    OBVIOUS
  <1>2. ASSUME NEW k \in Nat, k \in P PROVE k + 1 \in P
    <2> SUFFICES ASSUME k + 1 \in 1 .. m PROVE w[k + 1] \in S
      OBVIOUS
    <2>1. CASE k = 0
      BY <2>1 DEF IsWalk
    <2>2. CASE k # 0
      <3>1. k \in 1 .. m /\ k + 1 \in 2 .. m /\ (k + 1) - 1 = k
        BY <2>2
      <3>2. w[k] \in S
        BY <1>2, <3>1
      <3>3. w[k + 1] = graph[w[k]]
        BY <3>1, <3>2 DEF IsWalk
      <3> QED
        BY <3>2, <3>3
    <2> QED
      BY <2>1, <2>2
  <1> HIDE DEF P
  <1>3. Nat \subseteq P
    BY <1>1, <1>2, Induction
  <1> TAKE i \in 1 .. m
  <1>4. i \in P
    BY <1>3
  <1> QED
    BY <1>4 DEF P

(* The chains and cycles the moves of a component make.                    *)
IsPath(graph, c, s) ==
  /\ Range(s) = c /\ IsInjective(s)
  /\ \A i \in 1 .. Len(s) - 1 : graph[s[i]] = s[i + 1]
IsCycle(graph, c, s) == IsPath(graph, c, s) /\ graph[s[Len(s)]] = s[1]
IsChain(graph, degree, c, s) ==
  IsPath(graph, c, s) /\ graph[s[Len(s)]] = Nowhere /\ degree[s[1]] = 0

LEMMA InjectiveImage ==
  ASSUME NEW m \in Nat, NEW w, DOMAIN w = 1 .. m, NEW c, IsFiniteSet(c), Cardinality(c) = m,
         \A i \in 1 .. m : w[i] \in c, IsInjective(w)
  PROVE  Range(w) = c
  <1> DEFINE h == [i \in 1 .. m |-> w[i]]
  <1>1. h \in Injection(1 .. m, c)
    BY DEF Injection, IsInjective
  <1>2. Cardinality(1 .. m) = m
    <2>1. 1 \in Int /\ m \in Int
      OBVIOUS
    <2>2. Cardinality(1 .. m) = IF 1 > m THEN 0 ELSE m - 1 + 1
      BY <2>1, FS_Interval, Zenon
    <2> QED
      BY <2>2
  <1>3. h \in Surjection(1 .. m, c)
    BY <1>1, <1>2, FS_Injection
  <1> QED
    BY <1>3 DEF Surjection, Range

LEMMA FewMembers ==
  ASSUME NEW k \in Nat, NEW w
  PROVE  /\ IsFiniteSet({w[i] : i \in 1 .. k})
         /\ Cardinality({w[i] : i \in 1 .. k}) \in Nat
         /\ Cardinality({w[i] : i \in 1 .. k}) <= k
  <1> DEFINE T == {w[i] : i \in 1 .. k}
             h == [i \in 1 .. k |-> w[i]]
  <1>1. h \in Surjection(1 .. k, T)
    BY DEF Surjection
  <1>2. IsFiniteSet(1 .. k) /\ Cardinality(1 .. k) = k
    <2>1. 1 \in Int /\ k \in Int
      OBVIOUS
    <2>2. IsFiniteSet(1 .. k) /\ Cardinality(1 .. k) = IF 1 > k THEN 0 ELSE k - 1 + 1
      BY <2>1, FS_Interval, Zenon
    <2> QED
      BY <2>2
  <1> HIDE DEF T, h
  <1>3. IsFiniteSet(T) /\ Cardinality(T) <= k
    BY <1>1, <1>2, FS_Surjection
  <1>4. Cardinality(T) \in Nat
    BY <1>3, FS_CardinalityType
  <1> QED
    BY <1>3, <1>4 DEF T

(* A component as the graph of its moves shows it.                         *)
Ways(n, graph, degree) ==
  /\ graph \in [Slots(n) -> Slots(n) \cup {Nowhere}] /\ degree \in [Slots(n) -> {0, 1}]
  /\ \A x, y \in Slots(n) : graph[x] = graph[y] /\ graph[x] # Nowhere => x = y
  /\ \A x \in Slots(n) : graph[x] # x
  /\ \A y \in Slots(n) : degree[y] = 1 <=> \E x \in Slots(n) : graph[x] = y
Closed(n, graph, S) == \A x \in Slots(n) : graph[x] # Nowhere => (x \in S <=> graph[x] \in S)
Least(n, graph, c) ==
  /\ c \in SUBSET Slots(n) /\ Closed(n, graph, c)
  /\ \A S \in SUBSET Slots(n) : Closed(n, graph, S) /\ S \cap c # {} => c \subseteq S

LEMMA MovesAreWays ==
  ASSUME NEW n \in Nat, NEW moves \in Seq(SlotMoves), InSlots(n, moves), OneWay(moves)
  PROVE  Ways(n, Graph(n, moves), InDegree(n, moves))
  <1> DEFINE g == Graph(n, moves)
             d == InDegree(n, moves)
  <1>1. g \in [Slots(n) -> Slots(n) \cup {Nowhere}] /\ d \in [Slots(n) -> Nat]
    BY GraphType, DegreeType
  <1>2. \A x, y \in Slots(n) : g[x] = y <=> Moved(moves, x, y)
    BY GraphIs
  <1>3. \A y \in Slots(n) : d[y] = IF \E i \in DOMAIN moves : moves[i].next = y THEN 1 ELSE 0
    BY DegreeIs
  <1> HIDE DEF g, d
  <1>4. \A i \in DOMAIN moves : moves[i].prev \in Slots(n) /\ moves[i].next \in Slots(n)
    BY DEF InSlots
  <1>5. ASSUME NEW x \in Slots(n), NEW y \in Slots(n), g[x] = g[y], g[x] # Nowhere PROVE x = y
    <2>1. g[x] \in Slots(n)
      BY <1>1, <1>5
    <2>2. Moved(moves, x, g[x]) /\ Moved(moves, y, g[x])
      BY <1>2, <1>5, <2>1
    <2> QED
      BY <2>2 DEF Moved, OneWay
  <1>6. \A x \in Slots(n) : g[x] # x
    BY <1>2 DEF Moved, OneWay
  <1>7. ASSUME NEW y \in Slots(n) PROVE d[y] = 1 <=> \E x \in Slots(n) : g[x] = y
    BY <1>2, <1>3, <1>4 DEF Moved
  <1>8. d \in [Slots(n) -> {0, 1}]
    BY <1>1, <1>3
  <1>9. Ways(n, g, d)
    BY <1>1, <1>5, <1>6, <1>7, <1>8 DEF Ways
  <1> QED
    BY <1>9 DEF g, d

LEMMA ClosedIsEven ==
  ASSUME NEW n \in Nat, NEW moves \in Seq(SlotMoves), InSlots(n, moves), OneWay(moves),
         NEW S \in SUBSET Slots(n)
  PROVE  Closed(n, Graph(n, moves), S) <=> Even(moves, S)
  <1> DEFINE g == Graph(n, moves)
  <1>1. \A x, y \in Slots(n) : g[x] = y <=> Moved(moves, x, y)
    BY GraphIs
  <1>2. \A x \in Slots(n) : g[x] \in Slots(n) \cup {Nowhere}
    BY GraphType
  <1>3. \A i \in DOMAIN moves : moves[i].prev \in Slots(n) /\ moves[i].next \in Slots(n)
    BY DEF InSlots
  <1>4. Nowhere \notin Slots(n)
    BY SlotsAreFinite
  <1> HIDE DEF g
  <1>5. ASSUME Closed(n, g, S), NEW i \in DOMAIN moves
        PROVE  moves[i].prev \in S <=> moves[i].next \in S
    <2>1. Moved(moves, moves[i].prev, moves[i].next)
      BY DEF Moved
    <2>2. g[moves[i].prev] = moves[i].next
      BY <1>1, <1>3, <2>1
    <2> QED
      BY <1>3, <1>4, <1>5, <2>2 DEF Closed
  <1>6. ASSUME Even(moves, S), NEW x \in Slots(n), g[x] # Nowhere PROVE x \in S <=> g[x] \in S
    <2>1. g[x] \in Slots(n)
      BY <1>2, <1>6
    <2>2. Moved(moves, x, g[x])
      BY <1>1, <2>1
    <2> QED
      BY <1>6, <2>2 DEF Moved, Even
  <1>7. Closed(n, g, S) <=> Even(moves, S)
    BY <1>5, <1>6 DEF Closed, Even
  <1> QED
    BY <1>7 DEF g

LEMMA ComponentIsLeast ==
  ASSUME NEW n \in Nat, NEW moves \in Seq(SlotMoves), InSlots(n, moves), OneWay(moves),
         NEW c, IsComponent(n, moves, c)
  PROVE  Least(n, Graph(n, moves), c)
  BY ClosedIsEven DEF IsComponent, Least

(* A component in which every slot is entered is one cycle: as many slots  *)
(* are left as are entered, so none is without a way on.                   *)
LEMMA AllAreLeft ==
  ASSUME NEW n \in Nat, NEW g, NEW d, Ways(n, g, d), NEW c, Least(n, g, c),
         \A x \in c : d[x] # 0
  PROVE  \A x \in c : g[x] \in c
  <1> DEFINE D == {x \in c : g[x] # Nowhere}
             h == [x \in D |-> g[x]]
  <1>1. IsFiniteSet(c) /\ Nowhere \notin Slots(n) /\ c \in SUBSET Slots(n)
    BY SlotsAreFinite, FS_Subset DEF Least
  <1>2. IsFiniteSet(D) /\ Cardinality(D) <= Cardinality(c) /\ (Cardinality(c) = Cardinality(D) => c = D)
    <2>1. D \in SUBSET c
      OBVIOUS
    <2> HIDE DEF D
    <2> QED
      BY <1>1, <2>1, FS_Subset
  <1>3. ASSUME NEW y \in c PROVE \E x \in D : g[x] = y
    <2>1. d[y] = 1
      BY <1>1 DEF Ways
    <2>2. PICK x \in Slots(n) : g[x] = y
      BY <1>1, <2>1 DEF Ways
    <2>3. g[x] # Nowhere
      BY <1>1, <2>2
    <2>4. x \in c
      BY <2>2, <2>3 DEF Least, Closed
    <2> QED
      BY <2>2, <2>3, <2>4
  <1>4. \A x \in D : g[x] \in c
    BY <1>1 DEF Least, Closed
  <1>5. h \in Surjection(D, c)
    BY <1>3, <1>4 DEF Surjection
  <1> HIDE DEF D, h
  <1>6. Cardinality(c) <= Cardinality(D)
    BY <1>2, <1>5, FS_Surjection
  <1>7. Cardinality(c) \in Nat /\ Cardinality(D) \in Nat
    BY <1>1, <1>2, FS_CardinalityType
  <1>8. c = D
    BY <1>2, <1>6, <1>7
  <1> QED
    BY <1>4, <1>8

LEMMA WalkIsCycle ==
  ASSUME NEW n \in Nat, NEW g, NEW d, Ways(n, g, d), NEW c, Least(n, g, c),
         Cardinality(c) > 1, \A x \in c : d[x] # 0
  PROVE  IsCycle(g, c, Walk(g, c)) /\ ~WalkPanics(g, Walk(g, c))
  <1> DEFINE w == Walk(g, c)
             m == Cardinality(c)
  <1>1. /\ g \in [Slots(n) -> Slots(n) \cup {Nowhere}] /\ c \in SUBSET Slots(n)
        /\ \A x, y \in Slots(n) : g[x] = g[y] /\ g[x] # Nowhere => x = y
        /\ Nowhere \notin c
    BY SlotsAreFinite DEF Ways, Least
  <1>2. IsFiniteSet(c) /\ m \in Nat /\ m > 1 /\ Min(c) \in c /\ IsWalk(g, c, m, w)
    BY <1>1, WalkSteps
  <1>3. \A x \in c : g[x] \in c
    BY AllAreLeft
  <1> HIDE DEF w, m
  <1>4. \A i \in 1 .. m : w[i] \in c
    BY <1>1, <1>2, <1>3, WalkStays
  <1>5. DOMAIN w = 1 .. m
    BY <1>2 DEF IsWalk
  <1>6. \A i \in 2 .. m : i \in 1 .. m /\ i - 1 \in 1 .. m /\ w[i] = g[w[i - 1]]
    <2> TAKE i \in 2 .. m
    <2>1. i \in 1 .. m /\ i - 1 \in 1 .. m
      BY <1>2
    <2>2. w[i - 1] # Nowhere
      BY <1>1, <1>4, <2>1
    <2>3. w[i] = IF w[i - 1] = Nowhere THEN Nowhere ELSE g[w[i - 1]]
      BY <1>2 DEF IsWalk
    <2> QED
      BY <2>1, <2>2, <2>3
  (* Two equal places are i - 1 steps after two earlier ones.              *)
  <1> DEFINE P == {i \in Nat : \A j \in 1 .. m : i \in 1 .. m /\ i < j => w[i] # w[j]}
  <1>7. \A j \in 2 .. m : w[1] # w[j]
    <2> SUFFICES ASSUME NEW j \in 2 .. m, w[1] = w[j] PROVE FALSE
      OBVIOUS
    <2> DEFINE S == {w[i] : i \in 1 .. j - 1}
    <2>1. j \in Nat /\ j - 1 \in Nat /\ j - 1 < m /\ \A i \in 1 .. j - 1 : i \in 1 .. m /\ i + 1 \in 2 .. m
      BY <1>2
    <2>2. S \in SUBSET Slots(n) /\ w[1] \in S /\ w[1] \in c
      <3>1. 1 \in 1 .. j - 1 /\ 1 \in 1 .. m
        BY <1>2
      <3> QED
        BY <1>1, <1>4, <2>1, <3>1
    <2>3. ASSUME NEW x \in S PROVE g[x] \in S
      <3>1. PICK i \in 1 .. j - 1 : x = w[i]
        BY <2>3
      <3>2. i + 1 \in 2 .. m /\ (i + 1) - 1 = i
        BY <2>1
      <3>3. g[x] = w[i + 1]
        BY <1>6, <3>1, <3>2
      <3>4. CASE i + 1 = j
        BY <2>2, <3>3, <3>4
      <3>5. CASE i + 1 # j
        <4>1. i + 1 \in 1 .. j - 1
          BY <3>5, <2>1
        <4> QED
          BY <3>3, <4>1
      <3> QED
        BY <3>4, <3>5
    <2>4. ASSUME NEW y \in Slots(n), g[y] \in S PROVE y \in S
      <3>1. PICK i \in 1 .. j - 1 : g[y] = w[i]
        BY <2>4
      <3> DEFINE k == IF i = 1 THEN j - 1 ELSE i - 1
      <3>2. k \in 1 .. j - 1 /\ k \in 1 .. m
        BY <1>2, <2>1
      <3>3. g[w[k]] = w[i]
        <4>1. CASE i = 1
          <5>1. g[w[j - 1]] = w[j]
            BY <1>6
          <5> QED
            BY <4>1, <5>1
        <4>2. CASE i # 1
          <5>1. i \in 2 .. m
            BY <4>2, <2>1
          <5>2. w[i] = g[w[i - 1]]
            BY <1>6, <5>1
          <5> QED
            BY <4>2, <5>2
        <4> QED
          BY <4>1, <4>2
      <3> HIDE DEF k
      <3>4. w[k] \in Slots(n) /\ w[k] \in S /\ g[y] # Nowhere
        BY <1>1, <1>4, <2>1, <3>1, <3>2
      <3>5. y = w[k]
        BY <1>1, <3>1, <3>3, <3>4
      <3> QED
        BY <3>4, <3>5
    <2>5. Closed(n, g, S)
      BY <2>3, <2>4 DEF Closed
    <2>6. c \subseteq S
      <3> HIDE DEF S
      <3>1. S \cap c # {}
        BY <2>2
      <3> QED
        BY <2>2, <2>5, <3>1 DEF Least
    <2>7. IsFiniteSet(S) /\ Cardinality(S) \in Nat /\ Cardinality(S) <= j - 1
      BY <2>1, FewMembers
    <2> HIDE DEF S
    <2>8. m <= Cardinality(S)
      BY <2>6, <2>7, FS_Subset DEF m
    <2> QED
      BY <1>2, <2>1, <2>7, <2>8
  <1>8. 0 \in P
    OBVIOUS
  <1>9. ASSUME NEW i \in Nat, i \in P PROVE i + 1 \in P
    <2> SUFFICES ASSUME NEW j \in 1 .. m, i + 1 \in 1 .. m, i + 1 < j, w[i + 1] = w[j] PROVE FALSE
      OBVIOUS
    <2>1. CASE i = 0
      <3>1. j \in 2 .. m
        BY <2>1
      <3> QED
        BY <1>7, <2>1, <3>1
    <2>2. CASE i # 0
      <3>1. /\ i \in 1 .. m /\ j - 1 \in 1 .. m /\ i < j - 1 /\ i + 1 \in 2 .. m /\ j \in 2 .. m
            /\ (i + 1) - 1 = i
        BY <1>2, <2>2
      <3>2. g[w[i]] = g[w[j - 1]]
        BY <1>6, <3>1
      <3>3. w[i] \in Slots(n) /\ w[j - 1] \in Slots(n) /\ g[w[i]] # Nowhere
        BY <1>1, <1>3, <1>4, <3>1
      <3>4. w[i] = w[j - 1]
        BY <1>1, <3>2, <3>3
      <3> QED
        BY <1>9, <3>1, <3>4
    <2> QED
      BY <2>1, <2>2
  <1> HIDE DEF P
  <1>10. Nat \subseteq P
    BY <1>8, <1>9, Induction
  <1>11. ASSUME NEW i \in 1 .. m, NEW j \in 1 .. m, w[i] = w[j] PROVE i = j
    <2>1. i \in P /\ j \in P
      BY <1>10
    <2>2. ~(i < j) /\ ~(j < i)
      BY <1>11, <2>1 DEF P
    <2> QED
      BY <2>2
  <1>12. IsInjective(w)
    BY <1>5, <1>11 DEF IsInjective
  <1>13. Range(w) = c
    BY <1>2, <1>4, <1>5, <1>12, InjectiveImage DEF m
  <1>14. Len(w) = m
    BY <1>2, <1>5
  <1>15. \A i \in 1 .. Len(w) - 1 : g[w[i]] = w[i + 1]
    <2> TAKE i \in 1 .. Len(w) - 1
    <2>1. i + 1 \in 2 .. m /\ (i + 1) - 1 = i
      BY <1>2, <1>14
    <2> QED
      BY <1>6, <2>1
  <1>16. g[w[m]] = w[1]
    <2>1. m \in 1 .. m /\ w[m] \in c
      BY <1>2, <1>4
    <2>2. PICK k \in 1 .. m : g[w[m]] = w[k]
      BY <1>3, <1>5, <1>13, <2>1 DEF Range
    <2>3. CASE k = 1
      BY <2>2, <2>3
    <2>4. CASE k # 1
      <3>1. k \in 2 .. m /\ k - 1 \in 1 .. m /\ k - 1 # m
        BY <2>4, <1>2
      <3>2. g[w[k - 1]] = g[w[m]]
        BY <1>6, <2>2, <3>1
      <3>3. w[k - 1] \in Slots(n) /\ w[m] \in Slots(n) /\ g[w[m]] # Nowhere
        BY <1>1, <1>3, <1>4, <2>1, <3>1
      <3>4. w[k - 1] = w[m]
        BY <1>1, <3>2, <3>3
      <3> QED
        BY <1>11, <2>1, <3>1, <3>4
    <2> QED
      BY <2>3, <2>4
  <1>17. IsCycle(g, c, w)
    BY <1>12, <1>13, <1>14, <1>15, <1>16 DEF IsCycle, IsPath
  <1>18. ~WalkPanics(g, w)
    BY <1>1, <1>3, <1>4, <1>5 DEF WalkPanics
  <1> QED
    BY <1>17, <1>18 DEF w

-----------------------------------------------------------------------------
(* A component with a slot nothing enters is one chain that begins there.  *)
Onward(n, g, S) == \A x \in S : g[x] # Nowhere => g[x] \in S
Reach(n, g, h) ==
  {x \in Slots(n) : \A S \in SUBSET Slots(n) : h \in S /\ Onward(n, g, S) => x \in S}

LEMMA OneHead ==
  ASSUME NEW n \in Nat, NEW g, NEW d, Ways(n, g, d), NEW c, Least(n, g, c),
         NEW h \in c, NEW a \in c, d[h] = 0, d[a] = 0
  PROVE  h = a
  <1> DEFINE U == Reach(n, g, h)
  <1>1. /\ g \in [Slots(n) -> Slots(n) \cup {Nowhere}] /\ c \in SUBSET Slots(n)
        /\ \A x \in Slots(n) : g[x] # h /\ g[x] # a
        /\ \A x, y \in Slots(n) : g[x] = g[y] /\ g[x] # Nowhere => x = y
    BY DEF Ways, Least
  <1>2. /\ U \in SUBSET Slots(n) /\ h \in U
        /\ \A S \in SUBSET Slots(n) : h \in S /\ Onward(n, g, S) => U \subseteq S
    BY <1>1 DEF Reach
  <1>3. ASSUME NEW x \in U, g[x] # Nowhere PROVE g[x] \in U
    <2>1. g[x] \in Slots(n)
      BY <1>1, <1>2, <1>3
    <2>2. \A S \in SUBSET Slots(n) : h \in S /\ Onward(n, g, S) => g[x] \in S
      BY <1>2, <1>3 DEF Onward
    <2> QED
      BY <2>1, <2>2 DEF Reach
  <1> HIDE DEF U
  <1>4. ASSUME NEW y \in U, y # h, \A x \in U : g[x] # y PROVE FALSE
    <2>1. h \in U \ {y} /\ U \ {y} \in SUBSET Slots(n)
      BY <1>2, <1>4
    <2>2. Onward(n, g, U \ {y})
      BY <1>3, <1>4 DEF Onward
    <2> QED
      BY <1>2, <2>1, <2>2
  <1>5. ASSUME NEW x \in Slots(n), g[x] \in U PROVE x \in U
    <2>1. g[x] # h
      BY <1>1
    <2>2. PICK z \in U : g[z] = g[x]
      BY <1>4, <1>5, <2>1
    <2>3. g[x] # Nowhere /\ z \in Slots(n)
      BY <1>2, <1>5, SlotsAreFinite
    <2> QED
      BY <1>1, <2>2, <2>3
  <1>6. Closed(n, g, U)
    BY <1>3, <1>5 DEF Closed
  <1>7. c \subseteq U
    <2>1. U \cap c # {}
      BY <1>2
    <2> QED
      BY <1>2, <1>6, <2>1 DEF Least
  <1>8. a \in U /\ \A x \in U : g[x] # a
    BY <1>1, <1>2, <1>7
  <1> QED
    BY <1>4, <1>8

LEMMA NotLast ==
  ASSUME NEW m \in Nat, NEW i \in 1 .. m, i # m
  PROVE  i \in 1 .. m - 1 /\ i + 1 \in 1 .. m /\ i + 1 \in 1 .. m + 1 /\ i + 1 # m + 1
  OBVIOUS

IsTrail(n, g, h, t) ==
  /\ t \in Seq(Slots(n)) /\ t # <<>> /\ t[1] = h /\ IsInjective(t)
  /\ \A i \in 1 .. Len(t) - 1 : g[t[i]] = t[i + 1]

LEMMA TrailGrows ==
  ASSUME NEW n \in Nat, NEW g, NEW d, Ways(n, g, d), NEW h \in Slots(n), d[h] = 0,
         NEW t, IsTrail(n, g, h, t), g[t[Len(t)]] # Nowhere
  PROVE  /\ g[t[Len(t)]] \in Slots(n) \ Range(t) /\ d[g[t[Len(t)]]] = 1
         /\ IsTrail(n, g, h, Append(t, g[t[Len(t)]]))
  <1> DEFINE m == Len(t)
             y == g[t[m]]
             u == Append(t, y)
  <1>1. m \in Nat /\ m > 0 /\ t \in [1 .. m -> Slots(n)]
    BY DEF IsTrail
  <1>2. t[m] \in Slots(n)
    BY <1>1
  <1>3. y \in Slots(n) /\ d[y] = 1
    BY <1>2 DEF Ways
  <1>4. ASSUME NEW i \in 1 .. m, t[i] = y PROVE FALSE
    <2>1. i # 1
      BY <1>3, <1>4 DEF IsTrail
    <2>2. i - 1 \in 1 .. m /\ i - 1 \in 1 .. m - 1 /\ i - 1 # m /\ (i - 1) + 1 = i
      BY <1>1, <2>1
    <2>3. g[t[i - 1]] = g[t[m]] /\ t[i - 1] \in Slots(n) /\ g[t[m]] # Nowhere
      BY <1>1, <1>4, <2>2 DEF IsTrail
    <2>4. t[i - 1] = t[m]
      BY <1>2, <2>3 DEF Ways
    <2>5. m \in 1 .. m /\ DOMAIN t = 1 .. m
      BY <1>1
    <2> QED
      BY <2>2, <2>4, <2>5 DEF IsTrail, IsInjective
  <1>5. y \notin Range(t)
    BY <1>1, <1>4 DEF Range
  <1> HIDE DEF y
  <1>6. /\ u \in Seq(Slots(n)) /\ u # <<>> /\ Len(u) = m + 1 /\ DOMAIN u = 1 .. m + 1
        /\ \A i \in 1 .. m + 1 : u[i] = IF i = m + 1 THEN y ELSE t[i]
    <2>1. t \in Seq(Slots(n)) /\ y \in Slots(n)
      BY <1>3 DEF IsTrail
    <2> QED
      BY <2>1, <1>1
  <1> HIDE DEF u
  <1>7. u[1] = h
    <2>1. 1 \in 1 .. m + 1 /\ 1 # m + 1
      BY <1>1
    <2> QED
      BY <1>6, <2>1 DEF IsTrail
  <1>8. ASSUME NEW i \in 1 .. m + 1, NEW j \in 1 .. m + 1, u[i] = u[j] PROVE i = j
    <2>1. CASE i = m + 1 \/ j = m + 1
      BY <1>4, <1>6, <1>8, <2>1
    <2>2. CASE i # m + 1 /\ j # m + 1
      <3>1. i \in 1 .. m /\ j \in 1 .. m /\ t[i] = t[j] /\ DOMAIN t = 1 .. m
        BY <1>1, <1>6, <1>8, <2>2
      <3> QED
        BY <3>1 DEF IsTrail, IsInjective
    <2> QED
      BY <2>1, <2>2
  <1>9. ASSUME NEW i \in 1 .. m PROVE g[u[i]] = u[i + 1]
    <2>1. i \in 1 .. m + 1 /\ i + 1 \in 1 .. m + 1 /\ i # m + 1 /\ u[i] = t[i]
      BY <1>1, <1>6
    <2>2. CASE i = m
      BY <1>6, <2>1, <2>2 DEF y
    <2>3. CASE i # m
      <3>1. i \in 1 .. m - 1 /\ i + 1 \in 1 .. m + 1 /\ i + 1 # m + 1
        BY <1>1, <2>3, NotLast
      <3>2. u[i + 1] = t[i + 1]
        BY <1>6, <3>1
      <3> QED
        BY <2>1, <3>1, <3>2 DEF IsTrail
    <2> QED
      BY <2>2, <2>3
  <1>10. IsTrail(n, g, h, u)
    <2>1. Len(u) - 1 = m
      BY <1>1, <1>6
    <2>2. IsInjective(u)
      BY <1>6, <1>8 DEF IsInjective
    <2> QED
      BY <1>6, <1>7, <1>9, <2>1, <2>2 DEF IsTrail
  <1> QED
    BY <1>3, <1>5, <1>10 DEF u, y

LEMMA TrailStays ==
  ASSUME NEW n \in Nat, NEW g, NEW c, Least(n, g, c), NEW h \in c,
         NEW t, IsTrail(n, g, h, t)
  PROVE  Range(t) \subseteq c /\ Len(t) <= Cardinality(c)
  <1> DEFINE m == Len(t)
             P == {k \in Nat : k \in 1 .. m => t[k] \in c}
  <1>1. m \in Nat /\ m > 0 /\ t \in [1 .. m -> Slots(n)] /\ DOMAIN t = 1 .. m
    BY DEF IsTrail
  <1>2. 0 \in P
    OBVIOUS
  <1>3. ASSUME NEW k \in Nat, k \in P PROVE k + 1 \in P
    <2> SUFFICES ASSUME k + 1 \in 1 .. m PROVE t[k + 1] \in c
      OBVIOUS
    <2>1. CASE k = 0
      BY <2>1 DEF IsTrail
    <2>2. CASE k # 0
      <3>1. k \in 1 .. m /\ k \in 1 .. Len(t) - 1
        BY <1>1, <2>2
      <3>2. t[k] \in c /\ g[t[k]] = t[k + 1] /\ t[k + 1] \in Slots(n)
        BY <1>1, <1>3, <3>1 DEF IsTrail
      <3>3. t[k + 1] # Nowhere /\ t[k] \in Slots(n)
        BY <1>1, <3>1, <3>2, SlotsAreFinite
      <3> QED
        BY <3>2, <3>3 DEF Least, Closed
    <2> QED
      BY <2>1, <2>2
  <1> HIDE DEF P
  <1>4. Nat \subseteq P
    BY <1>2, <1>3, Induction
  <1>5. \A k \in 1 .. m : t[k] \in c
    <2> TAKE k \in 1 .. m
    <2>1. k \in P
      BY <1>4
    <2> QED
      BY <2>1 DEF P
  <1>6. m <= Cardinality(c)
    <2> DEFINE f == [k \in 1 .. m |-> t[k]]
    <2>1. f \in Injection(1 .. m, c)
      BY <1>1, <1>5 DEF IsTrail, IsInjective, Injection
    <2>2. IsFiniteSet(c)
      BY SlotsAreFinite, FS_Subset DEF Least
    <2>3. Cardinality(1 .. m) = m
      <3>1. 1 \in Int /\ m \in Int
        BY <1>1
      <3>2. Cardinality(1 .. m) = IF 1 > m THEN 0 ELSE m - 1 + 1
        BY <3>1, FS_Interval, Zenon
      <3> QED
        BY <1>1, <3>2
    <2> HIDE DEF f, m
    <2>4. Cardinality(1 .. m) <= Cardinality(c)
      BY <2>1, <2>2, FS_Injection
    <2> QED
      BY <2>3, <2>4
  <1> QED
    BY <1>1, <1>5, <1>6 DEF Range

LEMMA TrailEnds ==
  ASSUME NEW n \in Nat, NEW g, NEW d, Ways(n, g, d), NEW c, Least(n, g, c), NEW h \in c,
         d[h] = 0, NEW t, IsTrail(n, g, h, t), g[t[Len(t)]] = Nowhere
  PROVE  IsChain(g, d, c, t)
  <1> DEFINE m == Len(t)
             S == Range(t)
  <1>1. m \in Nat /\ m > 0 /\ t \in [1 .. m -> Slots(n)] /\ DOMAIN t = 1 .. m
    BY DEF IsTrail
  <1>2. S \subseteq c /\ S \in SUBSET Slots(n) /\ h \in S
    <2>1. 1 \in 1 .. m
      BY <1>1
    <2> QED
      BY <1>1, <2>1, TrailStays DEF Range, IsTrail
  <1>3. ASSUME NEW x \in S, g[x] # Nowhere PROVE g[x] \in S
    <2>1. PICK i \in 1 .. m : x = t[i]
      BY <1>1, <1>3 DEF Range
    <2>2. i # m
      BY <1>3, <2>1
    <2>3. i \in 1 .. Len(t) - 1 /\ i + 1 \in 1 .. m
      BY <1>1, <2>2, NotLast
    <2>4. g[x] = t[i + 1]
      BY <2>1, <2>3 DEF IsTrail
    <2> QED
      BY <1>1, <2>3, <2>4 DEF Range
  <1>4. ASSUME NEW x \in Slots(n), g[x] \in S PROVE x \in S
    <2>1. PICK i \in 1 .. m : g[x] = t[i]
      BY <1>1, <1>4 DEF Range
    <2>2. g[x] \in Slots(n) /\ g[x] # Nowhere
      BY <1>1, <2>1, SlotsAreFinite
    <2>3. d[g[x]] = 1
      BY <2>2 DEF Ways
    <2>4. i # 1
      BY <2>1, <2>3 DEF IsTrail
    <2>5. i - 1 \in 1 .. m /\ i - 1 \in 1 .. Len(t) - 1 /\ (i - 1) + 1 = i
      BY <1>1, <2>4
    <2>6. g[t[i - 1]] = g[x] /\ t[i - 1] \in Slots(n)
      BY <1>1, <2>1, <2>5 DEF IsTrail
    <2>7. t[i - 1] = x
      BY <2>2, <2>6 DEF Ways
    <2> QED
      BY <1>1, <2>5, <2>7 DEF Range
  <1> HIDE DEF S
  <1>5. c = S
    <2>1. Closed(n, g, S)
      BY <1>3, <1>4 DEF Closed
    <2>2. S \cap c # {}
      BY <1>2
    <2> QED
      BY <1>2, <2>1, <2>2 DEF Least
  <1> QED
    BY <1>5 DEF IsTrail, IsChain, IsPath, S

(* The states of Kahn's algorithm on such a component: a trail, the last   *)
(* slot of which is in the queue, or a whole chain.                        *)
Running(n, g, d, h, k) ==
  {s \in Sortings(n) :
    \E x \in Slots(n) :
      /\ s.queue = <<x>> /\ Len(s.sorted) = k
      /\ IsTrail(n, g, h, Append(s.sorted, x))
      /\ \A y \in Slots(n) \ Range(Append(s.sorted, x)) : s.degree[y] = d[y]}
Ended(n, g, h) ==
  {s \in Sortings(n) :
    s.queue = <<>> /\ IsTrail(n, g, h, s.sorted) /\ g[s.sorted[Len(s.sorted)]] = Nowhere}

LEMMA VisitTrail ==
  ASSUME NEW n \in Nat, NEW g, NEW d, Ways(n, g, d), NEW h \in Slots(n), d[h] = 0,
         NEW k \in Nat, NEW s \in Running(n, g, d, h, k)
  PROVE  Visit(s, g) \in Running(n, g, d, h, k + 1) \cup Ended(n, g, h)
  <1>1. PICK x \in Slots(n) :
          /\ s.queue = <<x>> /\ Len(s.sorted) = k
          /\ IsTrail(n, g, h, Append(s.sorted, x))
          /\ \A y \in Slots(n) \ Range(Append(s.sorted, x)) : s.degree[y] = d[y]
    BY DEF Running
  <1> DEFINE t == Append(s.sorted, x)
             y == g[x]
             v == Visit(s, g)
  <1>2. g \in [Slots(n) -> Slots(n) \cup {Nowhere}]
    BY DEF Ways
  <1>3. s \in Sortings(n) /\ v \in Sortings(n)
    BY <1>2, VisitType DEF Running
  <1>4. Len(t) = k + 1 /\ t[Len(t)] = x
    <2>1. s.sorted \in Seq(Slots(n))
      BY <1>3 DEF Sortings
    <2> QED
      BY <1>1, <2>1
  <1>5. s.queue # <<>> /\ Head(s.queue) = x /\ Tail(s.queue) = <<>>
    BY <1>1
  <1>6. CASE y = Nowhere
    <2>1. v = [s EXCEPT !.queue = Tail(s.queue), !.sorted = t]
      BY <1>5, <1>6 DEF Visit
    <2>2. v.queue = <<>> /\ v.sorted = t
      <3> HIDE DEF t
      <3> QED
        BY <1>3, <1>5, <2>1 DEF Sortings
    <2> HIDE DEF v
    <2>3. v \in Ended(n, g, h)
      BY <1>1, <1>3, <1>4, <1>6, <2>2 DEF Ended
    <2> QED
      BY <2>3 DEF v
  <1>7. CASE y # Nowhere
    <2>1. y \in Slots(n) \ Range(t) /\ d[y] = 1 /\ IsTrail(n, g, h, Append(t, y))
      <3>1. IsTrail(n, g, h, t) /\ t[Len(t)] = x /\ g[t[Len(t)]] # Nowhere
        BY <1>1, <1>4, <1>7
      <3> HIDE DEF t
      <3>2. /\ g[t[Len(t)]] \in Slots(n) \ Range(t) /\ d[g[t[Len(t)]]] = 1
            /\ IsTrail(n, g, h, Append(t, g[t[Len(t)]]))
        BY <3>1, TrailGrows
      <3> QED
        BY <3>1, <3>2
    <2>2. s.degree[y] = 1
      BY <1>1, <2>1
    <2> DEFINE r == [s EXCEPT !.queue = Tail(s.queue), !.sorted = t]
    <2>3. v = [r EXCEPT !.degree[y] = @ - 1, !.queue = Append(r.queue, y)]
      BY <1>5, <1>7, <2>2 DEF Visit
    <2>4. /\ r \in Sortings(n) /\ r.queue = <<>> /\ r.sorted = t /\ r.degree = s.degree
      <3>1. t \in Seq(Slots(n)) /\ Tail(s.queue) = <<>> /\ <<>> \in Seq(Slots(n))
        BY <1>1, <1>5 DEF IsTrail
      <3> HIDE DEF t
      <3> QED
        BY <1>3, <3>1 DEF Sortings
    <2> HIDE DEF r, t, y
    <2>5. v.queue = <<y>> /\ v.sorted = t /\ v.degree = [s.degree EXCEPT ![y] = @ - 1]
      BY <2>3, <2>4 DEF Sortings
    <2>6. ASSUME NEW z \in Slots(n) \ Range(Append(t, y)) PROVE v.degree[z] = d[z]
      <3>0. t \in Seq(Slots(n)) /\ y \in Slots(n)
        BY <1>1, <2>1 DEF IsTrail, t
      <3>1. z \notin Range(t) /\ z # y
        <4>1. /\ Len(Append(t, y)) = Len(t) + 1 /\ Append(t, y)[Len(t) + 1] = y
              /\ \A i \in 1 .. Len(t) : Append(t, y)[i] = t[i]
              /\ DOMAIN t = 1 .. Len(t) /\ DOMAIN Append(t, y) = 1 .. Len(t) + 1
              /\ Len(t) \in Nat
          BY <3>0
        <4>2. /\ Len(t) + 1 \in 1 .. Len(t) + 1
              /\ \A i \in 1 .. Len(t) : i \in 1 .. Len(t) + 1
          BY <4>1
        <4>3. \A i \in DOMAIN Append(t, y) : Append(t, y)[i] # z
          BY DEF Range
        <4> QED
          BY <4>1, <4>2, <4>3 DEF Range
      <3>2. s.degree[z] = d[z]
        BY <1>1, <3>1 DEF t
      <3>3. s.degree \in [Slots(n) -> Int]
        BY <1>3 DEF Sortings
      <3> QED
        BY <2>5, <3>1, <3>2, <3>3
    <2>7. Len(v.sorted) = k + 1
      BY <1>4, <2>5
    <2> HIDE DEF v
    <2>8. v \in Running(n, g, d, h, k + 1)
      BY <1>3, <2>1, <2>5, <2>6, <2>7 DEF Running
    <2> QED
      BY <2>8 DEF v
  <1> QED
    BY <1>6, <1>7

LEMMA TopoIsChain ==
  ASSUME NEW n \in Nat, NEW g, NEW d, Ways(n, g, d), NEW c, Least(n, g, c),
         NEW h \in c, d[h] = 0
  PROVE  IsChain(g, d, c, TopoSort(g, d, c))
  <1> DEFINE S == {x \in c : d[x] = 0}
             m == Cardinality(c)
             start == [queue |-> Increasing(S), sorted |-> <<>>, degree |-> d]
             graphs == [i \in 1 .. m |-> g]
             G == [k \in 0 .. m |-> Running(n, g, d, h, k) \cup Ended(n, g, h)]
  <1>1. /\ IsFiniteSet(c) /\ m \in Nat /\ c \in SUBSET Slots(n) /\ h \in Slots(n)
        /\ g \in [Slots(n) -> Slots(n) \cup {Nowhere}] /\ d \in [Slots(n) -> Int]
    <2>1. c \in SUBSET Slots(n) /\ h \in Slots(n)
      BY DEF Least
    <2>2. g \in [Slots(n) -> Slots(n) \cup {Nowhere}] /\ d \in [Slots(n) -> {0, 1}]
      BY DEF Ways
    <2> QED
      BY <2>1, <2>2, SlotsAreFinite, FS_Subset, FS_CardinalityType
  <1>2. Increasing(S) = <<h>>
    <2>1. S = {h}
      BY OneHead
    <2>2. IsFiniteSet({h}) /\ {h} \subseteq Int /\ Cardinality({h}) = 1
      BY <1>1, SlotsAreFinite, FS_Singleton
    <2>3. Increasing({h}) \in [1 .. 1 -> {h}]
      BY <2>2, IncreasingSorts
    <2> HIDE DEF S
    <2> QED
      BY <2>1, <2>3
  <1>3. start \in Running(n, g, d, h, 0)
    <2>1. start.queue = <<h>> /\ start.sorted = <<>> /\ start.degree = d /\ start \in Sortings(n)
      <3>1. start = [queue |-> <<h>>, sorted |-> <<>>, degree |-> d]
        BY <1>2
      <3>2. <<h>> \in Seq(Slots(n)) /\ <<>> \in Seq(Slots(n)) /\ d \in [Slots(n) -> Int]
        BY <1>1
      <3> HIDE DEF start
      <3> QED
        BY <3>1, <3>2 DEF Sortings
    <2>2. Append(<<>>, h) = <<h>> /\ Len(<<>>) = 0
      OBVIOUS
    <2>3. IsTrail(n, g, h, <<h>>)
      <3>1. <<h>> \in Seq(Slots(n)) /\ <<h>> # <<>> /\ <<h>>[1] = h /\ Len(<<h>>) = 1 /\ DOMAIN <<h>> = {1}
        BY <1>1
      <3> QED
        BY <3>1 DEF IsTrail, IsInjective
    <2> HIDE DEF start
    <2> QED
      BY <1>1, <2>1, <2>2, <2>3 DEF Running
  <1>4. Asks(graphs) /\ Len(graphs) = m /\ \A k \in 1 .. m : graphs[k] = g
    BY <1>1 DEF Asks
  <1>5. TopoSort(g, d, c) = Visited(start, graphs).sorted
    BY Zenon DEF TopoSort, Visited, start, m
  <1> HIDE DEF start, m, graphs
  <1>6. PICK st : VisitRun(start, graphs, st)
    <2>1. start \in Sortings(n) /\ VisitKeeps(Sortings(n), graphs)
      BY <1>1, <1>3, <1>4, VisitType DEF VisitKeeps, Running
    <2> QED
      BY <1>4, <2>1, VisitSteps
  <1>7. \A k \in 0 .. m : G[k] = Running(n, g, d, h, k) \cup Ended(n, g, h)
    OBVIOUS
  <1> HIDE DEF G
  <1>8. ASSUME NEW k \in 1 .. m, st[k - 1] \in G[k - 1] PROVE st[k] \in G[k]
    <2>1. k - 1 \in Nat /\ k - 1 \in 0 .. m /\ k \in 0 .. m /\ (k - 1) + 1 = k
      BY <1>1
    <2>2. st[k] = Visit(st[k - 1], g)
      BY <1>4, <1>6 DEF VisitRun
    <2>3. CASE st[k - 1] \in Running(n, g, d, h, k - 1)
      <3>1. Visit(st[k - 1], g) \in Running(n, g, d, h, (k - 1) + 1) \cup Ended(n, g, h)
        BY <1>1, <2>1, <2>3, VisitTrail
      <3> QED
        BY <1>7, <2>1, <2>2, <3>1
    <2>4. CASE st[k - 1] \in Ended(n, g, h)
      <3>1. Visit(st[k - 1], g) = st[k - 1]
        BY <2>4 DEF Ended, Visit
      <3> QED
        BY <1>7, <2>1, <2>2, <2>4, <3>1
    <2> QED
      BY <1>7, <1>8, <2>1, <2>3, <2>4
  <1>9. st[m] \in G[m]
    <2>1. 0 \in 0 .. m /\ m \in 0 .. m
      BY <1>1
    <2>2. st[0] \in G[0]
      BY <1>3, <1>6, <1>7, <2>1 DEF VisitRun
    <2>3. \A k \in 0 .. m : st[k] \in G[k]
      BY <1>1, <1>8, <2>2, StepsStay
    <2> QED
      BY <2>1, <2>3
  <1>10. st[m] \notin Running(n, g, d, h, m)
    <2> SUFFICES ASSUME st[m] \in Running(n, g, d, h, m) PROVE FALSE
      OBVIOUS
    <2>1. PICK x \in Slots(n) :
            Len(st[m].sorted) = m /\ IsTrail(n, g, h, Append(st[m].sorted, x))
      BY DEF Running
    <2>2. st[m].sorted \in Seq(Slots(n))
      BY DEF Running, Sortings
    <2>3. Len(Append(st[m].sorted, x)) = m + 1
      BY <2>1, <2>2
    <2>4. Len(Append(st[m].sorted, x)) <= Cardinality(c)
      BY <2>1, TrailStays
    <2> QED
      BY <1>1, <2>3, <2>4 DEF m
  <1>11. st[m] \in Ended(n, g, h)
    <2>1. m \in 0 .. m
      BY <1>1
    <2> QED
      BY <1>7, <1>9, <1>10, <2>1
  <1>12. Visited(start, graphs) = st[m]
    BY <1>4, <1>6 DEF VisitRun
  <1> QED
    BY <1>5, <1>11, <1>12, TrailEnds DEF Ended

-----------------------------------------------------------------------------
(* What FindTreesAndCycles returns is made of the moves it was given.      *)
LEMMA TwoMembers ==
  ASSUME NEW c, IsFiniteSet(c), NEW x \in c, NEW y \in c, x # y
  PROVE  Cardinality(c) > 1
  <1>1. Cardinality(c) \in Nat
    BY FS_CardinalityType
  <1>2. Cardinality(c) # 0
    BY FS_EmptySet
  <1>3. Cardinality(c) # 1
    BY FS_Singleton
  <1> QED
    BY <1>1, <1>2, <1>3

(* The chain or cycle of a component.                                      *)
Piece(n, moves, c) ==
  IF \A x \in c : InDegree(n, moves)[x] # 0
  THEN Walk(Graph(n, moves), c)
  ELSE TopoSort(Graph(n, moves), InDegree(n, moves), c)

LEMMA PieceIs ==
  ASSUME NEW n \in Nat, NEW moves \in Seq(SlotMoves), InSlots(n, moves), OneWay(moves),
         NEW c, IsComponent(n, moves, c), Cardinality(c) > 1
  PROVE  /\ Piece(n, moves, c) \in Chains(n)
         /\ IF \A x \in c : InDegree(n, moves)[x] # 0
            THEN /\ IsCycle(Graph(n, moves), c, Piece(n, moves, c))
                 /\ ~WalkPanics(Graph(n, moves), Walk(Graph(n, moves), c))
            ELSE IsChain(Graph(n, moves), InDegree(n, moves), c, Piece(n, moves, c))
  <1> DEFINE g == Graph(n, moves)
             d == InDegree(n, moves)
  <1>1. /\ Ways(n, g, d) /\ Least(n, g, c) /\ c \in SUBSET Slots(n)
        /\ g \in [Slots(n) -> Slots(n) \cup {Nowhere}] /\ d \in [Slots(n) -> Int]
    <2>1. Ways(n, g, d) /\ Least(n, g, c) /\ d \in [Slots(n) -> Nat]
      BY MovesAreWays, ComponentIsLeast, DegreeType
    <2>2. d \in [Slots(n) -> Int]
      BY <2>1
    <2> QED
      BY <2>1, <2>2 DEF Ways, Least
  <1>2. CASE \A x \in c : d[x] # 0
    <2>1. Piece(n, moves, c) = Walk(g, c)
      BY <1>2 DEF Piece
    <2> HIDE DEF g, d
    <2>2. IsCycle(g, c, Walk(g, c)) /\ ~WalkPanics(g, Walk(g, c))
      BY <1>1, <1>2, WalkIsCycle
    <2>3. Walk(g, c) \in Chains(n)
      BY <1>1, <2>2, WalkType
    <2> QED
      BY <1>2, <2>1, <2>2, <2>3 DEF g, d
  <1>3. CASE ~\A x \in c : d[x] # 0
    <2>1. Piece(n, moves, c) = TopoSort(g, d, c)
      BY <1>3 DEF Piece
    <2>2. PICK h \in c : d[h] = 0
      BY <1>3
    <2> HIDE DEF g, d
    <2>3. IsChain(g, d, c, TopoSort(g, d, c))
      BY <1>1, <2>2, TopoIsChain
    <2>4. TopoSort(g, d, c) \in Chains(n)
      BY <1>1, <2>2, TopoType
    <2> QED
      BY <1>3, <2>1, <2>3, <2>4 DEF g, d
  <1> QED
    BY <1>2, <1>3

(* For any number of slots and any moves that are one to one, the unions,  *)
(* the walks and the topological sorts of permutations.go:24 together      *)
(* return these moves, as disjoint chains and cycles, and no nil pointer   *)
(* is followed.                                                            *)
THEOREM SplitReturnsTheMoves ==
  ASSUME NEW n \in Nat, NEW moves \in Seq(SlotMoves), InSlots(n, moves), OneWay(moves)
  PROVE  ~Split(n, moves).panics /\ SplitsMoves(Split(n, moves), moves)
  <1> DEFINE g == Graph(n, moves)
             d == InDegree(n, moves)
             comps == {c \in Components(n, moves) : Cardinality(c) > 1}
             round == {c \in comps : \A x \in c : d[x] # 0}
             of(c) == Piece(n, moves, c)
             split == Split(n, moves)
             all == split.trees \cup split.cycles
             pairs == {<<m.prev, m.next>> : m \in Range(moves)}
  <1>1. /\ split.panics = \E c \in round : WalkPanics(g, Walk(g, c))
        /\ split.trees = {of(c) : c \in comps \ round}
        /\ split.cycles = {of(c) : c \in round}
    <2>1. /\ split.panics = \E c \in round : WalkPanics(g, Walk(g, c))
          /\ split.trees = {TopoSort(g, d, c) : c \in comps \ round}
          /\ split.cycles = {Walk(g, c) : c \in round}
      BY DEF Split
    <2>2. /\ \A c \in round : of(c) = Walk(g, c)
          /\ \A c \in comps \ round : of(c) = TopoSort(g, d, c)
      BY DEF Piece
    <2> HIDE DEF split, g, d, of, round, comps
    <2> QED
      BY <2>1, <2>2
  <1>2. \A c \in comps : IsComponent(n, moves, c) /\ Cardinality(c) > 1
    BY ComponentsAreLeast
  <1>3. \A c \in comps : of(c) \in Chains(n) /\ IsPath(g, c, of(c))
    BY <1>2, PieceIs DEF IsCycle, IsChain
  <1>4. \A c \in round : IsCycle(g, c, of(c)) /\ ~WalkPanics(g, Walk(g, c))
    BY <1>2, PieceIs
  <1>5. \A c \in comps \ round : IsChain(g, d, c, of(c))
    BY <1>2, PieceIs
  <1>6. \A c \in comps : /\ of(c) \in Seq(Slots(n)) /\ Len(of(c)) \in Nat \ {0}
                         /\ DOMAIN of(c) = 1 .. Len(of(c)) /\ \A i \in 1 .. Len(of(c)) : of(c)[i] \in Slots(n)
                         /\ Head(of(c)) = of(c)[1] /\ Last(of(c)) = of(c)[Len(of(c))]
    <2> TAKE c \in comps
    <2>1. of(c) \in Seq(Slots(n)) /\ of(c) # <<>>
      BY <1>3 DEF Chains
    <2> HIDE DEF of, comps
    <2> QED
      BY <2>1 DEF Last
  <1>7. /\ \A x, y \in Slots(n) : g[x] = y <=> <<x, y>> \in pairs
        /\ \A p \in pairs : \E x, y \in Slots(n) : p = <<x, y>> /\ g[x] = y
    <2>1. \A x, y \in Slots(n) : g[x] = y <=> Moved(moves, x, y)
      BY GraphIs
    <2>2. \A x, y : Moved(moves, x, y) <=> <<x, y>> \in pairs
      BY DEF Moved, Range
    <2>3. \A p \in pairs : \E x, y \in Slots(n) : p = <<x, y>>
      <3> SUFFICES ASSUME NEW p \in pairs PROVE \E x, y \in Slots(n) : p = <<x, y>>
        OBVIOUS
      <3>1. PICK i \in DOMAIN moves : p = <<moves[i].prev, moves[i].next>>
        BY DEF Range
      <3>2. moves[i].prev \in Slots(n) /\ moves[i].next \in Slots(n)
        BY DEF InSlots
      <3> QED
        BY <3>1, <3>2
    <2> HIDE DEF g, pairs
    <2> QED
      BY <2>1, <2>2, <2>3
  <1>8. ASSUME NEW x \in Slots(n), NEW y \in Slots(n), g[x] = y
        PROVE  \E c \in comps : x \in c /\ y \in c
    <2>1. PICK c \in Components(n, moves) : x \in c
      BY ComponentsAreLeast
    <2>2. Least(n, g, c) /\ Ways(n, g, d)
      BY <2>1, ComponentsAreLeast, ComponentIsLeast, MovesAreWays
    <2> HIDE DEF g, d
    <2>3. x # y /\ y # Nowhere /\ IsFiniteSet(c)
      BY <1>8, <2>2, SlotsAreFinite, FS_Subset DEF Ways, Least
    <2>4. y \in c
      BY <1>8, <2>1, <2>2, <2>3 DEF Least, Closed
    <2>5. Cardinality(c) > 1
      BY <2>1, <2>3, <2>4, TwoMembers
    <2> QED
      BY <2>1, <2>4, <2>5
  <1>9. ~split.panics
    <2> HIDE DEF split, g, round, of, comps
    <2> QED
      BY <1>1, <1>4
  <1>10. Ways(n, g, d) /\ Nowhere \notin Slots(n)
    BY MovesAreWays, SlotsAreFinite
  <1>11. round \subseteq comps /\ all = {of(c) : c \in comps}
    <2>1. round \subseteq comps
      OBVIOUS
    <2> HIDE DEF split, of, comps, round
    <2> QED
      BY <1>1, <2>1
  <1> HIDE DEF g, d, comps, round, of, split, pairs, all
  <1>12. \A c \in comps : Pairs(of(c)) \subseteq pairs
    <2> SUFFICES ASSUME NEW c \in comps, NEW i \in 1 .. Len(of(c)) - 1
                 PROVE  <<of(c)[i], of(c)[i + 1]>> \in pairs
      BY DEF Pairs
    <2>1. i \in 1 .. Len(of(c)) /\ i + 1 \in 1 .. Len(of(c))
      BY <1>6
    <2>2. g[of(c)[i]] = of(c)[i + 1]
      BY <1>3 DEF IsPath
    <2> QED
      BY <1>6, <1>7, <2>1, <2>2
  <1>13. \A c \in round : <<Last(of(c)), Head(of(c))>> \in pairs
    <2> TAKE c \in round
    <2>1. g[Last(of(c))] = Head(of(c))
      BY <1>4, <1>6, <1>11 DEF IsCycle
    <2>2. Last(of(c)) \in Slots(n) /\ Head(of(c)) \in Slots(n)
      <3>1. 1 \in 1 .. Len(of(c)) /\ Len(of(c)) \in 1 .. Len(of(c))
        BY <1>6, <1>11
      <3> QED
        BY <1>6, <1>11, <3>1
    <2> QED
      BY <1>7, <2>1, <2>2
  <1>14. ASSUME NEW p \in pairs
         PROVE  \E c \in comps : p \in Pairs(of(c)) \/ (c \in round /\ p = <<Last(of(c)), Head(of(c))>>)
    <2>1. PICK x \in Slots(n), y \in Slots(n) : p = <<x, y>> /\ g[x] = y
      BY <1>7
    <2>2. PICK c \in comps : x \in c /\ y \in c
      BY <1>8, <2>1
    <2>3. PICK i \in 1 .. Len(of(c)) : of(c)[i] = x
      BY <1>3, <1>6, <2>2 DEF IsPath, Range
    <2>4. CASE i # Len(of(c))
      <3>1. i \in 1 .. Len(of(c)) - 1
        BY <1>6, <2>4
      <3>2. of(c)[i + 1] = y
        BY <1>3, <2>1, <2>3, <3>1 DEF IsPath
      <3> QED
        BY <2>1, <2>3, <3>1, <3>2 DEF Pairs
    <2>5. CASE i = Len(of(c))
      <3>1. c \in round
        BY <1>5, <1>10, <2>1, <2>3, <2>5 DEF IsChain
      <3>2. of(c)[1] = y
        BY <1>4, <2>1, <2>3, <2>5, <3>1 DEF IsCycle
      <3> QED
        BY <1>6, <2>1, <2>3, <2>5, <3>1, <3>2
    <2> QED
      BY <2>4, <2>5
  <1>15. (UNION {Pairs(s) : s \in all}) \cup {<<Last(c), Head(c)>> : c \in split.cycles} = pairs
    <2>1. \A p : p \in UNION {Pairs(s) : s \in all} <=> \E c \in comps : p \in Pairs(of(c))
      BY <1>11
    <2>2. \A p : p \in {<<Last(c), Head(c)>> : c \in split.cycles}
                   <=> \E c \in round : p = <<Last(of(c)), Head(of(c))>>
      BY <1>1
    <2>3. \A p : p \in pairs <=> \/ \E c \in comps : p \in Pairs(of(c))
                                 \/ \E c \in round : p = <<Last(of(c)), Head(of(c))>>
      BY <1>11, <1>12, <1>13, <1>14
    <2> QED
      BY <2>1, <2>2, <2>3
  <1>16. \A t \in split.trees : \A p \in pairs : p[2] # Head(t) /\ p[1] # Last(t)
    <2> SUFFICES ASSUME NEW c \in comps \ round, NEW p \in pairs
                 PROVE  p[2] # Head(of(c)) /\ p[1] # Last(of(c))
      BY <1>1
    <2>1. PICK x \in Slots(n), y \in Slots(n) : p = <<x, y>> /\ g[x] = y
      BY <1>7
    <2>2. d[y] = 1
      BY <1>10, <2>1 DEF Ways
    <2>3. d[Head(of(c))] = 0 /\ g[Last(of(c))] = Nowhere
      BY <1>5, <1>6 DEF IsChain
    <2> QED
      BY <1>10, <2>1, <2>2, <2>3
  <1>17. \A s, t \in all : Range(s) \cap Range(t) # {} => s = t
    <2> SUFFICES ASSUME NEW b \in comps, NEW c \in comps, Range(of(b)) \cap Range(of(c)) # {}
                 PROVE  b = c
      BY <1>11
    <2>1. Range(of(b)) = b /\ Range(of(c)) = c
      BY <1>3 DEF IsPath
    <2> QED
      BY <1>2, <2>1, ComponentsAreApart
  <1>18. \A s \in all : IsInjective(s)
    BY <1>3, <1>11 DEF IsPath
  <1>19. SplitsMoves(split, moves)
    BY <1>15, <1>16, <1>17, <1>18 DEF SplitsMoves, all, pairs
  <1> QED
    BY <1>9, <1>19 DEF split
=============================================================================
