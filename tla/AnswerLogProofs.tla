--------------------------- MODULE AnswerLogProofs --------------------------
(***************************************************************************)
(* Proofs about AnswerLog, for any number of users, answers, page sizes    *)
(* and units of time: its type invariant, what a client that pages through *)
(* the log can miss, and what it is sent twice.                            *)
(***************************************************************************)
EXTENDS AnswerLog, FiniteSetTheorems, SequenceTheorems, TLAPS

Readers == [pc : {"idle", "count", "page", "done"}, opts : Options \cup {None},
            token : -1 .. UnixMilli(MaxTime), page : 0 .. MaxTries, total : 0 .. MaxTries,
            began : SUBSET Try, got : SUBSET Try, again : SUBSET Try]

Types ==
  /\ tries \subseteq Try /\ IsFiniteSet(tries) /\ Cardinality(tries) <= MaxTries
  /\ reader \in Readers
  /\ reader.began \cup reader.got \cup reader.again \subseteq tries
  /\ reader.pc = "idle" => reader = Idle
  /\ reader.pc # "idle" =>
       reader.opts \in Options /\ reader.began \cup reader.got \subseteq Matching(reader.opts)

Reading(by) == reader.pc \in {"count", "page"} /\ reader.opts.by = by

Settled(t) == ~SameTime(t) /\ ~Arrived(t)

(* Why an answer may never be sent.                                        *)
Excused(t) ==
  IF reader.opts.by = "number" THEN ~Settled(t)
  ELSE IF reader.opts.desc THEN SameMilli(t) ELSE SameTime(t)

(* Following tokens, what has been sent is behind the token, and what has  *)
(* not is past it, or was left behind in its millisecond, or at its time.  *)
TokenInv ==
  Reading("token") =>
    /\ \A g \in reader.got :
         /\ reader.token # -1
         /\ IF reader.opts.desc THEN g.time >= reader.token * PerMilli
            ELSE UnixMilli(g.time) <= reader.token
    /\ \A t \in reader.began \ reader.got :
         Past(reader.opts, reader.token, t.time) \/ Excused(t)

(* Following numbers, an answer that is alone at its time and has not been *)
(* pushed on keeps its rank, and the pages before have shown all of less.  *)
Before(S, t) == {u \in S : Precedes(reader.opts, u, t)}
Rank(t) == Cardinality(Before(reader.began, t))

NumberInv ==
  Reading("number") =>
    \A t \in Matching(reader.opts) : Settled(t) =>
      /\ t \in reader.got => Rank(t) < reader.opts.size * reader.page
      /\ t \in reader.began =>
           /\ Rank(t) < reader.opts.size * reader.page => t \in reader.got
           /\ reader.pc = "page" => Rank(t) < reader.opts.size * reader.total

DoneInv == reader.pc = "done" => \A t \in reader.began \ reader.got : Excused(t)

IInv == Types /\ TokenInv /\ NumberInv /\ DoneInv

-----------------------------------------------------------------------------
(* Facts about numbers.                                                    *)
LEMMA Constants ==
  /\ PerMilli \in Nat /\ PerMilli > 0 /\ MaxTime \in Nat /\ MaxTries \in Nat
  /\ \A n \in PageSizes : n \in Nat /\ n > 0
  BY AnswerLogAssumption

LEMMA UnixBounds ==
  ASSUME NEW x \in Nat
  PROVE  /\ UnixMilli(x) \in Nat /\ UnixMilli(x) * PerMilli \in Nat
         /\ UnixMilli(x) * PerMilli <= x
         /\ x < (UnixMilli(x) + 1) * PerMilli
  BY Constants DEF UnixMilli

LEMMA UnixGrows ==
  ASSUME NEW x \in Nat, NEW y \in Nat, x <= y
  PROVE  UnixMilli(x) <= UnixMilli(y)
  <1>1. SUFFICES ASSUME UnixMilli(y) + 1 <= UnixMilli(x) PROVE FALSE
    BY UnixBounds
  <1> DEFINE a == UnixMilli(x)
             b == UnixMilli(y)
  <1>2. a \in Nat /\ b \in Nat /\ a * PerMilli <= x /\ y < (b + 1) * PerMilli
    BY UnixBounds
  <1> HIDE DEF a, b
  <1>3. (b + 1) * PerMilli <= a * PerMilli
    BY <1>1, <1>2, Constants DEF a, b
  <1> QED
    BY <1>2, <1>3, Constants

(* A time of the millisecond n.                                            *)
LEMMA UnixIs ==
  ASSUME NEW x \in Nat, NEW n \in Nat, n * PerMilli <= x
  PROVE  n <= UnixMilli(x)
  <1> DEFINE a == UnixMilli(x)
  <1>1. a \in Nat /\ x < (a + 1) * PerMilli
    BY UnixBounds
  <1> HIDE DEF a
  <1>2. SUFFICES ASSUME a + 1 <= n PROVE FALSE
    BY <1>1 DEF a
  <1>3. (a + 1) * PerMilli <= n * PerMilli
    BY <1>1, <1>2, Constants
  <1> QED
    BY <1>1, <1>3, Constants

LEMMA PageCountBounds ==
  ASSUME NEW count \in Nat, NEW size \in Nat, size > 0
  PROVE  /\ PageCount(count, size) \in 0 .. count
         /\ count <= size * PageCount(count, size)
  <1> DEFINE d == count \div size
             m == count % size
  <1>1. d \in Nat /\ m \in 0 .. size - 1 /\ count = size * d + m
    OBVIOUS
  <1>2. PageCount(count, size) = IF m > 0 THEN d + 1 ELSE d
    BY DEF PageCount
  <1> HIDE DEF d, m
  <1>3. d <= size * d
    BY <1>1
  <1>4. size * (d + 1) = size * d + size
    BY <1>1
  <1> QED
    BY <1>1, <1>2, <1>3, <1>4

LEMMA MinOfTwo ==
  ASSUME NEW a \in Int, NEW b \in Int
  PROVE  Min({a, b}) = IF a <= b THEN a ELSE b
  BY DEF Min

-----------------------------------------------------------------------------
(* What there is to know of a sorting of a finite set, and of a page of it.*)
Lists(s, rows) ==
  /\ \A i, j \in 1 .. Len(s) : i # j => s[i] # s[j]
  /\ \A x \in rows : \E i \in 1 .. Len(s) : s[i] = x

LEMMA Enumerates ==
  ASSUME NEW rows, IsFiniteSet(rows), NEW s \in SetToSeqs(rows)
  PROVE  s \in Seq(rows) /\ Lists(s, rows)
  <1> DEFINE n == Cardinality(rows)
  <1>1. n \in Nat
    BY FS_CardinalityType
  <1>2. /\ s \in [1 .. n -> rows]
        /\ \A i, j \in 1 .. n : i # j => s[i] # s[j]
    BY DEF SetToSeqs
  <1> HIDE DEF n
  <1>3. Len(s) = n
    BY <1>1, <1>2
  <1>4. s \in Injection(1 .. n, rows)
    BY <1>2 DEF Injection, IsInjective
  <1>5. IsFiniteSet(1 .. n) /\ Cardinality(1 .. n) = n
    BY <1>1, FS_Interval
  <1>6. s \in Surjection(1 .. n, rows)
    BY <1>4, <1>5, FS_Injection DEF n
  <1>7. \A x \in rows : \E i \in 1 .. n : s[i] = x
    BY <1>6 DEF Surjection
  <1> QED
    BY <1>1, <1>2, <1>3, <1>7 DEF n, Lists

IsPiece(page, rows, s, skip, n) ==
  page \in Seq(rows) /\ Len(page) = n /\ \A i \in 1 .. n : page[i] = s[skip + i]

HasPiece(page, s, skip, n) ==
  /\ Len(page) = n
  /\ Range(page) = {s[i] : i \in skip + 1 .. skip + n}
  /\ page = <<>> <=> n = 0
  /\ page # <<>> => Last(page) = s[skip + n]

LEMMA SubSeqIs ==
  ASSUME NEW rows, NEW s \in Seq(rows), NEW skip \in Nat, NEW k \in Nat, k <= Len(s)
  PROVE  /\ skip < k => IsPiece(SubSeq(s, skip + 1, k), rows, s, skip, k - skip)
         /\ skip >= k => IsPiece(SubSeq(s, skip + 1, k), rows, s, skip, 0)
  <1>1. \A i \in skip + 1 .. k : s[i] \in rows
    OBVIOUS
  <1>2. /\ SubSeq(s, skip + 1, k) \in Seq(rows)
        /\ Len(SubSeq(s, skip + 1, k)) = IF skip + 1 <= k THEN k - (skip + 1) + 1 ELSE 0
        /\ \A i \in 1 .. k - (skip + 1) + 1 : SubSeq(s, skip + 1, k)[i] = s[skip + 1 + i - 1]
    BY <1>1, SubSeqProperties
  <1>3. CASE skip < k
    <2>1. k - skip \in Nat /\ skip + 1 <= k /\ k - (skip + 1) + 1 = k - skip
      BY <1>3
    <2>2. \A i \in 1 .. k - skip : skip + 1 + i - 1 = skip + i
      OBVIOUS
    <2> QED
      BY <1>2, <1>3, <2>1, <2>2 DEF IsPiece
  <1>4. CASE ~(skip < k)
    <2>1. ~(skip + 1 <= k) /\ 1 .. 0 = {}
      BY <1>4
    <2> QED
      BY <1>2, <1>4, <2>1 DEF IsPiece
  <1> QED
    BY <1>3, <1>4

LEMMA PieceRange ==
  ASSUME NEW rows, NEW s, NEW skip \in Nat, NEW n \in Nat, NEW page,
         IsPiece(page, rows, s, skip, n)
  PROVE  HasPiece(page, s, skip, n)
  <1>0. page \in Seq(rows) /\ Len(page) = n /\ \A i \in 1 .. n : page[i] = s[skip + i]
    BY DEF IsPiece
  <1>1. DOMAIN page = 1 .. n
    BY <1>0
  <1>2. page = <<>> <=> n = 0
    BY <1>0
  <1>3. page # <<>> => Last(page) = s[skip + n]
    BY <1>0, <1>2 DEF Last
  <1>4. Range(page) = {page[i] : i \in 1 .. n}
    BY <1>1 DEF Range
  <1>5. \A j \in skip + 1 .. skip + n : j - skip \in 1 .. n /\ skip + (j - skip) = j
    OBVIOUS
  <1>6. \A i \in 1 .. n : skip + i \in skip + 1 .. skip + n
    OBVIOUS
  <1>7. \A j \in skip + 1 .. skip + n : page[j - skip] = s[j]
    BY <1>0, <1>5
  <1>8. \A x : (\E i \in 1 .. n : x = page[i]) <=> (\E i \in skip + 1 .. skip + n : x = s[i])
    BY <1>0, <1>5, <1>6, <1>7, Zenon
  <1>9. {page[i] : i \in 1 .. n} = {s[i] : i \in skip + 1 .. skip + n}
    BY <1>8, Zenon
  <1> QED
    BY <1>0, <1>2, <1>3, <1>4, <1>9 DEF HasPiece

LEMMA PieceOf ==
  ASSUME NEW rows, NEW s \in Seq(rows), NEW skip \in Nat, NEW size \in Nat, size > 0,
         NEW page, page = SubSeq(s, skip + 1, Min({skip + size, Len(s)}))
  PROVE  \E n \in 0 .. size :
           /\ Len(page) = n
           /\ Range(page) = {s[i] : i \in skip + 1 .. skip + n}
           /\ page = <<>> <=> n = 0
           /\ page # <<>> => Last(page) = s[skip + n] /\ skip + n \in 1 .. Len(s)
           /\ n < size => Len(s) <= skip + n
  <1>1. PICK len \in Nat : len = Len(s)
    OBVIOUS
  <1>2. PICK k \in Nat : k = Min({skip + size, len}) /\ k = IF skip + size <= len THEN skip + size ELSE len
    BY MinOfTwo
  <1>3. k <= Len(s) /\ page = SubSeq(s, skip + 1, k)
    BY <1>1, <1>2
  <1>4. PICK n \in Nat : (skip < k /\ n = k - skip) \/ (skip >= k /\ n = 0)
    <2>1. skip < k => k - skip \in Nat
      BY <1>2
    <2>2. skip < k \/ skip >= k
      OBVIOUS
    <2> QED
      BY <2>1, <2>2
  <1>5. IsPiece(SubSeq(s, skip + 1, k), rows, s, skip, n)
    BY <1>3, <1>4, SubSeqIs, Zenon
  <1>6. IsPiece(page, rows, s, skip, n)
    BY <1>3, <1>5, Zenon
  <1>7. HasPiece(page, s, skip, n)
    BY <1>6, PieceRange, Zenon
  <1>8. /\ n \in 0 .. size
        /\ n # 0 => skip + n \in 1 .. len
        /\ n < size => len <= skip + n
    BY <1>2, <1>4
  <1> QED
    BY <1>1, <1>7, <1>8, Zenon DEF HasPiece

-----------------------------------------------------------------------------
(* The rows a page is taken from.                                          *)
Rest == {t \in Matching(reader.opts) :
           reader.opts.by = "token" => Past(reader.opts, reader.token, t.time)}

LEMMA RowsHaveTypes ==
  ASSUME Types
  PROVE  /\ IsFiniteSet(Rest) /\ Rest \subseteq Matching(reader.opts)
         /\ IsFiniteSet(Matching(reader.opts)) /\ Matching(reader.opts) \subseteq tries
         /\ \A t \in tries : t.time \in Nat /\ t.time <= MaxTime
  <1>1. Rest \subseteq Matching(reader.opts) /\ Matching(reader.opts) \subseteq tries
    BY DEF Rest, Matching
  <1>2. \A t \in tries : t.time \in Nat /\ t.time <= MaxTime
    BY Constants DEF Types, Try
  <1>3. IsFiniteSet(Rest) /\ IsFiniteSet(Matching(reader.opts))
    BY <1>1, FS_Subset DEF Types
  <1> QED
    BY <1>1, <1>2, <1>3

LEMMA OptionsHaveTypes ==
  ASSUME Types, reader.pc # "idle"
  PROVE  /\ reader.opts \in Options /\ reader.opts.size \in Nat /\ reader.opts.size > 0
         /\ reader.opts.by \in {"token", "number"} /\ reader.opts.desc \in BOOLEAN
         /\ reader.page \in Nat /\ reader.total \in Nat
  <1>1. reader.opts \in Options
    BY DEF Types
  <1>2. reader.opts.size \in PageSizes /\ reader.opts.by \in {"token", "number"}
        /\ reader.opts.desc \in BOOLEAN
    BY <1>1 DEF Options
  <1>3. reader.page \in Nat /\ reader.total \in Nat
    BY DEF Types, Readers
  <1> QED
    BY <1>1, <1>2, <1>3, Constants

Orders(s) == \A i, j \in 1 .. Len(s) : i < j => ~Precedes(reader.opts, s[j], s[i])

LEMMA PageOf ==
  ASSUME Types, reader.pc = "page", NEW page \in Pages(reader.opts, reader.token, reader.page),
         NEW skip \in Nat,
         skip = IF reader.opts.by = "token" THEN 0 ELSE reader.opts.size * reader.page
  PROVE  \E s \in Seq(Rest) : \E n \in 0 .. reader.opts.size :
           /\ Lists(s, Rest) /\ Orders(s)
           /\ HasPiece(page, s, skip, n)
           /\ n # 0 => skip + n \in 1 .. Len(s)
           /\ n < reader.opts.size => Len(s) <= skip + n
  <1>1. PICK s \in Sorted(reader.opts, Rest) :
          page = SubSeq(s, skip + 1, Min({skip + reader.opts.size, Len(s)}))
    BY DEF Pages, Rest
  <1>2. s \in SetToSeqs(Rest) /\ \A i, j \in DOMAIN s : i < j => ~Precedes(reader.opts, s[j], s[i])
    BY <1>1 DEF Sorted
  <1>3. s \in Seq(Rest) /\ Lists(s, Rest)
    BY <1>2, RowsHaveTypes, Enumerates
  <1>4. DOMAIN s = 1 .. Len(s)
    BY <1>3
  <1>5. Orders(s)
    BY <1>2, <1>4 DEF Orders
  <1>6. reader.opts.size \in Nat /\ reader.opts.size > 0
    BY OptionsHaveTypes
  <1>7. \E n \in 0 .. reader.opts.size :
           /\ Len(page) = n
           /\ Range(page) = {s[i] : i \in skip + 1 .. skip + n}
           /\ page = <<>> <=> n = 0
           /\ page # <<>> => Last(page) = s[skip + n] /\ skip + n \in 1 .. Len(s)
           /\ n < reader.opts.size => Len(s) <= skip + n
    BY <1>1, <1>3, <1>6, PieceOf, Zenon
  <1> QED
    BY <1>3, <1>5, <1>7, Zenon DEF HasPiece

(* A page by token: what is left of the rows is not before its last row.   *)
LEMMA TokenPage ==
  ASSUME Types, reader.pc = "page", reader.opts.by = "token",
         NEW page \in Pages(reader.opts, reader.token, reader.page)
  PROVE  /\ Range(page) \subseteq Rest
         /\ Len(page) < reader.opts.size => Rest \subseteq Range(page)
         /\ Len(page) \in 0 .. reader.opts.size
         /\ page = <<>> <=> Len(page) = 0
         /\ page # <<>> =>
              /\ Last(page) \in Range(page)
              /\ \A t \in Range(page) : t = Last(page) \/ ~Precedes(reader.opts, Last(page), t)
              /\ \A t \in Rest \ Range(page) : ~Precedes(reader.opts, t, Last(page))
  <1>1. PICK s \in Seq(Rest), n \in 0 .. reader.opts.size :
           /\ Lists(s, Rest) /\ Orders(s)
           /\ HasPiece(page, s, 0, n)
           /\ n # 0 => 0 + n \in 1 .. Len(s)
           /\ n < reader.opts.size => Len(s) <= 0 + n
    BY PageOf
  <1>2. n \in Nat /\ Len(s) \in Nat /\ n <= Len(s) /\ (n < reader.opts.size => Len(s) = n)
    BY <1>1, OptionsHaveTypes
  <1>3. /\ Len(page) = n /\ Range(page) = {s[i] : i \in 1 .. n}
        /\ page = <<>> <=> n = 0
        /\ page # <<>> => Last(page) = s[n]
    BY <1>1, <1>2 DEF HasPiece
  <1>4. Range(page) \subseteq Rest
    BY <1>2, <1>3
  <1>5. Len(page) < reader.opts.size => Rest \subseteq Range(page)
    BY <1>1, <1>2, <1>3 DEF Lists
  <1>6. ASSUME page # <<>>
        PROVE  /\ Last(page) \in Range(page)
               /\ \A t \in Range(page) : t = Last(page) \/ ~Precedes(reader.opts, Last(page), t)
               /\ \A t \in Rest \ Range(page) : ~Precedes(reader.opts, t, Last(page))
    <2>1. n \in 1 .. Len(s) /\ Last(page) = s[n]
      BY <1>2, <1>3, <1>6
    <2>2. Last(page) \in Range(page)
      BY <1>3, <2>1
    <2>3. ASSUME NEW t \in Range(page), t # Last(page) PROVE ~Precedes(reader.opts, Last(page), t)
      <3>1. PICK i \in 1 .. n : t = s[i]
        BY <1>3
      <3>2. i < n /\ i \in 1 .. Len(s)
        BY <1>2, <2>1, <2>3, <3>1
      <3> QED
        BY <1>1, <2>1, <3>1, <3>2 DEF Orders
    <2>4. ASSUME NEW t \in Rest \ Range(page) PROVE ~Precedes(reader.opts, t, Last(page))
      <3>1. PICK i \in 1 .. Len(s) : t = s[i]
        BY <1>1 DEF Lists
      <3>2. n < i
        BY <1>2, <1>3, <2>4, <3>1
      <3> QED
        BY <1>1, <2>1, <3>1, <3>2 DEF Orders
    <2> QED
      BY <2>2, <2>3, <2>4
  <1> QED
    BY <1>1, <1>3, <1>4, <1>5, <1>6

(* A page by number: an answer that is alone at its time and has not been  *)
(* pushed on is where its rank puts it.                                    *)
LEMMA CountsOf ==
  ASSUME NEW s, NEW m \in Nat, \A i, j \in 1 .. m : i # j => s[i] # s[j]
  PROVE  Cardinality({s[j] : j \in 1 .. m}) = m
  <1> DEFINE T == {s[j] : j \in 1 .. m}
             f == [j \in 1 .. m |-> s[j]]
  <1>1. f \in Bijection(1 .. m, T)
    <2>1. f \in [1 .. m -> T] /\ (\A i, j \in 1 .. m : f[i] = f[j] => i = j)
          /\ \A x \in T : \E j \in 1 .. m : f[j] = x
      OBVIOUS
    <2> HIDE DEF f, T
    <2> QED
      BY <2>1 DEF Bijection, Injection, Surjection, IsInjective
  <1>2. ExistsBijection(1 .. m, T)
    BY <1>1 DEF ExistsBijection
  <1>3. IsFiniteSet(1 .. m) /\ Cardinality(1 .. m) = m
    BY FS_Interval
  <1> HIDE DEF T
  <1> QED
    BY <1>2, <1>3, FS_Bijection DEF T

LEMMA PrecedesIsStrict ==
  ASSUME Types, NEW t \in tries, NEW u \in tries
  PROVE  /\ ~Precedes(reader.opts, t, t)
         /\ Precedes(reader.opts, t, u) => ~Precedes(reader.opts, u, t)
         /\ t.time # u.time => Precedes(reader.opts, t, u) \/ Precedes(reader.opts, u, t)
  BY RowsHaveTypes DEF Precedes

(* What comes before such an answer was there when the client began.       *)
LEMMA BeforeIsOld ==
  ASSUME Types, reader.pc # "idle", NEW t \in Matching(reader.opts), ~Arrived(t)
  PROVE  Before(Matching(reader.opts), t) = Before(reader.began, t)
  <1>1. reader.began \subseteq Matching(reader.opts) /\ Matching(reader.opts) \subseteq tries
    BY RowsHaveTypes DEF Types
  <1>2. ASSUME NEW u \in Matching(reader.opts) \ reader.began PROVE ~Precedes(reader.opts, u, t)
    <2>1. u = t \/ Precedes(reader.opts, t, u)
      BY <1>2 DEF Arrived
    <2> QED
      BY <1>1, <2>1, PrecedesIsStrict
  <1> QED
    BY <1>1, <1>2 DEF Before

LEMMA RankIsPlace ==
  ASSUME Types, reader.pc = "page", Rest = Matching(reader.opts),
         NEW s \in Seq(Rest), Lists(s, Rest), Orders(s),
         NEW i \in 1 .. Len(s), NEW t, t = s[i], Settled(t)
  PROVE  Rank(t) = i - 1
  <1>0. Rest \subseteq tries
    BY RowsHaveTypes
  <1>1. t \in Rest /\ t \in tries
    BY <1>0
  <1>2. Before(Rest, t) = Before(reader.began, t)
    BY <1>1, BeforeIsOld DEF Settled
  <1>3. PICK m \in Nat : m = i - 1 /\ m < Len(s)
    OBVIOUS
  <1>4. \A j \in 1 .. m : j \in 1 .. Len(s) /\ j < i /\ s[j] \in Rest
    BY <1>3
  <1>5. ASSUME NEW j \in 1 .. m PROVE s[j] \in Before(Rest, t)
    <2>1. j \in 1 .. Len(s) /\ j # i /\ s[j] \in Rest /\ s[j] \in tries
      BY <1>0, <1>4
    <2>2. s[j] # t /\ ~Precedes(reader.opts, t, s[j])
      BY <1>4, <2>1 DEF Lists, Orders
    <2>3. s[j].time # t.time
      BY <2>1, <2>2 DEF Settled, SameTime
    <2> QED
      BY <1>1, <2>1, <2>2, <2>3, PrecedesIsStrict DEF Before
  <1>6. ASSUME NEW u \in Before(Rest, t) PROVE \E j \in 1 .. m : u = s[j]
    <2>1. u \in Rest /\ u \in tries /\ Precedes(reader.opts, u, t)
      BY <1>0, <1>6 DEF Before
    <2>2. PICK j \in 1 .. Len(s) : u = s[j]
      BY <2>1 DEF Lists
    <2>3. j # i
      BY <1>1, <2>1, <2>2, PrecedesIsStrict
    <2>4. ~(i < j)
      BY <2>1, <2>2 DEF Orders
    <2>5. j \in 1 .. m
      BY <1>3, <2>3, <2>4
    <2> QED
      BY <2>2, <2>5
  <1>7. Before(Rest, t) = {s[j] : j \in 1 .. m}
    BY <1>5, <1>6
  <1>8. Cardinality({s[j] : j \in 1 .. m}) = m
    <2>1. \A j, k \in 1 .. m : j # k => s[j] # s[k]
      BY <1>4 DEF Lists
    <2> QED
      BY <2>1, CountsOf
  <1> QED
    BY <1>2, <1>3, <1>7, <1>8 DEF Rank

LEMMA NumberPage ==
  ASSUME Types, reader.pc = "page", reader.opts.by = "number",
         NEW page \in Pages(reader.opts, reader.token, reader.page),
         NEW t \in Matching(reader.opts), Settled(t)
  PROVE  t \in Range(page) <=> /\ reader.opts.size * reader.page <= Rank(t)
                               /\ Rank(t) < reader.opts.size * reader.page + reader.opts.size
  <1>1. PICK skip \in Nat : skip = reader.opts.size * reader.page
    BY OptionsHaveTypes
  <1>2. PICK s \in Seq(Rest), n \in 0 .. reader.opts.size :
           /\ Lists(s, Rest) /\ Orders(s)
           /\ HasPiece(page, s, skip, n)
           /\ n # 0 => skip + n \in 1 .. Len(s)
           /\ n < reader.opts.size => Len(s) <= skip + n
    BY <1>1, PageOf
  <1>3. PICK size \in Nat : size = reader.opts.size
    BY OptionsHaveTypes
  <1>4. Rest = Matching(reader.opts)
    BY DEF Rest
  <1>5. PICK i \in 1 .. Len(s) : t = s[i]
    BY <1>2, <1>4 DEF Lists
  <1>6. Rank(t) = i - 1
    BY <1>2, <1>4, <1>5, RankIsPlace
  <1>7. n \in Nat /\ (n # 0 => skip + n <= Len(s)) /\ Range(page) = {s[j] : j \in skip + 1 .. skip + n}
    BY <1>2, <1>3 DEF HasPiece
  <1>8. t \in Range(page) <=> skip < i /\ i <= skip + n
    <2>1. ASSUME t \in Range(page) PROVE skip < i /\ i <= skip + n
      <3>1. PICK j \in skip + 1 .. skip + n : t = s[j]
        BY <1>7, <2>1
      <3>2. j \in 1 .. Len(s)
        BY <1>7
      <3>3. j = i
        BY <1>2, <1>5, <3>1, <3>2 DEF Lists
      <3> QED
        BY <1>7, <3>3
    <2>2. ASSUME skip < i, i <= skip + n PROVE t \in Range(page)
      <3>1. i \in skip + 1 .. skip + n
        BY <1>7, <2>2
      <3> QED
        BY <1>5, <1>7, <3>1
    <2> QED
      BY <2>1, <2>2
  <1>9. i <= skip + n <=> i <= skip + size
    BY <1>2, <1>3, <1>7
  <1> QED
    BY <1>1, <1>3, <1>6, <1>8, <1>9

-----------------------------------------------------------------------------
LEMMA IdleIsSound ==
  ASSUME tries \subseteq Try, IsFiniteSet(tries), Cardinality(tries) <= MaxTries,
         reader = Idle
  PROVE  IInv
  <1>1. UnixMilli(MaxTime) \in Nat
    BY UnixBounds, Constants
  <1>2. -1 \in -1 .. UnixMilli(MaxTime) /\ 0 \in 0 .. MaxTries
    BY <1>1, Constants
  <1>3. Idle \in Readers
    BY <1>2 DEF Idle, Readers
  <1>4. reader.pc = "idle" /\ reader.began = {} /\ reader.got = {} /\ reader.again = {}
    BY DEF Idle
  <1> QED
    BY <1>3, <1>4 DEF IInv, Types, TokenInv, NumberInv, DoneInv, Reading

LEMMA InitIsSound == Init => IInv
  BY IdleIsSound, FS_EmptySet, Constants DEF Init

(* An answer that comes may push others on; it leaves nothing unexcused.   *)
LEMMA CreateAnswerTryKeeps ==
  ASSUME IInv, NEW user \in Users, NEW time \in 0 .. MaxTime, NEW accepted \in BOOLEAN,
         CreateAnswerTry(user, time, accepted)
  PROVE  IInv'
  <1> USE DEF IInv
  <1> DEFINE row == [user |-> user, time |-> time, accepted |-> accepted]
  <1>1. /\ tries' = tries \cup {row} /\ reader' = reader
        /\ Cardinality(tries) < MaxTries
        /\ row \in Try
    BY DEF CreateAnswerTry, Try
  <1>2. row \notin tries
    BY DEF CreateAnswerTry
  <1> HIDE DEF row
  <1>3. IsFiniteSet(tries') /\ Cardinality(tries') <= MaxTries
    <2>1. /\ IsFiniteSet(tries') /\ Cardinality(tries') = Cardinality(tries) + 1
          /\ Cardinality(tries) \in Nat
      BY <1>1, <1>2, FS_AddElement, FS_CardinalityType DEF Types
    <2> QED
      BY <1>1, <2>1, Constants
  <1>4. /\ Matching(reader.opts) \subseteq Matching(reader.opts)'
        /\ Matching(reader.opts)' \subseteq Matching(reader.opts) \cup {row}
    BY <1>1 DEF Matching
  <1>5. Types'
    BY <1>1, <1>3, <1>4 DEF Types
  <1>6. \A t : /\ SameTime(t) => SameTime(t)'
               /\ Arrived(t) => Arrived(t)'
               /\ SameMilli(t)' <=> SameMilli(t)
    BY <1>1, <1>4 DEF SameTime, Arrived, SameMilli
  <1>7. \A t : Excused(t) => Excused(t)'
    BY <1>1, <1>6 DEF Excused, Settled
  <1>8. TokenInv'
    BY <1>1, <1>7 DEF TokenInv, Reading
  <1>9. DoneInv'
    BY <1>1, <1>7 DEF DoneInv
  <1>10. NumberInv'
    <2>1. SUFFICES ASSUME Reading("number"), NEW t \in Matching(reader.opts)', Settled(t)'
                   PROVE  /\ t \in reader.got => Rank(t) < reader.opts.size * reader.page
                          /\ t \in reader.began =>
                               /\ Rank(t) < reader.opts.size * reader.page => t \in reader.got
                               /\ reader.pc = "page" => Rank(t) < reader.opts.size * reader.total
      BY <1>1 DEF NumberInv, Reading, Rank, Before
    <2>2. t \in reader.got \cup reader.began => t \in Matching(reader.opts)
      BY <2>1 DEF Types, Reading
    <2>3. Settled(t)
      BY <1>6, <2>1 DEF Settled
    <2> QED
      BY <2>1, <2>2, <2>3 DEF NumberInv
  <1> QED
    BY <1>5, <1>8, <1>9, <1>10

LEMMA HandleAnswerLogKeeps ==
  ASSUME IInv, NEW opts \in Options, HandleAnswerLog(opts)
  PROVE  IInv'
  <1> USE DEF IInv
  <1>1. /\ tries' = tries /\ reader.pc = "idle" /\ reader = Idle
        /\ reader' = [Idle EXCEPT !.pc = "count", !.opts = opts, !.began = Matching(opts)]
    BY DEF HandleAnswerLog, Types
  <1>2. Matching(opts) \subseteq tries /\ Matching(opts)' = Matching(opts)
    BY <1>1 DEF Matching
  <1>3. /\ reader'.pc = "count" /\ reader'.opts = opts /\ reader'.began = Matching(opts)
        /\ reader'.token = -1 /\ reader'.page = 0 /\ reader'.got = {} /\ reader'.again = {}
    BY <1>1 DEF Idle
  <1>4. reader' \in Readers
    <2>1. Matching(opts) \in SUBSET Try /\ Idle \in Readers
      BY <1>1, <1>2 DEF Types
    <2> QED
      BY <1>1, <2>1 DEF Readers
  <1>5. Matching(reader.opts)' = Matching(opts)
    BY <1>1, <1>3 DEF Matching
  <1>6. Types'
    BY <1>1, <1>2, <1>3, <1>4, <1>5 DEF Types
  <1>7. TokenInv'
    BY <1>3 DEF TokenInv, Past
  <1>8. NumberInv'
    <2>1. SUFFICES ASSUME NEW t \in Matching(opts) PROVE ~(Rank(t)' < 0)
      <3>1. opts.size * 0 = 0
        BY Constants DEF Options
      <3> QED
        BY <1>3, <1>5, <2>1, <3>1 DEF NumberInv
    <2>2. Before(reader.began, t)' \subseteq tries
      BY <1>2, <1>3 DEF Before
    <2>3. Cardinality(Before(reader.began, t)') \in Nat
      BY <2>2, FS_Subset, FS_CardinalityType DEF Types
    <2> QED
      BY <2>3 DEF Rank
  <1>9. DoneInv'
    BY <1>3 DEF DoneInv
  <1> QED
    BY <1>6, <1>7, <1>8, <1>9

(* No rank is beyond the pages that were counted.                          *)
LEMMA CountAnswersKeeps ==
  ASSUME IInv, CountAnswers
  PROVE  IInv'
  <1> USE DEF IInv
  <1> DEFINE rows == Matching(reader.opts)
             total == PageCount(Cardinality(rows), reader.opts.size)
  <1>1. /\ tries' = tries /\ reader.pc = "count"
        /\ reader' = [reader EXCEPT !.pc = "page", !.total = total]
    BY DEF CountAnswers
  <1>2. /\ Cardinality(rows) \in Nat /\ Cardinality(rows) <= MaxTries
        /\ IsFiniteSet(rows)
    <2>1. Cardinality(rows) <= Cardinality(tries) /\ Cardinality(rows) \in Nat
          /\ Cardinality(tries) \in Nat /\ IsFiniteSet(rows)
      BY RowsHaveTypes, FS_Subset, FS_CardinalityType DEF Types
    <2> QED
      BY <2>1, Constants DEF Types
  <1>3. total \in 0 .. Cardinality(rows) /\ Cardinality(rows) <= reader.opts.size * total
    BY <1>1, <1>2, OptionsHaveTypes, PageCountBounds
  <1>4. total \in 0 .. MaxTries
    BY <1>2, <1>3, Constants
  <1> HIDE DEF total
  <1>5. /\ reader' \in Readers /\ reader'.pc = "page" /\ reader'.total = total
        /\ reader'.opts = reader.opts /\ reader'.token = reader.token /\ reader'.page = reader.page
        /\ reader'.began = reader.began /\ reader'.got = reader.got /\ reader'.again = reader.again
    BY <1>1, <1>4 DEF Types, Readers
  <1>6. Matching(reader.opts)' = Matching(reader.opts)
    BY <1>1, <1>5 DEF Matching
  <1>7. Types'
    BY <1>1, <1>5, <1>6 DEF Types
  <1>8. \A t : /\ Excused(t)' <=> Excused(t)
               /\ Settled(t)' <=> Settled(t)
               /\ Rank(t)' = Rank(t)
    BY <1>1, <1>5, <1>6 DEF Excused, Settled, SameTime, SameMilli, Arrived, Rank, Before
  <1>9. TokenInv'
    BY <1>1, <1>5, <1>8 DEF TokenInv, Reading
  <1>10. NumberInv'
    <2>1. ASSUME NEW t \in reader.began PROVE Rank(t) < reader.opts.size * total
      <3>1. /\ Before(reader.began, t) \subseteq rows /\ t \in rows /\ t \in tries
        BY <1>1, <2>1 DEF Before, Types
      <3>2. t \notin Before(reader.began, t)
        BY <3>1, PrecedesIsStrict DEF Before
      <3>3. /\ Rank(t) \in Nat /\ Rank(t) <= Cardinality(rows)
            /\ Rank(t) = Cardinality(rows) => Before(reader.began, t) = rows
        <4> HIDE DEF rows
        <4> QED
          BY <1>2, <3>1, FS_Subset, FS_CardinalityType DEF Rank
      <3>4. Rank(t) < Cardinality(rows)
        BY <1>2, <3>1, <3>2, <3>3
      <3>5. PICK bound \in Nat : bound = reader.opts.size * total
        BY <1>1, <1>2, <1>3, OptionsHaveTypes
      <3> QED
        BY <1>2, <1>3, <3>3, <3>4, <3>5
    <2> QED
      BY <1>1, <1>5, <1>6, <1>8, <2>1 DEF NumberInv, Reading
  <1>11. DoneInv'
    BY <1>5 DEF DoneInv
  <1> QED
    BY <1>7, <1>9, <1>10, <1>11

-----------------------------------------------------------------------------
LEMMA PageIsOfRest ==
  ASSUME Types, reader.pc = "page", NEW page \in Pages(reader.opts, reader.token, reader.page)
  PROVE  Range(page) \subseteq Rest /\ (page # <<>> => Last(page) \in Range(page))
  <1>1. PICK skip \in Nat :
          skip = IF reader.opts.by = "token" THEN 0 ELSE reader.opts.size * reader.page
    BY OptionsHaveTypes
  <1>2. PICK s \in Seq(Rest), n \in 0 .. reader.opts.size :
           /\ HasPiece(page, s, skip, n)
           /\ n # 0 => skip + n \in 1 .. Len(s)
    BY <1>1, PageOf
  <1>3. n \in Nat /\ (n # 0 => skip + n <= Len(s))
    BY <1>2, OptionsHaveTypes
  <1>4. /\ Range(page) = {s[i] : i \in skip + 1 .. skip + n}
        /\ page = <<>> <=> n = 0
        /\ page # <<>> => Last(page) = s[skip + n]
    BY <1>2 DEF HasPiece
  <1>5. \A i \in skip + 1 .. skip + n : i \in 1 .. Len(s) /\ s[i] \in Rest
    BY <1>3
  <1>6. n # 0 => skip + n \in skip + 1 .. skip + n
    BY <1>3
  <1> QED
    BY <1>4, <1>5, <1>6

(* What a page does, whichever way the client goes.                        *)
LEMMA QueryIs ==
  ASSUME IInv, NEW page \in Pages(reader.opts, reader.token, reader.page), reader.pc = "page",
         tries' = tries,
         reader' = [reader EXCEPT
                      !.pc = IF IsLast(page) THEN "done" ELSE "count",
                      !.token = NextToken(page),
                      !.page = IF IsLast(page) \/ reader.opts.by = "token" THEN @ ELSE @ + 1,
                      !.got = @ \cup Range(page),
                      !.again = @ \cup (reader.got \cap Range(page))]
  PROVE  /\ Types'
         /\ reader'.pc = (IF IsLast(page) THEN "done" ELSE "count")
         /\ reader'.token = NextToken(page)
         /\ reader'.page = (IF IsLast(page) \/ reader.opts.by = "token" THEN reader.page
                            ELSE reader.page + 1)
         /\ reader'.got = reader.got \cup Range(page)
         /\ reader'.opts = reader.opts /\ reader'.began = reader.began
         /\ reader'.total = reader.total
         /\ Matching(reader.opts)' = Matching(reader.opts)
         /\ \A t : /\ Excused(t) => Excused(t)'
                   /\ Settled(t)' <=> Settled(t)
                   /\ Rank(t)' = Rank(t)
  <1> USE DEF IInv
  <1>1. /\ Range(page) \subseteq Matching(reader.opts) /\ Range(page) \subseteq tries
        /\ page # <<>> => Last(page) \in tries
    BY PageIsOfRest, RowsHaveTypes
  <1>2. NextToken(page) \in -1 .. UnixMilli(MaxTime)
    <2>1. UnixMilli(MaxTime) \in Nat
      BY UnixBounds, Constants
    <2>2. CASE page = <<>>
      BY <2>1, <2>2 DEF NextToken
    <2>3. CASE page # <<>>
      <3>1. Last(page).time \in Nat /\ Last(page).time <= MaxTime
        BY <1>1, <2>3, RowsHaveTypes
      <3>2. UnixMilli(Last(page).time) \in Nat /\ UnixMilli(Last(page).time) <= UnixMilli(MaxTime)
        BY <3>1, Constants, UnixBounds, UnixGrows
      <3> QED
        BY <2>1, <2>3, <3>2 DEF NextToken
    <2> QED
      BY <2>2, <2>3
  <1> DEFINE number == IF IsLast(page) \/ reader.opts.by = "token" THEN reader.page
                       ELSE reader.page + 1
  <1>3. number \in 0 .. MaxTries
    BY Constants DEF Types, Readers, IsLast
  <1> HIDE DEF number
  <1>4. /\ reader' \in Readers
        /\ reader'.pc = (IF IsLast(page) THEN "done" ELSE "count")
        /\ reader'.token = NextToken(page) /\ reader'.page = number
        /\ reader'.got = reader.got \cup Range(page)
        /\ reader'.again = reader.again \cup (reader.got \cap Range(page))
        /\ reader'.opts = reader.opts /\ reader'.began = reader.began
        /\ reader'.total = reader.total
    <2>1. /\ reader \in Readers /\ Range(page) \subseteq Try
      BY <1>1 DEF Types
    <2>2. PICK pc \in {"done", "count"} : pc = IF IsLast(page) THEN "done" ELSE "count"
      OBVIOUS
    <2>3. reader' = [reader EXCEPT !.pc = pc, !.token = NextToken(page), !.page = number,
                       !.got = @ \cup Range(page),
                       !.again = @ \cup (reader.got \cap Range(page))]
      BY <2>1, <2>2 DEF number, Readers
    <2>4. PICK token, got, again :
            /\ token = NextToken(page) /\ got = reader.got \cup Range(page)
            /\ again = reader.again \cup (reader.got \cap Range(page))
      OBVIOUS
    <2>5. token \in -1 .. UnixMilli(MaxTime) /\ got \in SUBSET Try /\ again \in SUBSET Try
      BY <1>2, <2>1, <2>4 DEF Readers
    <2>6. reader' = [reader EXCEPT !.pc = pc, !.token = token, !.page = number, !.got = got,
                       !.again = again]
      BY <2>3, <2>4
    <2>7. /\ reader' \in Readers /\ reader'.pc = pc /\ reader'.token = token
          /\ reader'.page = number /\ reader'.got = got /\ reader'.again = again
          /\ reader'.opts = reader.opts /\ reader'.began = reader.began
          /\ reader'.total = reader.total
      BY <1>3, <2>1, <2>2, <2>5, <2>6 DEF Readers
    <2> QED
      BY <2>2, <2>4, <2>7
  <1>5. Matching(reader.opts)' = Matching(reader.opts)
    BY <1>4 DEF Matching
  <1>6. Types'
    BY <1>1, <1>4, <1>5 DEF Types
  <1>7. \A t : /\ SameTime(t)' <=> SameTime(t)
               /\ Arrived(t)' <=> Arrived(t)
               /\ SameMilli(t) => SameMilli(t)'
               /\ Rank(t)' = Rank(t)
    BY <1>4, <1>5 DEF SameTime, Arrived, SameMilli, Rank, Before
  <1>8. \A t : Excused(t) => Excused(t)'
    BY <1>4, <1>7 DEF Excused, Settled
  <1> QED
    BY <1>4, <1>5, <1>6, <1>7, <1>8 DEF number, Settled

(* Following tokens.                                                       *)
LEMMA QueryByToken ==
  ASSUME IInv, NEW page \in Pages(reader.opts, reader.token, reader.page), reader.pc = "page",
         reader.opts.by = "token", tries' = tries,
         reader'.pc = (IF IsLast(page) THEN "done" ELSE "count"),
         reader'.token = NextToken(page), reader'.got = reader.got \cup Range(page),
         reader'.opts = reader.opts, reader'.began = reader.began,
         \A t : Excused(t) => Excused(t)'
  PROVE  TokenInv' /\ DoneInv'
  <1> USE DEF IInv
  <1>1. /\ Range(page) \subseteq Rest
        /\ Len(page) < reader.opts.size => Rest \subseteq Range(page)
        /\ Len(page) \in 0 .. reader.opts.size
        /\ page = <<>> <=> Len(page) = 0
        /\ page # <<>> =>
              /\ Last(page) \in Range(page)
              /\ \A t \in Range(page) : t = Last(page) \/ ~Precedes(reader.opts, Last(page), t)
              /\ \A t \in Rest \ Range(page) : ~Precedes(reader.opts, t, Last(page))
    BY TokenPage
  <1>2. IsLast(page) <=> Len(page) < reader.opts.size
    BY DEF IsLast
  <1>3. /\ reader.opts.size \in Nat /\ reader.opts.size > 0 /\ reader.opts.desc \in BOOLEAN
        /\ reader.began \subseteq Matching(reader.opts) /\ reader.began \subseteq tries
        /\ reader.got \subseteq tries /\ Rest \subseteq tries
        /\ \A t \in tries : t.time \in Nat
    BY OptionsHaveTypes, RowsHaveTypes DEF Types
  <1>4. ASSUME NEW t \in reader.began, t \notin reader'.got
        PROVE  Excused(t)' \/ t \in Rest \ Range(page)
    <2>1. t \in reader.began \ reader.got /\ t \notin Range(page)
      BY <1>4
    <2>2. Past(reader.opts, reader.token, t.time) \/ Excused(t)
      BY <2>1 DEF TokenInv, Reading
    <2>3. Past(reader.opts, reader.token, t.time) => t \in Rest
      BY <1>3, <1>4 DEF Rest
    <2> QED
      BY <2>1, <2>2, <2>3
  <1>5. DoneInv'
    <2>1. SUFFICES ASSUME reader'.pc = "done", NEW t \in reader.began, t \notin reader'.got
                   PROVE  Excused(t)'
      BY DEF DoneInv
    <2>2. IsLast(page)
      BY <2>1
    <2> QED
      BY <1>1, <1>2, <1>4, <2>1, <2>2
  <1>6. ASSUME reader'.pc = "count"
        PROVE  /\ \A g \in reader'.got :
                    /\ reader'.token # -1
                    /\ IF reader.opts.desc THEN g.time >= reader'.token * PerMilli
                       ELSE UnixMilli(g.time) <= reader'.token
               /\ \A t \in reader.began : t \notin reader'.got =>
                    Past(reader.opts, reader'.token, t.time) \/ Excused(t)'
    <2>1. page # <<>>
      BY <1>1, <1>2, <1>3, <1>6
    <2>2. PICK p \in Range(page) : p = Last(page)
      BY <1>1, <2>1
    <2>3. p \in Rest /\ p \in tries /\ p \in reader'.got
      BY <1>1, <1>3, <2>2
    <2>4. PICK pt \in Nat : pt = p.time
      BY <1>3, <2>3
    <2>5. PICK u \in Nat : u = UnixMilli(pt) /\ u * PerMilli \in Nat /\ u * PerMilli <= pt
      BY UnixBounds
    <2>6. reader'.token = u
      BY <2>1, <2>2, <2>4, <2>5 DEF NextToken
    <2>7. Past(reader.opts, reader.token, pt)
      BY <2>3, <2>4 DEF Rest
    <2>8. ASSUME NEW g \in reader.got
          PROVE  /\ reader.token \in Nat
                 /\ reader.opts.desc => g.time >= reader.token * PerMilli
                                        /\ pt < reader.token * PerMilli
                 /\ ~reader.opts.desc => UnixMilli(g.time) <= reader.token
                                         /\ reader.token * PerMilli <= pt
      <3>1. /\ reader.token # -1
            /\ IF reader.opts.desc THEN g.time >= reader.token * PerMilli
               ELSE UnixMilli(g.time) <= reader.token
        BY <2>8 DEF TokenInv, Reading
      <3>2. reader.token \in Nat
        <4>1. reader.token \in -1 .. UnixMilli(MaxTime) /\ UnixMilli(MaxTime) \in Nat
          BY UnixBounds, Constants DEF Types, Readers
        <4> QED
          BY <3>1, <4>1
      <3>3. reader.token * PerMilli \in Nat
        BY <3>2, Constants
      <3> QED
        BY <2>7, <3>1, <3>2, <3>3 DEF Past
    <2>9. ASSUME NEW g \in reader'.got
          PROVE  IF reader.opts.desc THEN g.time >= u * PerMilli ELSE UnixMilli(g.time) <= u
      <3>1. g \in tries /\ g.time \in Nat
        BY <1>1, <1>3, <2>9
      <3>2. CASE g \in reader.got
        <4>1. CASE reader.opts.desc
          <5>1. PICK bound \in Nat : bound = reader.token * PerMilli
            BY <2>8, <3>2, Constants
          <5> QED
            BY <2>5, <2>8, <3>1, <3>2, <4>1, <5>1
        <4>2. CASE ~reader.opts.desc
          <5>1. reader.token \in Nat /\ reader.token <= u
            BY <2>5, <2>8, <3>2, <4>2, UnixIs
          <5>2. UnixMilli(g.time) \in Nat /\ UnixMilli(g.time) <= reader.token
            BY <2>8, <3>1, <3>2, <4>2, UnixBounds
          <5> QED
            BY <4>2, <5>1, <5>2
        <4> QED
          BY <4>1, <4>2
      <3>3. CASE g \in Range(page)
        <4>1. IF reader.opts.desc THEN pt <= g.time ELSE g.time <= pt
          BY <1>1, <1>3, <2>1, <2>2, <2>4, <3>1, <3>3 DEF Precedes
        <4>2. CASE reader.opts.desc
          BY <2>5, <3>1, <4>1, <4>2
        <4>3. CASE ~reader.opts.desc
          BY <2>5, <3>1, <4>1, <4>3, UnixGrows
        <4> QED
          BY <4>2, <4>3
      <3> QED
        BY <2>9, <3>2, <3>3
    <2>10. ASSUME NEW t \in reader.began, t \notin reader'.got, ~Excused(t)'
           PROVE  Past(reader.opts, u, t.time)
      <3>1. t \in Rest \ Range(page) /\ t \in tries /\ t.time \in Nat /\ t # p
        BY <1>3, <1>4, <2>3, <2>10
      <3>2. IF reader.opts.desc THEN t.time <= pt ELSE pt <= t.time
        BY <1>1, <1>3, <2>1, <2>2, <2>4, <3>1 DEF Precedes
      <3>3. CASE reader.opts.desc
        <4>1. SUFFICES ASSUME u * PerMilli <= t.time PROVE FALSE
          BY <2>5, <3>1, <3>3 DEF Past
        <4>2. u <= UnixMilli(t.time) /\ UnixMilli(t.time) <= u /\ UnixMilli(t.time) \in Nat
          BY <2>5, <3>1, <3>2, <3>3, <4>1, UnixIs, UnixGrows, UnixBounds
        <4>3. SameMilli(t)'
          BY <2>3, <2>4, <2>5, <3>1, <4>2 DEF SameMilli
        <4> QED
          BY <2>10, <3>3, <4>3 DEF Excused
      <3>4. CASE ~reader.opts.desc
        <4>1. SUFFICES ASSUME ~(t.time > u * PerMilli) PROVE FALSE
          BY <3>4 DEF Past
        <4>2. t.time = pt
          BY <2>5, <3>1, <3>2, <3>4, <4>1
        <4>3. SameTime(t)'
          BY <2>3, <2>4, <3>1, <4>2 DEF SameTime
        <4> QED
          BY <2>10, <3>4, <4>3 DEF Excused
      <3> QED
        BY <3>3, <3>4
    <2> QED
      BY <2>5, <2>6, <2>9, <2>10
  <1>7. TokenInv'
    <2>1. SUFFICES ASSUME reader'.pc \in {"count", "page"} PROVE TokenInv'
      BY DEF TokenInv, Reading
    <2>2. reader'.pc = "count"
      BY <2>1
    <2> QED
      BY <1>6, <2>2 DEF TokenInv
  <1> QED
    BY <1>5, <1>7

(* Following numbers.                                                      *)
LEMMA QueryByNumber ==
  ASSUME IInv, NEW page \in Pages(reader.opts, reader.token, reader.page), reader.pc = "page",
         reader.opts.by = "number", tries' = tries,
         reader'.pc = (IF IsLast(page) THEN "done" ELSE "count"),
         reader'.page = (IF IsLast(page) THEN reader.page ELSE reader.page + 1),
         reader'.got = reader.got \cup Range(page),
         reader'.opts = reader.opts, reader'.began = reader.began,
         Matching(reader.opts)' = Matching(reader.opts),
         \A t : (Settled(t)' <=> Settled(t)) /\ Rank(t)' = Rank(t)
  PROVE  NumberInv' /\ DoneInv'
  <1> USE DEF IInv
  <1>1. PICK size \in Nat, number \in Nat, total \in Nat :
          size = reader.opts.size /\ number = reader.page /\ total = reader.total
    BY OptionsHaveTypes
  <1>2. PICK low \in Nat : low = size * number /\ size * (number + 1) = low + size
    BY <1>1
  <1>3. reader.began \subseteq Matching(reader.opts)
    BY DEF Types
  <1>4. ASSUME NEW t \in Matching(reader.opts), Settled(t)
        PROVE  /\ Rank(t) \in Nat
               /\ t \in reader'.got => Rank(t) < low + size
               /\ t \in reader.began =>
                    /\ Rank(t) < low + size => t \in reader'.got
                    /\ Rank(t) < size * total
    <2>1. Rank(t) \in Nat
      <3>1. Before(reader.began, t) \subseteq tries
        BY <1>3, RowsHaveTypes DEF Before
      <3> QED
        BY <3>1, FS_Subset, FS_CardinalityType DEF Rank, Types
    <2>2. t \in Range(page) <=> low <= Rank(t) /\ Rank(t) < low + size
      BY <1>1, <1>2, <1>4, NumberPage
    <2>3. /\ t \in reader.got => Rank(t) < low
          /\ t \in reader.began =>
               /\ Rank(t) < low => t \in reader.got
               /\ Rank(t) < size * total
      BY <1>1, <1>2, <1>4 DEF NumberInv, Reading
    <2> QED
      BY <2>1, <2>2, <2>3
  <1>5. NumberInv'
    <2>1. SUFFICES ASSUME reader'.pc = "count", NEW t \in Matching(reader.opts), Settled(t)
                   PROVE  /\ t \in reader'.got => Rank(t) < low + size
                          /\ t \in reader.began =>
                               (Rank(t) < low + size => t \in reader'.got)
      BY <1>1, <1>2 DEF NumberInv, Reading
    <2> QED
      BY <1>4, <2>1
  <1>6. DoneInv'
    <2>1. SUFFICES ASSUME reader'.pc = "done", NEW t \in reader.began, t \notin reader'.got,
                          Settled(t)
                   PROVE  FALSE
      BY DEF DoneInv, Excused
    <2>2. total <= number + 1
      BY <1>1, <2>1 DEF IsLast
    <2>3. PICK bound \in Nat : bound = size * total /\ bound <= size * (number + 1)
      BY <2>2
    <2>4. Rank(t) \in Nat /\ ~(Rank(t) < low + size) /\ Rank(t) < bound
      BY <1>3, <1>4, <2>1, <2>3
    <2> QED
      BY <1>2, <2>3, <2>4
  <1> QED
    BY <1>5, <1>6

LEMMA QueryAnswersKeeps ==
  ASSUME IInv, QueryAnswers
  PROVE  IInv'
  <1>1. PICK page \in Pages(reader.opts, reader.token, reader.page) :
          reader' = [reader EXCEPT
                       !.pc = IF IsLast(page) THEN "done" ELSE "count",
                       !.token = NextToken(page),
                       !.page = IF IsLast(page) \/ reader.opts.by = "token" THEN @ ELSE @ + 1,
                       !.got = @ \cup Range(page),
                       !.again = @ \cup (reader.got \cap Range(page))]
    BY DEF QueryAnswers
  <1>2. reader.pc = "page" /\ tries' = tries
    BY DEF QueryAnswers
  <1>3. /\ Types'
        /\ reader'.pc = (IF IsLast(page) THEN "done" ELSE "count")
        /\ reader'.token = NextToken(page)
        /\ reader'.page = (IF IsLast(page) \/ reader.opts.by = "token" THEN reader.page
                           ELSE reader.page + 1)
        /\ reader'.got = reader.got \cup Range(page)
        /\ reader'.opts = reader.opts /\ reader'.began = reader.began
        /\ reader'.total = reader.total
        /\ Matching(reader.opts)' = Matching(reader.opts)
        /\ \A t : /\ Excused(t) => Excused(t)'
                  /\ Settled(t)' <=> Settled(t)
                  /\ Rank(t)' = Rank(t)
    BY <1>1, <1>2, QueryIs
  <1>4. CASE reader.opts.by = "token"
    <2>1. TokenInv' /\ DoneInv'
      BY <1>2, <1>3, <1>4, QueryByToken
    <2>2. NumberInv'
      BY <1>3, <1>4 DEF NumberInv, Reading
    <2> QED
      BY <1>3, <2>1, <2>2 DEF IInv
  <1>5. CASE reader.opts.by = "number"
    <2>1. NumberInv' /\ DoneInv'
      BY <1>2, <1>3, <1>5, QueryByNumber
    <2>2. TokenInv'
      BY <1>3, <1>5 DEF TokenInv, Reading
    <2> QED
      BY <1>3, <2>1, <2>2 DEF IInv
  <1> QED
    BY <1>2, <1>4, <1>5, OptionsHaveTypes DEF IInv

LEMMA CloseKeeps ==
  ASSUME IInv, Close
  PROVE  IInv'
  <1>1. tries' = tries /\ reader' = Idle
    BY DEF Close
  <1>2. /\ tries \subseteq Try /\ IsFiniteSet(tries) /\ Cardinality(tries) <= MaxTries
    BY DEF IInv, Types
  <1>3. UnixMilli(MaxTime) \in Nat /\ -1 \in -1 .. UnixMilli(MaxTime) /\ 0 \in 0 .. MaxTries
    BY UnixBounds, Constants
  <1>4. Idle \in Readers
    BY <1>3 DEF Idle, Readers
  <1>5. reader'.pc = "idle" /\ reader'.began = {} /\ reader'.got = {} /\ reader'.again = {}
    BY <1>1 DEF Idle
  <1> QED
    BY <1>1, <1>2, <1>4, <1>5 DEF IInv, Types, TokenInv, NumberInv, DoneInv, Reading

LEMMA NextKeeps == IInv /\ [Next]_vars => IInv'
  <1> SUFFICES ASSUME IInv, [Next]_vars PROVE IInv'
    OBVIOUS
  <1>1. CASE UNCHANGED vars
    BY <1>1 DEF vars, IInv, Types, TokenInv, NumberInv, DoneInv, Reading, Matching, Excused,
                Settled, SameTime, SameMilli, Arrived, Rank, Before
  <1>2. CASE Next
    BY <1>2, CreateAnswerTryKeeps, HandleAnswerLogKeeps, CountAnswersKeeps, QueryAnswersKeeps,
       CloseKeeps DEF Next, Read
  <1> QED
    BY <1>1, <1>2

THEOREM AlwaysSound == Spec => []IInv
  BY InitIsSound, NextKeeps, PTL DEF Spec

(* Answers and readers have their types, a token is that of an answer, and *)
(* no client is sent past the last page that was counted (TypeOK).         *)
THEOREM TypeCorrect == Spec => []TypeOK
  <1>1. IInv => TypeOK
    BY DEF IInv, Types, TypeOK, Readers
  <1> QED
    BY <1>1, AlwaysSound, PTL

(* GetAnswerLog: what a client that has come to the end of the log was not *)
(* sent, by token in either direction and by number, though teams go on    *)
(* answering.                                                              *)
THEOREM LittleIsMissed == Spec => []NothingIsMissed
  <1>1. IInv => NothingIsMissed
    <2>1. SUFFICES ASSUME IInv, reader.pc = "done", NEW t \in reader.began \ reader.got
                   PROVE  /\ reader.opts.by = "number" => SameTime(t) \/ Arrived(t)
                          /\ reader.opts.by = "token" =>
                               IF reader.opts.desc THEN SameMilli(t) ELSE SameTime(t)
      <3>1. ASSUME IInv, reader.pc = "done" PROVE reader.opts.by \in {"token", "number"}
        BY <3>1, OptionsHaveTypes DEF IInv
      <3> QED
        BY <3>1 DEF NothingIsMissed
    <2>2. Excused(t)
      BY <2>1 DEF IInv, DoneInv
    <2> QED
      BY <2>2 DEF Excused, Settled
  <1> QED
    BY <1>1, AlwaysSound, PTL

(* GetAnswerLog: what a client is sent twice.                              *)
THEOREM RepeatsExplained == Spec => RepeatsAreExplained
  <1> DEFINE Explained(t) ==
        CASE reader.opts.by = "number" -> SameTime(t) \/ Arrived(t)
          [] reader.opts.by = "token" /\ reader.opts.desc -> FALSE
          [] OTHER -> UnixMilli(t.time) = reader.token
  <1>1. ASSUME IInv, QueryAnswers, NEW t \in reader'.again \ reader.again PROVE Explained(t)
    <2>1. PICK page \in Pages(reader.opts, reader.token, reader.page) :
            reader'.again = reader.again \cup (reader.got \cap Range(page))
      BY <1>1 DEF QueryAnswers, IInv, Types, Readers
    <2>2. reader.pc = "page" /\ t \in reader.got /\ t \in Range(page)
      BY <1>1, <2>1 DEF QueryAnswers
    <2>3. t \in Rest /\ t \in Matching(reader.opts) /\ t.time \in Nat
      BY <1>1, <2>2, PageIsOfRest, RowsHaveTypes DEF IInv
    <2>4. reader.opts.by \in {"token", "number"} /\ reader.opts.desc \in BOOLEAN
      BY <1>1, <2>2, OptionsHaveTypes DEF IInv
    <2>5. CASE reader.opts.by = "token"
      <3>1. /\ reader.token # -1
            /\ IF reader.opts.desc THEN t.time >= reader.token * PerMilli
               ELSE UnixMilli(t.time) <= reader.token
        BY <1>1, <2>2, <2>5 DEF IInv, TokenInv, Reading
      <3>2. reader.token \in Nat
        <4>1. reader.token \in -1 .. UnixMilli(MaxTime) /\ UnixMilli(MaxTime) \in Nat
          BY <1>1, UnixBounds, Constants DEF IInv, Types, Readers
        <4> QED
          BY <3>1, <4>1
      <3>3. PICK bound \in Nat : bound = reader.token * PerMilli
        BY <3>2, Constants
      <3>4. IF reader.opts.desc THEN t.time < bound ELSE t.time > bound
        BY <2>3, <2>5, <3>1, <3>3 DEF Rest, Past
      <3>5. ~reader.opts.desc
        BY <2>3, <3>1, <3>3, <3>4
      <3>6. UnixMilli(t.time) \in Nat /\ reader.token <= UnixMilli(t.time)
        BY <2>3, <3>2, <3>3, <3>4, <3>5, UnixIs, UnixBounds
      <3> QED
        BY <2>5, <3>1, <3>2, <3>5, <3>6
    <2>6. CASE reader.opts.by = "number"
      <3>1. SUFFICES ASSUME Settled(t) PROVE FALSE
        BY <2>6 DEF Settled
      <3>2. PICK low \in Nat : low = reader.opts.size * reader.page
        BY <1>1, <2>2, OptionsHaveTypes DEF IInv
      <3>3. Rank(t) < low
        BY <1>1, <2>2, <2>3, <2>6, <3>1, <3>2 DEF IInv, NumberInv, Reading
      <3>4. low <= Rank(t)
        BY <1>1, <2>2, <2>3, <2>6, <3>1, <3>2, NumberPage DEF IInv
      <3>5. Rank(t) \in Nat
        <4>1. Before(reader.began, t) \subseteq tries
          BY <1>1 DEF Before, IInv, Types
        <4> QED
          BY <1>1, <4>1, FS_Subset, FS_CardinalityType DEF Rank, IInv, Types
      <3> QED
        BY <3>2, <3>3, <3>4, <3>5
    <2> QED
      BY <2>4, <2>5, <2>6
  <1>2. ASSUME IInv, [Next]_vars, ~QueryAnswers, NEW t \in reader'.again \ reader.again
        PROVE  FALSE
    <2>1. reader'.again \subseteq reader.again
      <3>1. CASE UNCHANGED vars
        BY <3>1 DEF vars
      <3>2. CASE reader' = reader
        BY <3>2
      <3>3. CASE reader' = Idle
        BY <3>3 DEF Idle
      <3>4. CASE CountAnswers
        BY <1>2, <3>4 DEF CountAnswers, IInv, Types, Readers
      <3>5. ASSUME NEW opts \in Options, HandleAnswerLog(opts) PROVE reader'.again = {}
        BY <3>5 DEF HandleAnswerLog, Idle
      <3> QED
        BY <1>2, <3>1, <3>2, <3>3, <3>4, <3>5 DEF Next, Read, CreateAnswerTry, Close
    <2> QED
      BY <1>2, <2>1
  <1>3. IInv /\ [Next]_vars => [\A t \in reader'.again \ reader.again : Explained(t)]_vars
    <2> HIDE DEF Explained
    <2> QED
      BY <1>1, <1>2
  <1> QED
    BY <1>3, AlwaysSound, PTL DEF Spec, RepeatsAreExplained
=============================================================================
