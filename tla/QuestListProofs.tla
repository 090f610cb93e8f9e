--------------------------- MODULE QuestListProofs --------------------------
(***************************************************************************)
(* Proofs about QuestList, for any number of quests, page sizes, units and *)
(* start times: its type invariant, and what a client that pages through a *)
(* list can miss.                                                          *)
(***************************************************************************)
EXTENDS QuestList, FiniteSetTheorems, TLAPS

PageIds == [finished : BOOLEAN, time : Nat]
Readers == [pc : {"idle", "page", "done"}, opts : Options \cup {None},
            page : PageIds \cup {None}, began : SUBSET Quests, got : SUBSET Shown,
            changes : 0 .. MaxChanges]

(* A quest sent that starts with q, or is listed before q and starts no    *)
(* earlier.                                                                *)
Hides(g, q) ==
  /\ g.id # q
  /\ \/ g.start = quest[q].start
     \/ ~g.finished /\ quest[q].finished /\ g.start >= quest[q].start

(* What becomes of a quest of the list: it has been sent, it is hidden for *)
(* good, or it is yet to come.                                             *)
Covered(q) ==
  \/ \E g \in reader.got : g.id = q \/ Hides(g, q)
  \/ reader.pc = "page" /\ (reader.page # None => Past(reader.page, quest[q]))

Names(page) ==
  \E g \in reader.got : page = [finished |-> g.finished, time |-> Unix(g.start)]

IInv ==
  /\ quest \in [Quests -> Row \cup {None}]
  /\ reader \in Readers
  /\ reader.pc = "idle" => reader = Idle
  /\ reader.pc # "idle" =>
       reader.opts \in Options /\ reader.began \subseteq Listed(reader.opts.list)
  /\ reader.page # None => Names(reader.page)
  /\ \A q \in reader.began : Covered(q)

-----------------------------------------------------------------------------
LEMMA SizesArePositive == \A n \in PageSizes : n \in Nat /\ n > 0
  BY QuestListAssumption

LEMMA UnixBounds ==
  ASSUME NEW x \in Nat
  PROVE  Unix(x) \in Nat /\ Unix(x) * PerSecond \in Nat /\ Unix(x) * PerSecond <= x
  BY QuestListAssumption DEF Unix

(* What there is to know of a sorting of a finite set and its beginning.   *)
LEMMA Enumerates ==
  ASSUME NEW ids, IsFiniteSet(ids), NEW s \in SetToSeqs(ids)
  PROVE  /\ Len(s) \in Nat /\ s \in [1 .. Len(s) -> ids]
         /\ \A x \in ids : \E i \in 1 .. Len(s) : s[i] = x
  <1> DEFINE n == Cardinality(ids)
  <1>1. n \in Nat
    BY FS_CardinalityType
  <1>2. /\ s \in [1 .. n -> ids]
        /\ \A i, j \in 1 .. n : i # j => s[i] # s[j]
    BY DEF SetToSeqs
  <1> HIDE DEF n
  <1>3. Len(s) = n
    BY <1>1, <1>2
  <1>4. s \in Injection(1 .. n, ids)
    BY <1>2 DEF Injection, IsInjective
  <1>5. IsFiniteSet(1 .. n) /\ Cardinality(1 .. n) = n
    BY <1>1, FS_Interval
  <1>6. s \in Surjection(1 .. n, ids)
    BY <1>4, <1>5, FS_Injection DEF n
  <1>7. \A x \in ids : \E i \in 1 .. n : s[i] = x
    BY <1>6 DEF Surjection
  <1> QED
    BY <1>1, <1>2, <1>3, <1>7

LEMMA BeginningOf ==
  ASSUME NEW ids, NEW s, Len(s) \in Nat, s \in [1 .. Len(s) -> ids], NEW k \in 0 .. Len(s)
  PROVE  /\ SubSeq(s, 1, k) \in Seq(ids)
         /\ Len(SubSeq(s, 1, k)) = k
         /\ \A i \in 1 .. k : SubSeq(s, 1, k)[i] = s[i]
         /\ Range(SubSeq(s, 1, k)) = {s[i] : i \in 1 .. k}
  <1>1. s \in Seq(ids)
    OBVIOUS
  <1>2. SubSeq(s, 1, k) \in Seq(ids) /\ Len(SubSeq(s, 1, k)) = k
    BY <1>1
  <1>3. \A i \in 1 .. k : SubSeq(s, 1, k)[i] = s[i]
    BY <1>1
  <1>4. DOMAIN SubSeq(s, 1, k) = 1 .. k
    BY <1>2
  <1> QED
    BY <1>2, <1>3, <1>4 DEF Range

-----------------------------------------------------------------------------
LEMMA InitIsSound == Init => IInv
  BY QuestListAssumption DEF Init, IInv, Idle, Readers

(* A quest that changes is no longer one the client began with; the others *)
(* stay what they were.                                                    *)
LEMMA ChangeKeeps ==
  ASSUME IInv, NEW q \in Quests, NEW row \in Row \cup {None}, Change(q, row)
  PROVE  IInv'
  <1> USE DEF IInv
  <1>1. /\ quest' \in [Quests -> Row \cup {None}]
        /\ \A p \in Quests \ {q} : quest'[p] = quest[p]
    BY DEF Change
  <1>2. CASE reader.pc = "idle" /\ UNCHANGED reader
    <2>1. reader.began = {} /\ reader.got = {} /\ reader.page = None
      BY <1>2 DEF Idle
    <2> QED
      BY <1>1, <1>2, <2>1
  <1>3. CASE /\ reader.pc = "page" /\ reader.changes < MaxChanges
             /\ reader' = [reader EXCEPT !.began = @ \ {q}, !.changes = @ + 1]
    <2>1. /\ reader' \in Readers /\ reader'.began = reader.began \ {q}
          /\ reader'.pc = reader.pc /\ reader'.opts = reader.opts
          /\ reader'.page = reader.page /\ reader'.got = reader.got
      <3>1. reader.changes + 1 \in 0 .. MaxChanges /\ reader.began \ {q} \subseteq Quests
        BY <1>3, QuestListAssumption DEF Readers
      <3> QED
        BY <1>3, <3>1 DEF Readers
    <2>2. ASSUME NEW p \in reader'.began
          PROVE  p \in Listed(reader.opts.list)' /\ Covered(p)'
      <3>1. p \in Quests \ {q} /\ p \in Listed(reader.opts.list) /\ Covered(p)
        BY <1>3, <2>1, <2>2 DEF Readers
      <3>2. quest'[p] = quest[p]
        BY <1>1, <3>1
      <3> QED
        BY <2>1, <3>1, <3>2 DEF Listed, Covered, Hides
    <2>3. (reader.began \subseteq Listed(reader.opts.list))'
      BY <2>1, <2>2
    <2>4. reader'.page # None => Names(reader.page)'
      BY <2>1 DEF Names
    <2> QED
      BY <1>1, <1>3, <2>1, <2>2, <2>3, <2>4 DEF Names
  <1> QED
    BY <1>2, <1>3 DEF Change

LEMMA HandleGetManyKeeps ==
  ASSUME IInv, NEW opts \in Options, HandleGetMany(opts)
  PROVE  IInv'
  <1> USE DEF IInv
  <1>1. reader' = [Idle EXCEPT !.pc = "page", !.opts = opts, !.began = Listed(opts.list)]
    BY DEF HandleGetMany
  <1>2. Listed(opts.list) \subseteq Quests
    BY DEF Listed
  <1>3. /\ reader' \in Readers /\ reader'.pc = "page" /\ reader'.opts = opts
        /\ reader'.page = None /\ reader'.began = Listed(opts.list)
    <2>1. 0 \in 0 .. MaxChanges
      BY QuestListAssumption
    <2> QED
      BY <1>1, <1>2, <2>1 DEF Idle, Readers
  <1>4. quest' = quest /\ Listed(opts.list)' = Listed(opts.list)
    BY DEF HandleGetMany, Listed
  <1>5. (reader.began \subseteq Listed(reader.opts.list))'
    BY <1>3, <1>4 DEF Listed
  <1>6. \A q \in reader'.began : Covered(q)'
    BY <1>3 DEF Covered
  <1> QED
    BY <1>3, <1>4, <1>5, <1>6

(* The page holds all rows that are left, or it ends with a row which no   *)
(* row behind it precedes.                                                 *)
LEMMA PageOf ==
  ASSUME IInv, reader.pc = "page",
         NEW page \in GetQuests(reader.opts.list, reader.page, reader.opts.size)
  PROVE  LET ids == {q \in Listed(reader.opts.list) :
                       reader.page # None => Past(reader.page, quest[q])}
         IN  /\ Range(page) \subseteq ids
             /\ page = <<>> => ids = {}
             /\ page # <<>> => /\ Last(page) \in Range(page)
                               /\ \A q \in ids \ Range(page) : ~Precedes(q, Last(page))
  <1> DEFINE ids == {q \in Listed(reader.opts.list) :
                       reader.page # None => Past(reader.page, quest[q])}
             size == reader.opts.size
  <1>1. size \in Nat /\ size > 0
    <2>1. reader.opts \in Options
      BY DEF IInv
    <2>2. size \in PageSizes
      BY <2>1 DEF Options
    <2> QED
      BY <2>2, SizesArePositive
  <1>2. PICK s \in Sorted(ids) : page = SubSeq(s, 1, IF size < Len(s) THEN size ELSE Len(s))
    BY DEF GetQuests
  <1>3. IsFiniteSet(ids)
    <2>1. ids \subseteq Quests
      BY DEF Listed
    <2> HIDE DEF ids
    <2> QED
      BY <2>1, FS_Subset, QuestListAssumption
  <1> HIDE DEF ids, size
  <1>4. /\ Len(s) \in Nat /\ s \in [1 .. Len(s) -> ids]
        /\ \A x \in ids : \E i \in 1 .. Len(s) : s[i] = x
    BY <1>2, <1>3, Enumerates DEF Sorted
  <1>5. \A i, j \in 1 .. Len(s) : i < j => ~Precedes(s[j], s[i])
    BY <1>2, <1>4 DEF Sorted
  <1> DEFINE k == IF size < Len(s) THEN size ELSE Len(s)
  <1>6. k \in 0 .. Len(s) /\ (k = 0 => Len(s) = 0)
    BY <1>1, <1>4
  <1>7. page = SubSeq(s, 1, k)
    BY <1>2
  <1> HIDE DEF k
  <1>8. /\ page \in Seq(ids) /\ Len(page) = k /\ \A i \in 1 .. k : page[i] = s[i]
        /\ Range(page) = {s[i] : i \in 1 .. k}
    BY <1>4, <1>6, <1>7, BeginningOf
  <1>9. Range(page) \subseteq ids
    BY <1>4, <1>6, <1>8
  <1>10. page = <<>> => ids = {}
    <2>1. page = <<>> => Len(s) = 0
      BY <1>6, <1>8
    <2> QED
      BY <1>4, <2>1
  <1>11. ASSUME page # <<>>
         PROVE  /\ Last(page) \in Range(page)
                /\ \A q \in ids \ Range(page) : ~Precedes(q, Last(page))
    <2>1. k \in 1 .. Len(s) /\ Last(page) = s[k]
      BY <1>6, <1>8, <1>11 DEF Last
    <2>2. ASSUME NEW q \in ids \ Range(page) PROVE ~Precedes(q, Last(page))
      <3>1. PICK i \in 1 .. Len(s) : s[i] = q
        BY <1>4
      <3>2. i > k
        BY <1>8, <2>1, <2>2, <3>1
      <3> QED
        BY <1>5, <2>1, <3>1, <3>2
    <2> QED
      BY <1>8, <2>1, <2>2
  <1> QED
    BY <1>9, <1>10, <1>11 DEF ids

(* A row behind the last one of a page is past its id, or is hidden by it. *)
LEMMA PastOrHidden ==
  ASSUME IInv, NEW p \in Quests, NEW q \in Quests, p # q, quest[p] \in Row, quest[q] \in Row,
         ~Precedes(q, p)
  PROVE  \/ Past(Page(p), quest[q])
         \/ Hides([id |-> p, start |-> quest[p].start, finished |-> quest[p].finished], q)
  <1>1. /\ quest[p].start \in Nat /\ quest[q].start \in Nat
        /\ quest[p].finished \in BOOLEAN /\ quest[q].finished \in BOOLEAN
    BY QuestListAssumption DEF Row
  <1> DEFINE low == Unix(quest[p].start) * PerSecond
  <1>2. low \in Nat /\ low <= quest[p].start
    BY <1>1, UnixBounds
  <1> HIDE DEF low
  <1>3. (quest[p].finished => quest[q].finished) /\ quest[q].start > low
          => Past(Page(p), quest[q])
    BY DEF Past, Page, low
  <1>4. /\ quest[p].finished => quest[q].finished
        /\ quest[p].finished = quest[q].finished => quest[p].start <= quest[q].start
    BY <1>1 DEF Precedes
  <1>5. quest[p].start = quest[q].start
          => Hides([id |-> p, start |-> quest[p].start, finished |-> quest[p].finished], q)
    BY DEF Hides
  <1>6. ~quest[p].finished /\ quest[q].finished /\ quest[p].start >= quest[q].start
          => Hides([id |-> p, start |-> quest[p].start, finished |-> quest[p].finished], q)
    BY DEF Hides
  <1> QED
    BY <1>1, <1>2, <1>3, <1>4, <1>5, <1>6

LEMMA ReadQuestsKeeps ==
  ASSUME IInv, ReadQuests
  PROVE  IInv'
  <1> USE DEF IInv
  <1>1. PICK page \in GetQuests(reader.opts.list, reader.page, reader.opts.size) :
          LET sent == {[id |-> q, start |-> quest[q].start, finished |-> quest[q].finished]
                         : q \in Range(page)}
          IN  reader' = [reader EXCEPT !.pc = IF NextPage(page) = None THEN "done" ELSE "page",
                                       !.page = NextPage(page),
                                       !.got = @ \cup sent]
    BY DEF ReadQuests
  <1> DEFINE sent == {[id |-> q, start |-> quest[q].start, finished |-> quest[q].finished]
                        : q \in Range(page)}
             ids == {q \in Listed(reader.opts.list) :
                       reader.page # None => Past(reader.page, quest[q])}
  <1>2. /\ reader.pc = "page" /\ quest' = quest
        /\ reader.began \subseteq Listed(reader.opts.list)
    BY DEF ReadQuests
  <1>3. /\ Range(page) \subseteq ids
        /\ page = <<>> => ids = {}
        /\ page # <<>> => /\ Last(page) \in Range(page)
                          /\ \A q \in ids \ Range(page) : ~Precedes(q, Last(page))
    BY <1>2, PageOf
  <1>4. \A q \in Listed(reader.opts.list) : q \in Quests /\ quest[q] \in Row
    BY DEF Listed
  <1>5. \A q \in Range(page) : q \in Quests /\ quest[q] \in Row
    BY <1>3, <1>4
  <1>6. page # <<>> => /\ Page(Last(page)) \in PageIds /\ Page(Last(page)) # None
                       /\ NextPage(page) = Page(Last(page))
    <2>1. SUFFICES ASSUME page # <<>> PROVE Page(Last(page)) \in PageIds
      BY QuestListAssumption DEF NextPage, PageIds
    <2>2. quest[Last(page)].start \in Nat /\ quest[Last(page)].finished \in BOOLEAN
      BY <1>3, <1>5, <2>1, QuestListAssumption DEF Row
    <2> QED
      BY <2>2, UnixBounds DEF Page, PageIds
  <1>7. page = <<>> => NextPage(page) = None
    BY DEF NextPage
  <1>8. sent \subseteq Shown
    BY <1>5 DEF Shown, Row
  <1>9. /\ reader' \in Readers
        /\ reader'.pc = (IF page = <<>> THEN "done" ELSE "page")
        /\ reader'.page = NextPage(page) /\ reader'.got = reader.got \cup sent
        /\ reader'.opts = reader.opts /\ reader'.began = reader.began
    <2> HIDE DEF sent
    <2> QED
      BY <1>1, <1>6, <1>7, <1>8 DEF Readers, sent
  <1>10. reader'.page # None => Names(reader.page)'
    <2>1. SUFFICES ASSUME page # <<>> PROVE Names(reader.page)'
      BY <1>7, <1>9
    <2> DEFINE g == [id |-> Last(page), start |-> quest[Last(page)].start,
                     finished |-> quest[Last(page)].finished]
    <2>2. g \in reader'.got
      BY <1>3, <1>9, <2>1
    <2>3. reader'.page = [finished |-> g.finished, time |-> Unix(g.start)]
      BY <1>6, <1>9, <2>1 DEF Page
    <2> QED
      BY <2>2, <2>3 DEF Names
  <1>11. ASSUME NEW q \in reader.began PROVE Covered(q)'
    <2>1. Covered(q) /\ q \in Listed(reader.opts.list) /\ q \in Quests /\ quest[q] \in Row
      BY <1>2, <1>4, <1>11
    <2>2. CASE \E g \in reader.got : g.id = q \/ Hides(g, q)
      BY <1>2, <1>9, <2>2 DEF Covered, Hides
    <2>3. CASE reader.page # None => Past(reader.page, quest[q])
      <3>1. q \in ids
        BY <2>1, <2>3
      <3> HIDE DEF ids
      <3>2. CASE q \in Range(page)
        <4>1. [id |-> q, start |-> quest[q].start, finished |-> quest[q].finished] \in reader'.got
          BY <1>9, <3>2
        <4> QED
          BY <4>1 DEF Covered
      <3>3. CASE q \notin Range(page)
        <4> DEFINE p == Last(page)
        <4>1. page # <<>> /\ p \in Range(page) /\ ~Precedes(q, p)
          BY <1>3, <3>1, <3>3
        <4>2. p \in Quests /\ quest[p] \in Row /\ p # q
          BY <1>5, <3>3, <4>1
        <4>3. PICK g \in reader'.got :
                g = [id |-> p, start |-> quest[p].start, finished |-> quest[p].finished]
          BY <1>9, <4>1
        <4> HIDE DEF p
        <4>4. Past(Page(p), quest[q]) \/ Hides(g, q)
          BY <2>1, <4>1, <4>2, <4>3, PastOrHidden
        <4>5. Hides(g, q) => Hides(g, q)'
          BY <1>2 DEF Hides
        <4>6. reader'.pc = "page" /\ reader'.page = Page(p)
          BY <1>6, <1>9, <4>1 DEF p
        <4> QED
          BY <1>2, <4>3, <4>4, <4>5, <4>6 DEF Covered
      <3> QED
        BY <3>2, <3>3
    <2> QED
      BY <2>1, <2>2, <2>3 DEF Covered
  <1>12. (reader.began \subseteq Listed(reader.opts.list))'
    BY <1>2, <1>9 DEF Listed
  <1> QED
    BY <1>2, <1>9, <1>10, <1>11, <1>12

LEMMA CloseKeeps ==
  ASSUME IInv, Close
  PROVE  IInv'
  BY InitIsSound, QuestListAssumption DEF Close, IInv, Idle, Readers

LEMMA NextKeeps == IInv /\ [Next]_vars => IInv'
  <1> SUFFICES ASSUME IInv, [Next]_vars PROVE IInv'
    OBVIOUS
  <1>1. CASE UNCHANGED vars
    BY <1>1 DEF vars, IInv, Names, Covered, Hides, Listed
  <1>2. ASSUME NEW q \in Quests, NEW row \in Row, CreateQuest(q, row) PROVE IInv'
    BY <1>2, ChangeKeeps DEF CreateQuest
  <1>3. ASSUME NEW q \in Quests, NEW start \in Starts, NEW shape \in Shapes,
               UpdateQuest(q, start, shape)
        PROVE  IInv'
    <2>1. [quest[q] EXCEPT !.start = start, !.shape = shape] \in Row
      BY <1>3 DEF UpdateQuest, IInv, Row
    <2> QED
      BY <1>3, <2>1, ChangeKeeps DEF UpdateQuest
  <1>4. ASSUME NEW q \in Quests, FinishQuest(q) PROVE IInv'
    <2>1. [quest[q] EXCEPT !.finished = TRUE] \in Row
      BY <1>4 DEF FinishQuest, IInv, Row
    <2> QED
      BY <1>4, <2>1, ChangeKeeps DEF FinishQuest
  <1>5. ASSUME NEW q \in Quests, DeleteQuest(q) PROVE IInv'
    BY <1>5, ChangeKeeps DEF DeleteQuest
  <1>6. ASSUME NEW q \in Quests, NEW shape \in Shapes, JoinQuest(q, shape) PROVE IInv'
    <2>1. [quest[q] EXCEPT !.shape = shape] \in Row
      BY <1>6 DEF JoinQuest, IInv, Row
    <2> QED
      BY <1>6, <2>1, ChangeKeeps DEF JoinQuest
  <1>7. CASE Next
    BY <1>2, <1>3, <1>4, <1>5, <1>6, <1>7, HandleGetManyKeeps, ReadQuestsKeeps, CloseKeeps
    DEF Next
  <1> QED
    BY <1>1, <1>7

THEOREM AlwaysSound == Spec => []IInv
  BY InitIsSound, NextKeeps, PTL DEF Spec

(* Quests and readers have their types; the id of the next page is always  *)
(* that of a quest the client has been sent (TypeOK).                      *)
THEOREM TypeCorrect == Spec => []TypeOK
  <1>1. IInv => TypeOK
    BY DEF IInv, TypeOK, Readers, Names, Idle
  <1> QED
    BY <1>1, AlwaysSound, PTL

(* HandleGetMany: a client that goes on to the end of a list has been sent *)
(* every quest that was in it all the time, but those that start with one  *)
(* it was sent, and finished ones behind an unfinished one that starts no  *)
(* earlier, whatever is created, changed, finished and deleted meanwhile.  *)
THEOREM LittleIsMissed == Spec => []NothingIsMissed
  <1>1. IInv => NothingIsMissed
    <2>1. SUFFICES ASSUME IInv, reader.pc = "done",
                          NEW q \in reader.began \ {g.id : g \in reader.got}
                   PROVE  \E g \in reader.got : Hides(g, q)
      BY DEF NothingIsMissed, Hides
    <2> QED
      BY <2>1 DEF IInv, Covered
  <1> QED
    BY <1>1, AlwaysSound, PTL
=============================================================================
