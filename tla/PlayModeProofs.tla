--------------------------- MODULE PlayModeProofs ---------------------------
(***************************************************************************)
(* Proofs about PlayMode, for any quest, any times and any number of       *)
(* requests that interleave: its types; that what was committed before a   *)
(* request arrived is charged, that late requests change nothing and that  *)
(* a group's times stay in order; that honest members of a linear quest    *)
(* play the game of LinearGame; that only a sticky group without a row     *)
(* makes a handler panic; and that a group closes with its last answer.    *)
(***************************************************************************)
EXTENDS PlayMode, WellFoundedInduction, TLAPS

(* A nonempty set of groups has a last one: the CHOOSEs of TeamInfos pick  *)
(* what they describe.                                                     *)
LEMMA LastGroup ==
  ASSUME NEW S \in SUBSET Groups, S # {}
  PROVE  \E m \in S : \A x \in S : x <= m
<1> DEFINE T == {NumGroups - x : x \in S}
<1>1. T \subseteq Nat
  BY PlayModeAssumption DEF Groups
<1>2. T # {}
  OBVIOUS
<1> HIDE DEF T
<1>3. \E k \in T : \A y \in T : ~ (<<y, k>> \in OpToRel(<, Nat))
  BY <1>1, <1>2, NatLessThanWellFounded, WFMin, Zenon
<1>4. PICK k \in T : \A y \in T : ~(y < k)
  BY <1>1, <1>3 DEF OpToRel
<1> USE DEF T
<1>5. PICK m \in S : k = NumGroups - m
  BY <1>4
<1>6. ASSUME NEW x \in S PROVE x <= m
  <2>1. ~(NumGroups - x < NumGroups - m)
    BY <1>4, <1>5
  <2> QED BY <2>1, PlayModeAssumption DEF Groups
<1> QED BY <1>6

(* fillTeamInfos returns rows and openings made of stored times.           *)
LEMMA TeamInfosType ==
  ASSUME NEW rows \in [Groups -> TeamInfoRow \cup {None}],
         NEW S \in SUBSET Groups
  PROVE  TeamInfos(rows, S) \in [Groups -> TeamInfoRead \cup {None}]
<1> DEFINE stored == {g \in S : rows[g] # None}
           last == CHOOSE g \in stored : \A h \in stored : h <= g
           before(g) == {h \in S \ Sticky : h < g}
           prev(g) == CHOOSE h \in before(g) : \A k \in before(g) : k <= h
           value(g) ==
             IF g \notin S \ Sticky THEN None
             ELSE IF g \in stored
             THEN [opening |-> rows[g].opening, closing |-> rows[last].closing]
             ELSE IF before(g) = {}
             THEN [opening |-> StartTime, closing |-> None]
             ELSE IF prev(g) \in stored
             THEN [opening |-> rows[last].closing, closing |-> None]
             ELSE None
<1>1. TeamInfos(rows, S) = [g \in Groups |-> value(g)]
  BY DEF TeamInfos
<1>2. stored # {} => last \in stored
  <2>1. ASSUME stored # {} PROVE \E m \in stored : \A x \in stored : x <= m
    BY <2>1, LastGroup
  <2> HIDE DEF stored
  <2> QED BY <2>1
<1>3. \A g \in stored : rows[g] \in TeamInfoRow
  OBVIOUS
<1>4. stored # {} => rows[last].closing \in Nat
  BY <1>2, <1>3 DEF TeamInfoRow
<1> HIDE DEF last, prev, before
<1>5. ASSUME NEW g \in Groups PROVE value(g) \in TeamInfoRead \cup {None}
  <2>1. g \in stored => rows[g].opening \in Nat
    BY <1>3 DEF TeamInfoRow
  <2> QED BY <1>4, <2>1, PlayModeAssumption DEF TeamInfoRead
<1> HIDE DEF value
<1> QED BY <1>1, <1>5

LEMMA VisibleType ==
  ASSUME TypeOK, NEW r \in Requests
  PROVE  Visible(r) \in [Groups -> TeamInfoRow \cup {None}]
BY DEF TypeOK, Visible, Writes

-----------------------------------------------------------------------------
(* Type correctness, one lemma per action.                                 *)
USE DEF Goto, Unstored

LEMMA NoneTypes ==
  /\ NoInput \in Inputs
  /\ NoLocals \in Locals
  /\ NoWrites \in Writes
BY PlayModeAssumption
   DEF NoInput, Inputs, NoLocals, Locals, NoWrites, Writes, NoGroups, Arrival

LEMMA InitType == Init => TypeOK
<1> SUFFICES ASSUME Init PROVE TypeOK
  OBVIOUS
<1>1. answers \in [Tasks -> Seq(AnswerRow)]
  BY DEF Init
<1>2. ASSUME NEW r \in Requests PROVE Coherent(r)
  BY PlayModeAssumption DEF Init, Coherent, NoInput, NoWrites
<1> QED
  BY <1>1, <1>2, NoneTypes, PlayModeAssumption DEF Init, TypeOK, NoGroups, Labels

(* A request an action does not touch stays coherent.                      *)
LEMMA CoherentFrame ==
  ASSUME NEW q \in Requests, Coherent(q), pc'[q] = pc[q], input'[q] = input[q],
         loc'[q] = loc[q], tx'[q] = tx[q]
  PROVE  Coherent(q)'
BY DEF Coherent, Hints

(* The prover keeps nested EXCEPTs opaque: what the updates of a request's *)
(* locals and writes give is stated here once.                             *)
LEMMA LocalsUpdates ==
  ASSUME NEW l \in Locals
  PROVE  /\ \A x \in Arrival : [l EXCEPT !.seen = x] \in Locals
         /\ \A x \in SUBSET Tasks : [l EXCEPT !.known = x] \in Locals
         /\ \A x \in [Groups -> TeamInfoRead \cup {None}] :
              [l EXCEPT !.read = x] \in Locals
         /\ \A x \in Nat : [l EXCEPT !.now = x] \in Locals
         /\ \A x \in Nat : [l EXCEPT !.cursor = x] \in Locals
         /\ \A x \in Nat \cup {None} : [l EXCEPT !.next = x] \in Locals
BY DEF Locals, Arrival

LEMMA WritesUpdates ==
  ASSUME NEW w \in Writes
  PROVE  /\ \A x \in AnswerRow :
              LET v == [w EXCEPT !.answer = x]
              IN  /\ v \in Writes /\ v.answer = x /\ v.rejected = w.rejected
                  /\ v.hint = w.hint /\ v.info = w.info
         /\ LET v == [w EXCEPT !.rejected = TRUE]
            IN  /\ v \in Writes /\ v.answer = w.answer /\ v.rejected = TRUE
                /\ v.hint = w.hint /\ v.info = w.info
         /\ \A x \in Int \cup {None} :
              LET v == [w EXCEPT !.hint = x]
              IN  /\ v \in Writes /\ v.answer = w.answer
                  /\ v.rejected = w.rejected /\ v.hint = x /\ v.info = w.info
BY DEF Writes

LEMMA InfoUpdate ==
  ASSUME NEW w \in Writes, NEW g \in Groups, NEW x \in TeamInfoRow
  PROVE  LET v == [w EXCEPT !.info[g] = x]
         IN  /\ v \in Writes /\ v.answer = w.answer /\ v.rejected = w.rejected
             /\ v.hint = w.hint /\ v.info = [w.info EXCEPT ![g] = x]
BY DEF Writes

LEMMA UpsertType ==
  ASSUME TypeOK, NEW r \in Requests, NEW g \in Groups, NEW row \in TeamInfoRow,
         UpsertTeamInfo(r, g, row)
  PROVE  /\ tx' \in [Requests -> Writes]
         /\ tx'[r].answer = tx[r].answer /\ tx'[r].rejected = tx[r].rejected
         /\ tx'[r].hint = tx[r].hint /\ tx'[r].info = [tx[r].info EXCEPT ![g] = row]
         /\ \A q \in Requests \ {r} : tx'[q] = tx[q]
BY InfoUpdate DEF UpsertTeamInfo, TypeOK

LEMMA KeepType ==
  ASSUME TypeOK, NEW r \in Requests
  PROVE  /\ Keep(r) \in Locals
         /\ Keep(r).cursor = loc[r].cursor /\ Keep(r).seen = loc[r].seen
BY DEF TypeOK, Keep, Locals, NoLocals, NoGroups

LEMMA ForgetType ==
  ASSUME TypeOK, NEW r \in Requests, Forget(r)
  PROVE  /\ loc' \in [Requests -> Locals] /\ loc'[r] = Keep(r)
         /\ \A q \in Requests \ {r} : loc'[q] = loc[q]
BY KeepType DEF Forget, TypeOK

(* A statement of r that writes none of the tables is checked on r alone.  *)
LEMMA StepType ==
  ASSUME TypeOK, NEW r \in Requests, Unstored,
         pc' \in [Requests -> Labels], loc' \in [Requests -> Locals],
         tx' \in [Requests -> Writes],
         \A q \in Requests \ {r} :
           pc'[q] = pc[q] /\ loc'[q] = loc[q] /\ tx'[q] = tx[q],
         Coherent(r)'
  PROVE  TypeOK'
<1>1. ASSUME NEW q \in Requests PROVE Coherent(q)'
  BY <1>1, CoherentFrame DEF TypeOK
<1> QED BY <1>1 DEF TypeOK, Hints

LEMMA BeginType ==
  ASSUME TypeOK, NEW r \in Requests, NEW in \in Inputs,
         NEW label \in {"groups", "group", "accepted"},
         in.op # "none",
         in.op \in {"answer", "hint"} => in.task \in Tasks,
         in.op = "hint" => in.hint \in Int,
         label = "group" => in.op \in {"answer", "hint"},
         label = "accepted" => in.op = "answer",
         Begin(r, in, label)
  PROVE  TypeOK'
<1>1. input' \in [Requests -> Inputs] /\ pc' \in [Requests -> Labels]
  BY DEF TypeOK, Begin, Labels
<1>2. loc' \in [Requests -> Locals]
  <2>1. Seen(in.task) \in Arrival
    <3>1. in.task # None => in.task \in Tasks
      BY DEF Inputs
    <3> QED BY <3>1 DEF TypeOK, Seen, Arrival, ClosedGroups, AcceptedTasks
  <2>2. loc[r] \in Locals
    BY DEF TypeOK
  <2>3. [loc[r] EXCEPT !.seen = Seen(in.task)] \in Locals
    BY <2>1, <2>2, LocalsUpdates
  <2> QED
    BY <2>3 DEF TypeOK, Begin
<1>3. ASSUME NEW q \in Requests, q # r PROVE Coherent(q)'
  BY <1>3, CoherentFrame DEF TypeOK, Begin
<1>4. Coherent(r)'
  <2>1. /\ pc'[r] = label /\ input'[r] = in
        /\ tx'[r].answer = None /\ tx'[r].rejected = FALSE /\ tx'[r].hint = None
    BY DEF TypeOK, Begin, Coherent, NoWrites
  <2> QED BY <2>1 DEF Coherent, Hints
<1> QED
  BY <1>1, <1>2, <1>3, <1>4 DEF TypeOK, Begin, Hints

LEMMA HandlersType ==
  ASSUME TypeOK, NEW r \in Requests,
         HandleGet(r) \/ HandleTakeHint(r) \/ HandleTryAnswer(r)
  PROVE  TypeOK'
<1>1. CASE HandleGet(r)
  <2> DEFINE in == [op |-> "get", task |-> None, right |-> FALSE, hint |-> None]
  <2>1. in \in Inputs /\ in.op = "get"
    BY DEF Inputs
  <2>2. Begin(r, in, "groups")
    BY <1>1 DEF HandleGet
  <2> HIDE DEF in
  <2> QED BY <2>1, <2>2, BeginType
<1>2. CASE HandleTakeHint(r)
  <2>0. PICK t \in Tasks : \E i \in -1..NumHints[t] :
          Begin(r, [op |-> "hint", task |-> t, right |-> FALSE, hint |-> i], "group")
    BY <1>2 DEF HandleTakeHint
  <2>1. PICK i \in -1..NumHints[t] :
          Begin(r, [op |-> "hint", task |-> t, right |-> FALSE, hint |-> i], "group")
    BY <2>0
  <2> DEFINE in == [op |-> "hint", task |-> t, right |-> FALSE, hint |-> i]
  <2>2. in \in Inputs /\ in.op = "hint" /\ in.task = t /\ in.hint = i /\ i \in Int
    BY PlayModeAssumption DEF Inputs
  <2> HIDE DEF in
  <2> QED BY <2>1, <2>2, BeginType DEF in
<1>3. CASE HandleTryAnswer(r)
  <2>1. PICK t \in Tasks, right \in Texts :
          Begin(r, [op |-> "answer", task |-> t, right |-> right, hint |-> None],
                "accepted")
    BY <1>3 DEF HandleTryAnswer
  <2> DEFINE in == [op |-> "answer", task |-> t, right |-> right, hint |-> None]
  <2>2. in \in Inputs /\ in.op = "answer" /\ in.task = t
    BY PlayModeAssumption DEF Inputs
  <2> HIDE DEF in
  <2> QED BY <2>1, <2>2, BeginType DEF in
<1> QED BY <1>1, <1>2, <1>3

(* The statement labels stay within Labels, and a request stays coherent   *)
(* when only its label and locals change, to a label its input allows.     *)
LEMMA ReadAcceptedType ==
  ASSUME TypeOK, NEW r \in Requests, ReadAccepted(r)
  PROVE  TypeOK'
<1>1. loc[r] \in Locals /\ AcceptedTasks \in SUBSET Tasks
  BY DEF TypeOK, AcceptedTasks
<1>2. /\ loc' \in [Requests -> Locals]
      /\ \A q \in Requests \ {r} : loc'[q] = loc[q]
  <2>1. [loc[r] EXCEPT !.known = AcceptedTasks] \in Locals
    BY <1>1, LocalsUpdates
  <2> QED BY <2>1 DEF TypeOK, ReadAccepted
<1>3. /\ pc' \in [Requests -> Labels] /\ pc'[r] \in {"groups", "commit", "group"}
      /\ \A q \in Requests \ {r} : pc'[q] = pc[q]
  BY DEF TypeOK, ReadAccepted, AfterTryAnswer, Labels
<1>4. Coherent(r)'
  BY <1>3 DEF TypeOK, ReadAccepted, Coherent, Hints
<1> QED BY <1>2, <1>3, <1>4, StepType DEF ReadAccepted, TypeOK

LEMMA ReadGroupType ==
  ASSUME TypeOK, NEW r \in Requests, ReadGroup(r)
  PROVE  TypeOK'
<1>1. loc[r] \in Locals /\ GroupOf[input[r].task] \in Groups
  BY PlayModeAssumption DEF TypeOK, ReadGroup, Coherent
<1> DEFINE read == TeamInfos(Visible(r), {GroupOf[input[r].task]})
<1>2. read \in [Groups -> TeamInfoRead \cup {None}]
  BY <1>1, VisibleType, TeamInfosType
<1> HIDE DEF read
<1>3. [loc[r] EXCEPT !.read = read] \in Locals
  BY <1>1, <1>2, LocalsUpdates
<1>4. /\ loc' \in [Requests -> Locals]
      /\ \A q \in Requests \ {r} : loc'[q] = loc[q]
  BY <1>3 DEF TypeOK, ReadGroup, read
<1>5. Coherent(r)'
  BY DEF TypeOK, ReadGroup, Coherent, Hints
<1>6. pc' \in [Requests -> Labels] /\ \A q \in Requests \ {r} : pc'[q] = pc[q]
  BY DEF TypeOK, ReadGroup, Labels
<1> QED BY <1>4, <1>5, <1>6, StepType DEF ReadGroup, TypeOK

LEMMA CheckAnswerType ==
  ASSUME TypeOK, NEW r \in Requests, CheckAnswer(r)
  PROVE  TypeOK'
<1> DEFINE t == input[r].task
           guard == IF Linear /\ GroupOf[t] \notin Sticky
                    THEN GroupGuard(GroupOf[t], loc[r].read[GroupOf[t]], clock)
                    ELSE "open"
<1>1. /\ guard # "open" => guard \in {"refused", "deadline"}
      /\ guard = "deadline" => /\ TimeLimit[GroupOf[t]] # None
                               /\ loc[r].read[GroupOf[t]] # None
  BY DEF GroupGuard, Expired
<1> HIDE DEF guard
<1>2. CASE guard # "open" /\ Goto(r, guard) /\ UNCHANGED <<loc, tx>>
  <2>1. pc'[r] = guard /\ pc' \in [Requests -> Labels]
    BY <1>1, <1>2 DEF TypeOK, Labels
  <2>2. Coherent(r)'
    BY <1>1, <1>2, <2>1 DEF TypeOK, CheckAnswer, Coherent, Hints
  <2> QED BY <1>2, <2>1, <2>2, StepType DEF CheckAnswer, TypeOK
<1>3. CASE /\ tx' = [tx EXCEPT ![r].rejected = TRUE]
           /\ Goto(r, AfterTryAnswer) /\ Forget(r)
  <2>1. tx[r] \in Writes
    BY DEF TypeOK
  <2>2. /\ tx' \in [Requests -> Writes]
        /\ tx'[r].answer = tx[r].answer /\ tx'[r].hint = tx[r].hint
        /\ \A q \in Requests \ {r} : tx'[q] = tx[q]
    BY <1>3, <2>1, WritesUpdates DEF TypeOK
  <2>3. /\ pc' \in [Requests -> Labels] /\ pc'[r] \in {"groups", "commit"}
        /\ \A q \in Requests \ {r} : pc'[q] = pc[q]
    BY <1>3 DEF TypeOK, AfterTryAnswer, Labels
  <2>4. Coherent(r)'
    BY <2>2, <2>3 DEF TypeOK, CheckAnswer, Coherent, Hints
  <2> QED BY <1>3, <2>2, <2>3, <2>4, ForgetType, StepType DEF CheckAnswer
<1>4. CASE /\ loc' = [loc EXCEPT ![r].now = clock]
           /\ Goto(r, "score") /\ UNCHANGED tx
  <2>1. loc[r] \in Locals /\ clock \in Nat
    BY DEF TypeOK
  <2>2. [loc[r] EXCEPT !.now = clock] \in Locals
    BY <2>1, LocalsUpdates
  <2>3. /\ loc' \in [Requests -> Locals]
        /\ \A q \in Requests \ {r} : loc'[q] = loc[q]
    BY <1>4, <2>2 DEF TypeOK
  <2>4. /\ pc' \in [Requests -> Labels] /\ pc'[r] = "score"
        /\ \A q \in Requests \ {r} : pc'[q] = pc[q]
    BY <1>4 DEF TypeOK, Labels
  <2>5. Coherent(r)'
    BY <1>4, <2>4 DEF TypeOK, CheckAnswer, Coherent, Hints
  <2> QED BY <1>4, <2>3, <2>4, <2>5, StepType DEF CheckAnswer, TypeOK
<1> QED BY <1>2, <1>3, <1>4 DEF CheckAnswer, guard

LEMMA ScoreAnswerType ==
  ASSUME TypeOK, NEW r \in Requests, ScoreAnswer(r)
  PROVE  TypeOK'
<1> DEFINE t == input[r].task
           charged == GetHintTakes(t)
           row == [score |-> Reward[t] - Charge(t, charged), charged |-> charged]
<1>1. t \in Tasks /\ tx[r] \in Writes
  BY DEF TypeOK, ScoreAnswer, Coherent
<1>2. row \in AnswerRow
  <2>1. charged \in SUBSET Nat /\ charged \in SUBSET Hints(t)
    BY <1>1 DEF TypeOK, GetHintTakes
  <2>2. Charge(t, charged) \in Int /\ Reward[t] \in Int
    BY <1>1, <2>1, PlayModeAssumption
  <2> QED BY <2>1, <2>2 DEF AnswerRow
<1>3. tx' = [tx EXCEPT ![r].answer = row]
  BY DEF ScoreAnswer
<1> HIDE DEF row
<1>4. /\ tx' \in [Requests -> Writes]
      /\ tx'[r].rejected = tx[r].rejected /\ tx'[r].hint = tx[r].hint
      /\ \A q \in Requests \ {r} : tx'[q] = tx[q]
  BY <1>1, <1>2, <1>3, WritesUpdates DEF TypeOK
<1>5. /\ loc' \in [Requests -> Locals]
      /\ \A q \in Requests \ {r} : loc'[q] = loc[q]
  BY ForgetType DEF TypeOK, ScoreAnswer
<1>6. /\ pc' \in [Requests -> Labels]
      /\ pc'[r] \in {"panic", "close", "groups", "commit"}
      /\ pc'[r] = "close" => loc' = loc /\ loc[r].read[GroupOf[t]] # None
      /\ \A q \in Requests \ {r} : pc'[q] = pc[q]
  BY DEF TypeOK, ScoreAnswer, AfterTryAnswer, Labels
<1>7. Coherent(r)'
  BY <1>4, <1>6 DEF TypeOK, ScoreAnswer, Coherent, Hints
<1> QED BY <1>4, <1>5, <1>6, <1>7, StepType DEF ScoreAnswer

LEMMA CloseGroupType ==
  ASSUME TypeOK, NEW r \in Requests, CloseGroup(r)
  PROVE  TypeOK'
<1> DEFINE g == GroupOf[input[r].task]
           row == [opening |-> loc[r].read[g].opening, closing |-> loc[r].now]
<1>1. g \in Groups /\ loc[r] \in Locals /\ loc[r].read[g] # None
  BY PlayModeAssumption DEF TypeOK, CloseGroup, Coherent
<1>2. row \in TeamInfoRow
  BY <1>1 DEF Locals, TeamInfoRead, TeamInfoRow
<1>3. UpsertTeamInfo(r, g, row)
  BY DEF CloseGroup
<1> HIDE DEF row, g
<1>4. /\ tx' \in [Requests -> Writes]
      /\ tx'[r].answer = tx[r].answer /\ tx'[r].rejected = tx[r].rejected
      /\ tx'[r].hint = tx[r].hint
      /\ \A q \in Requests \ {r} : tx'[q] = tx[q]
  BY <1>1, <1>2, <1>3, UpsertType
<1>5. /\ loc' \in [Requests -> Locals]
      /\ \A q \in Requests \ {r} : loc'[q] = loc[q]
  BY ForgetType DEF CloseGroup
<1>6. /\ pc' \in [Requests -> Labels] /\ pc'[r] \in {"groups", "commit"}
      /\ \A q \in Requests \ {r} : pc'[q] = pc[q]
  BY DEF TypeOK, CloseGroup, AfterTryAnswer, Labels
<1>7. Coherent(r)'
  BY <1>4, <1>6 DEF TypeOK, CloseGroup, Coherent, Hints
<1> QED BY <1>4, <1>5, <1>6, <1>7, StepType DEF CloseGroup

LEMMA CheckHintType ==
  ASSUME TypeOK, NEW r \in Requests, CheckHint(r)
  PROVE  TypeOK'
<1>1. /\ pc' \in [Requests -> Labels]
      /\ pc'[r] \in {"unsolved", "refused", "deadline"}
      /\ pc'[r] = "deadline" =>
           LET g == GroupOf[input[r].task]
           IN  loc' = loc /\ TimeLimit[g] # None /\ loc[r].read[g] # None
      /\ \A q \in Requests \ {r} : pc'[q] = pc[q]
  BY DEF TypeOK, CheckHint, GroupGuard, Expired, Labels
<1>2. /\ loc' \in [Requests -> Locals]
      /\ \A q \in Requests \ {r} : loc'[q] = loc[q]
  BY ForgetType DEF CheckHint, TypeOK
<1>3. Coherent(r)'
  BY <1>1 DEF TypeOK, CheckHint, Coherent, Hints
<1> QED BY <1>1, <1>2, <1>3, StepType DEF CheckHint, TypeOK

LEMMA StoreDeadlineType ==
  ASSUME TypeOK, NEW r \in Requests, StoreDeadline(r)
  PROVE  TypeOK'
<1> DEFINE g == GroupOf[input[r].task]
           opening == loc[r].read[g].opening
           row == [opening |-> opening, closing |-> opening + TimeLimit[g]]
<1>1. /\ g \in Groups /\ loc[r] \in Locals /\ loc[r].read[g] # None
      /\ TimeLimit[g] \in Nat
  BY PlayModeAssumption DEF TypeOK, StoreDeadline, Coherent
<1>2. row \in TeamInfoRow
  BY <1>1 DEF Locals, TeamInfoRead, TeamInfoRow
<1>3. UpsertTeamInfo(r, g, row)
  BY DEF StoreDeadline
<1> HIDE DEF row, g
<1>4. /\ tx' \in [Requests -> Writes]
      /\ tx'[r].answer = tx[r].answer /\ tx'[r].rejected = tx[r].rejected
      /\ tx'[r].hint = tx[r].hint
      /\ \A q \in Requests \ {r} : tx'[q] = tx[q]
  BY <1>1, <1>2, <1>3, UpsertType
<1>5. /\ loc' \in [Requests -> Locals]
      /\ \A q \in Requests \ {r} : loc'[q] = loc[q]
  BY ForgetType DEF StoreDeadline
<1>6. /\ pc' \in [Requests -> Labels] /\ pc'[r] = "refused"
      /\ \A q \in Requests \ {r} : pc'[q] = pc[q]
  BY DEF TypeOK, StoreDeadline, Labels
<1>7. Coherent(r)'
  BY <1>4, <1>6 DEF TypeOK, StoreDeadline, Coherent, Hints
<1> QED BY <1>4, <1>5, <1>6, <1>7, StepType DEF StoreDeadline

LEMMA CheckUnsolvedType ==
  ASSUME TypeOK, NEW r \in Requests, CheckUnsolved(r)
  PROVE  TypeOK'
<1>1. /\ pc' \in [Requests -> Labels] /\ pc'[r] \in {"refused", "take"}
      /\ pc'[r] = "take" => ~(NumHints[input[r].task] <= input[r].hint)
      /\ \A q \in Requests \ {r} : pc'[q] = pc[q]
  BY DEF TypeOK, CheckUnsolved, Labels
<1>2. NumHints[input[r].task] \in Nat /\ input[r].hint \in Int
  BY PlayModeAssumption DEF TypeOK, CheckUnsolved, Coherent
<1>3. Coherent(r)'
  BY <1>1, <1>2 DEF TypeOK, CheckUnsolved, Coherent, Hints
<1> QED BY <1>1, <1>3, StepType DEF CheckUnsolved, TypeOK

LEMMA TakeHintType ==
  ASSUME TypeOK, NEW r \in Requests, TakeHint(r)
  PROVE  TypeOK'
<1>1. /\ tx[r] \in Writes /\ input[r].hint \in Int
      /\ NumHints[input[r].task] \in Nat
      /\ input[r].hint < NumHints[input[r].task]
  BY PlayModeAssumption DEF TypeOK, TakeHint, Coherent
<1>2. /\ tx' \in [Requests -> Writes]
      /\ tx'[r].answer = tx[r].answer /\ tx'[r].rejected = tx[r].rejected
      /\ tx'[r].hint = input[r].hint
      /\ \A q \in Requests \ {r} : tx'[q] = tx[q]
  <2> DEFINE i == input[r].hint
  <2>1. tx' = [tx EXCEPT ![r].hint = i]
    BY DEF TakeHint
  <2>2. i \in Int \cup {None}
    BY <1>1
  <2> HIDE DEF i
  <2>3. /\ tx' \in [Requests -> Writes]
        /\ tx'[r].answer = tx[r].answer /\ tx'[r].rejected = tx[r].rejected
        /\ tx'[r].hint = i
        /\ \A q \in Requests \ {r} : tx'[q] = tx[q]
    <3> DEFINE v == [tx[r] EXCEPT !.hint = i]
    <3>1. /\ v \in Writes /\ v.answer = tx[r].answer
          /\ v.rejected = tx[r].rejected /\ v.hint = i
      BY <1>1, <2>2, WritesUpdates
    <3>2. tx' = [tx EXCEPT ![r] = v]
      BY <2>1
    <3> HIDE DEF v
    <3> QED BY <3>1, <3>2 DEF TypeOK
  <2> USE DEF i
  <2> QED BY <2>3
<1>3. /\ pc' \in [Requests -> Labels] /\ pc'[r] \in {"commit", "refused"}
      /\ pc'[r] = "commit" => ~(input[r].hint < 0)
      /\ \A q \in Requests \ {r} : pc'[q] = pc[q]
  BY DEF TypeOK, TakeHint, Labels
<1>4. pc'[r] = "commit" => input[r].hint \in Hints(input[r].task)
  BY <1>1, <1>3 DEF Hints
<1>5. Coherent(r)'
  BY <1>2, <1>3, <1>4 DEF TypeOK, TakeHint, Coherent, Hints
<1> QED BY <1>2, <1>3, <1>5, StepType DEF TakeHint, TypeOK

LEMMA ReadGroupsType ==
  ASSUME TypeOK, NEW r \in Requests, ReadGroups(r)
  PROVE  TypeOK'
<1> DEFINE read == IF Linear THEN TeamInfos(Visible(r), Groups) ELSE NoGroups
<1>1. read \in [Groups -> TeamInfoRead \cup {None}]
  <2>1. TeamInfos(Visible(r), Groups) \in [Groups -> TeamInfoRead \cup {None}]
    BY VisibleType, TeamInfosType
  <2> QED BY <2>1 DEF NoGroups
<1>2. loc[r] \in Locals
  BY DEF TypeOK
<1> HIDE DEF read
<1>3. [loc[r] EXCEPT !.read = read] \in Locals
  BY <1>1, <1>2, LocalsUpdates
<1>4. /\ loc' \in [Requests -> Locals]
      /\ \A q \in Requests \ {r} : loc'[q] = loc[q]
  BY <1>3 DEF TypeOK, ReadGroups, read
<1>5. /\ pc' \in [Requests -> Labels] /\ pc'[r] = "now"
      /\ \A q \in Requests \ {r} : pc'[q] = pc[q]
  BY DEF TypeOK, ReadGroups, Labels
<1>6. Coherent(r)'
  BY <1>5 DEF TypeOK, ReadGroups, Coherent, Hints
<1> QED BY <1>4, <1>5, <1>6, StepType DEF ReadGroups, TypeOK

LEMMA ReadClockType ==
  ASSUME TypeOK, NEW r \in Requests, ReadClock(r)
  PROVE  TypeOK'
<1>1. loc[r] \in Locals /\ clock \in Nat
  BY DEF TypeOK
<1> DEFINE l == [loc[r] EXCEPT !.now = clock, !.cursor = 1]
<1>2. l \in Locals /\ l.cursor = 1
  BY <1>1 DEF Locals
<1>3. loc' = [loc EXCEPT ![r] = l]
  BY DEF ReadClock, TypeOK
<1> HIDE DEF l
<1>4. /\ loc' \in [Requests -> Locals] /\ loc'[r] = l
      /\ \A q \in Requests \ {r} : loc'[q] = loc[q]
  BY <1>2, <1>3 DEF TypeOK
<1>5. /\ pc' \in [Requests -> Labels] /\ pc'[r] \in {"fill", "commit"}
      /\ pc'[r] = "fill" => NumGroups # 0
      /\ \A q \in Requests \ {r} : pc'[q] = pc[q]
  BY DEF TypeOK, ReadClock, Labels
<1>6. Coherent(r)'
  BY <1>2, <1>4, <1>5, PlayModeAssumption
     DEF TypeOK, ReadClock, Coherent, Hints, Groups
<1> QED BY <1>4, <1>5, <1>6, StepType DEF ReadClock, TypeOK

LEMMA FillGroupType ==
  ASSUME TypeOK, NEW r \in Requests, FillGroup(r)
  PROVE  TypeOK'
<1> DEFINE g == loc[r].cursor
           info == InfoAtCursor(r)
           deadline == info.opening + TimeLimit[g]
<1>1. g \in Groups /\ loc[r] \in Locals
  BY DEF TypeOK, FillGroup, Coherent
<1>2. loc[r].next \in Nat \cup {None} /\ loc[r].read[g] \in TeamInfoRead \cup {None}
  BY <1>1 DEF Locals
<1>3. info \in TeamInfoRead \cup {None}
  BY <1>2 DEF InfoAtCursor, TeamInfoRead
<1>4. Overdue(r) => info.opening \in Nat /\ deadline \in Nat
  BY <1>1, <1>3, PlayModeAssumption DEF Overdue, Expired, TeamInfoRead
<1>5. loc[r].next \in Nat \cup {None} /\ (Overdue(r) => deadline \in Nat \cup {None})
  BY <1>2, <1>4
\* the two ways the label and the locals change
<1>6. ASSUME NEW next \in Nat \cup {None},
             IF g = NumGroups THEN Goto(r, "commit") /\ Forget(r)
             ELSE /\ Goto(r, "fill")
                  /\ loc' = [loc EXCEPT ![r].cursor = g + 1, ![r].next = next]
      PROVE  /\ loc' \in [Requests -> Locals]
             /\ \A q \in Requests \ {r} : loc'[q] = loc[q]
             /\ pc' \in [Requests -> Labels] /\ pc'[r] \in {"commit", "fill"}
             /\ pc'[r] = "fill" => loc'[r].cursor \in Groups
             /\ \A q \in Requests \ {r} : pc'[q] = pc[q]
  <2>1. CASE g = NumGroups
    BY <1>6, <2>1, ForgetType DEF TypeOK, Labels
  <2>2. CASE g # NumGroups
    <3> DEFINE l == [loc[r] EXCEPT !.cursor = g + 1, !.next = next]
    <3>1. g + 1 \in Groups
      BY <1>1, <2>2, PlayModeAssumption DEF Groups
    <3>2. g + 1 \in Nat
      BY <3>1 DEF Groups
    <3>3. l \in Locals /\ l.cursor = g + 1
      <4> HIDE DEF g
      <4> QED BY <1>1, <1>6, <3>2 DEF Locals
    <3>4. loc' = [loc EXCEPT ![r] = l]
      BY <1>6, <2>2 DEF TypeOK
    <3> HIDE DEF l
    <3>5. loc' \in [Requests -> Locals] /\ loc'[r] = l
      BY <3>3, <3>4 DEF TypeOK
    <3>6. pc' \in [Requests -> Labels] /\ pc'[r] = "fill"
      BY <1>6, <2>2 DEF TypeOK, Labels
    <3> QED BY <1>6, <2>2, <3>1, <3>3, <3>4, <3>5, <3>6 DEF TypeOK
  <2> QED BY <2>1, <2>2
<1>7. ASSUME Goto(r, "commit") \/ Goto(r, "panic"), Forget(r)
      PROVE  /\ loc' \in [Requests -> Locals]
             /\ \A q \in Requests \ {r} : loc'[q] = loc[q]
             /\ pc' \in [Requests -> Labels] /\ pc'[r] \in {"commit", "panic"}
             /\ \A q \in Requests \ {r} : pc'[q] = pc[q]
  BY <1>7, ForgetType DEF TypeOK, Labels
<1>8. /\ loc' \in [Requests -> Locals]
      /\ \A q \in Requests \ {r} : loc'[q] = loc[q]
      /\ pc' \in [Requests -> Labels] /\ pc'[r] \in {"commit", "fill", "panic"}
      /\ pc'[r] = "fill" => loc'[r].cursor \in Groups
      /\ \A q \in Requests \ {r} : pc'[q] = pc[q]
  BY <1>5, <1>6, <1>7 DEF FillGroup
<1>9. /\ tx' \in [Requests -> Writes]
      /\ tx'[r].answer = tx[r].answer /\ tx'[r].rejected = tx[r].rejected
      /\ tx'[r].hint = tx[r].hint
      /\ \A q \in Requests \ {r} : tx'[q] = tx[q]
  <2> DEFINE row == [opening |-> info.opening, closing |-> deadline]
  <2>1. CASE UNCHANGED tx
    BY <2>1 DEF TypeOK
  <2>2. CASE Overdue(r) /\ UpsertTeamInfo(r, g, row)
    <3>1. row \in TeamInfoRow
      BY <1>4, <2>2 DEF TeamInfoRow
    <3> HIDE DEF row, g
    <3> QED BY <1>1, <2>2, <3>1, UpsertType
  <2> QED BY <2>1, <2>2 DEF FillGroup
<1>10. Coherent(r)'
  BY <1>8, <1>9 DEF TypeOK, FillGroup, Coherent, Hints
<1> QED BY <1>8, <1>9, <1>10, StepType DEF FillGroup

(* A request that ends leaves its label, input, locals and writes as they  *)
(* were before it began.                                                   *)
LEMMA EndType ==
  ASSUME TypeOK, NEW r \in Requests, End(r)
  PROVE  /\ pc' \in [Requests -> Labels] /\ input' \in [Requests -> Inputs]
         /\ loc' \in [Requests -> Locals] /\ tx' \in [Requests -> Writes]
         /\ \A q \in Requests : Coherent(q)'
<1>1. /\ pc' \in [Requests -> Labels] /\ input' \in [Requests -> Inputs]
      /\ loc' \in [Requests -> Locals] /\ tx' \in [Requests -> Writes]
  BY NoneTypes DEF TypeOK, End, Labels
<1>2. ASSUME NEW q \in Requests, q # r PROVE Coherent(q)'
  BY <1>2, CoherentFrame DEF TypeOK, End
<1>3. Coherent(r)'
  <2>1. /\ pc'[r] = "idle" /\ input'[r] = NoInput /\ loc'[r] = NoLocals
        /\ tx'[r] = NoWrites
    BY DEF TypeOK, End
  <2> QED BY <2>1, PlayModeAssumption DEF Coherent, NoInput, NoWrites
<1> QED BY <1>1, <1>2, <1>3

LEMMA CommitType ==
  ASSUME TypeOK, NEW r \in Requests, Commit(r)
  PROVE  TypeOK'
<1> DEFINE t == input[r].task
           w == tx[r]
<1>1. w \in Writes /\ t \in Tasks \cup {None}
  BY DEF TypeOK, Inputs
<1>2. teamInfo' \in [Groups -> TeamInfoRow \cup {None}]
  BY VisibleType DEF Commit
<1>3. answers' \in [Tasks -> Seq(AnswerRow)]
  <2>1. CASE w.answer = None
    BY <2>1 DEF TypeOK, Commit
  <2>2. CASE w.answer # None
    <3>1. w.answer \in AnswerRow /\ t \in Tasks
      BY <1>1, <2>2 DEF TypeOK, Coherent, Writes
    <3>2. Append(answers[t], w.answer) \in Seq(AnswerRow)
      BY <3>1 DEF TypeOK
    <3>3. answers' = [answers EXCEPT ![t] = Append(answers[t], w.answer)]
      BY <2>2, <3>1 DEF TypeOK, Commit, StoreAnswer
    <3> HIDE DEF t, w
    <3> QED BY <3>1, <3>2, <3>3 DEF TypeOK
  <2> QED BY <2>1, <2>2
<1>4. rejected' \subseteq Tasks
  BY <1>1 DEF TypeOK, Commit, Coherent
<1>5. hintTakes' \in [Tasks -> SUBSET Nat] /\ \A u \in Tasks : hintTakes'[u] \subseteq Hints(u)
  <2>1. CASE w.hint = None
    BY <2>1 DEF TypeOK, Commit
  <2>2. CASE w.hint # None
    <3>1. t \in Tasks /\ w.hint \in Hints(t)
      BY <1>1, <2>2 DEF TypeOK, Commit, Coherent
    <3>2. hintTakes' = [hintTakes EXCEPT ![t] = hintTakes[t] \cup {w.hint}]
      BY <2>2, <3>1 DEF TypeOK, Commit
    <3>3. w.hint \in Nat
      BY <3>1, PlayModeAssumption DEF Hints
    <3> HIDE DEF t, w
    <3> QED BY <3>1, <3>2, <3>3 DEF TypeOK
  <2> QED BY <2>1, <2>2
<1>6. shown' \subseteq Groups
  BY DEF TypeOK, Commit, AnsweredGroups
<1>7. End(r)
  BY DEF Commit
<1> QED
  BY <1>2, <1>3, <1>4, <1>5, <1>6, <1>7, EndType DEF TypeOK, Commit, Hints

LEMMA RollbackType ==
  ASSUME TypeOK, NEW r \in Requests, Rollback(r)
  PROVE  TypeOK'
BY EndType DEF TypeOK, Rollback, Hints

LEMMA AbortType ==
  ASSUME TypeOK, NEW r \in Requests, Abort(r)
  PROVE  TypeOK'
<1>1. /\ pc' \in [Requests -> Labels] /\ loc' \in [Requests -> Locals]
      /\ tx' \in [Requests -> Writes]
      /\ \A q \in Requests \ {r} :
           pc'[q] = pc[q] /\ loc'[q] = loc[q] /\ tx'[q] = tx[q]
      /\ pc'[r] = "failed" /\ tx'[r] = NoWrites
  BY NoneTypes DEF TypeOK, Abort, Labels
<1>2. Coherent(r)'
  BY <1>1 DEF TypeOK, Abort, Coherent, NoWrites
<1> QED BY <1>1, <1>2, StepType DEF Abort

LEMMA FrameType ==
  ASSUME TypeOK, finished' \in BOOLEAN, clock' \in Nat,
         UNCHANGED <<teamInfo, answers, rejected, hintTakes, shown, pc, input,
                     loc, tx>>
  PROVE  TypeOK'
<1>1. ASSUME NEW q \in Requests PROVE Coherent(q)'
  BY CoherentFrame DEF TypeOK
<1> QED BY <1>1 DEF TypeOK, Hints

LEMMA StatementType ==
  ASSUME TypeOK, NEW r \in Requests, Statement(r)
  PROVE  TypeOK'
BY ReadAcceptedType, ReadGroupType, CheckAnswerType, ScoreAnswerType,
   CloseGroupType, CheckHintType, StoreDeadlineType, CheckUnsolvedType, TakeHintType,
   ReadGroupsType, ReadClockType, FillGroupType, CommitType, RollbackType
   DEF Statement, ReturnError

LEMMA NextType == TypeOK /\ [Next]_vars => TypeOK'
<1> SUFFICES ASSUME TypeOK, [Next]_vars PROVE TypeOK'
  OBVIOUS
<1>1. ASSUME NEW r \in Requests,
             HandleGet(r) \/ HandleTakeHint(r) \/ HandleTryAnswer(r)
      PROVE  TypeOK'
  BY <1>1, HandlersType
<1>2. ASSUME NEW r \in Requests, Statement(r) PROVE TypeOK'
  BY <1>2, StatementType
<1>3. ASSUME NEW r \in Requests, Fail(r) \/ FailUpsert(r) \/ DeadlockVictim(r)
      PROVE  TypeOK'
  BY <1>3, RollbackType, AbortType DEF Fail, FailUpsert, DeadlockVictim
<1>4. CASE FinishQuest
  BY <1>4, FrameType DEF FinishQuest, TypeOK
<1>5. CASE Tick
  BY <1>5, FrameType DEF Tick, TypeOK
<1>6. CASE UNCHANGED vars
  BY <1>6, FrameType DEF vars, TypeOK
<1> QED
  BY <1>1, <1>2, <1>3, <1>4, <1>5, <1>6 DEF Next

(* Whatever the quest, the tables hold rows of their types, and a request  *)
(* that is being handled has the input, locals and writes its place in the *)
(* handler calls for.                                                      *)
THEOREM TypeCorrect == Spec => []TypeOK
<1>1. Init => TypeOK
  BY InitType
<1>2. TypeOK /\ [Next]_vars => TypeOK'
  BY NextType
<1> QED BY <1>1, <1>2, PTL DEF Spec

-----------------------------------------------------------------------------
(* The safety properties of PlayMode that hold under every interleaving,   *)
(* for every quest, every number of requests and every bound of the clock. *)

(* What a step of one request leaves of the others, and what the common    *)
(* tables keep: rows of team info, accepted rows and taken hints.          *)
RequestStep(r) ==
  \/ HandleGet(r) \/ HandleTakeHint(r) \/ HandleTryAnswer(r)
  \/ Statement(r) \/ Fail(r) \/ FailUpsert(r) \/ DeadlockVictim(r)

Untouched(r) ==
  /\ pc'[r] = pc[r] /\ input'[r] = input[r]
  /\ loc'[r] = loc[r] /\ tx'[r] = tx[r]

TablesKeep ==
  /\ \A g \in Groups : teamInfo[g] # None => teamInfo'[g] # None
  /\ \A t \in Tasks : hintTakes[t] \subseteq hintTakes'[t]
  /\ \A t \in Tasks : \A i \in DOMAIN answers[t] :
       i \in DOMAIN answers'[t] /\ answers'[t][i] = answers[t][i]
  /\ clock <= clock'

USE DEF Goto, Unstored

(* The requests an action of r is not about.                               *)
LEMMA UpsertOthers ==
  ASSUME TypeOK, NEW r \in Requests, NEW g, NEW row, UpsertTeamInfo(r, g, row)
  PROVE  \A q \in Requests \ {r} : tx'[q] = tx[q]
BY DEF TypeOK, UpsertTeamInfo

LEMMA OthersUntouched ==
  ASSUME TypeOK, NEW r \in Requests, RequestStep(r), NEW q \in Requests, q # r
  PROVE  Untouched(q)
<1>1. CASE HandleGet(r) \/ HandleTakeHint(r) \/ HandleTryAnswer(r)
  BY <1>1 DEF TypeOK, HandleGet, HandleTakeHint, HandleTryAnswer, Begin, Untouched
<1>2. CASE End(r)
  BY <1>2 DEF TypeOK, End, Untouched
<1>3. CASE ReadAccepted(r) \/ ReadGroup(r) \/ CheckAnswer(r) \/ ScoreAnswer(r)
  BY <1>3 DEF TypeOK, ReadAccepted, ReadGroup, CheckAnswer, ScoreAnswer,
              Forget, Untouched
<1>4. CASE CheckHint(r) \/ CheckUnsolved(r) \/ TakeHint(r) \/ ReadGroups(r)
           \/ ReadClock(r)
  BY <1>4 DEF TypeOK, CheckHint, CheckUnsolved, TakeHint, ReadGroups,
              ReadClock, Forget, Untouched
<1>5. CASE CloseGroup(r) \/ StoreDeadline(r)
  BY <1>5, UpsertOthers DEF TypeOK, CloseGroup, StoreDeadline, Forget, Untouched
<1>6. CASE FillGroup(r)
  BY <1>6, UpsertOthers DEF TypeOK, FillGroup, Forget, Untouched
<1>7. CASE Abort(r)
  BY <1>7 DEF TypeOK, Abort, Untouched
<1> QED
  BY <1>1, <1>2, <1>3, <1>4, <1>5, <1>6, <1>7
     DEF RequestStep, Statement, Commit, ReturnError, Fail, FailUpsert,
         DeadlockVictim, Rollback

LEMMA NextCases ==
  ASSUME [Next]_vars
  PROVE  \/ \E r \in Requests : RequestStep(r)
         \/ /\ UNCHANGED <<teamInfo, answers, hintTakes, pc, input, loc, tx>>
            /\ clock' = clock \/ clock' = clock + 1
BY DEF Next, RequestStep, FinishQuest, Tick, vars

LEMMA CommitKeeps ==
  ASSUME TypeOK, NEW r \in Requests, Commit(r)
  PROVE  TablesKeep
<1> DEFINE t == input[r].task
           w == tx[r]
<1>1. ASSUME NEW g \in Groups, teamInfo[g] # None PROVE teamInfo'[g] # None
  BY <1>1 DEF Commit, Visible
<1>2. ASSUME NEW u \in Tasks PROVE hintTakes[u] \subseteq hintTakes'[u]
  <2>1. CASE w.hint = None
    BY <2>1 DEF Commit
  <2>2. CASE w.hint # None
    <3>1. hintTakes' = [hintTakes EXCEPT ![t] = hintTakes[t] \cup {w.hint}]
      BY <2>2 DEF TypeOK, Commit, Coherent
    <3> HIDE DEF t, w
    <3> QED BY <3>1 DEF TypeOK
  <2> QED BY <2>1, <2>2
<1>3. ASSUME NEW u \in Tasks, NEW i \in DOMAIN answers[u]
      PROVE  i \in DOMAIN answers'[u] /\ answers'[u][i] = answers[u][i]
  <2>1. CASE w.answer = None
    BY <2>1 DEF Commit
  <2>2. CASE w.answer # None
    <3>1. w.answer \in AnswerRow
      BY <2>2 DEF TypeOK, Writes
    <3>2. answers' = [answers EXCEPT ![t] = Append(answers[t], w.answer)]
      BY <2>2 DEF TypeOK, Commit, StoreAnswer
    <3>3. answers[u] \in Seq(AnswerRow)
      BY DEF TypeOK
    <3> HIDE DEF t, w
    <3>4. CASE u = t
      <4>1. answers'[u] = Append(answers[u], w.answer)
        BY <3>2, <3>4 DEF TypeOK
      <4> QED BY <1>3, <3>1, <3>3, <4>1
    <3>5. CASE u # t
      BY <1>3, <3>2, <3>5 DEF TypeOK
    <3> QED BY <3>4, <3>5
  <2> QED BY <2>1, <2>2
<1>4. clock <= clock'
  BY DEF TypeOK, Commit
<1> QED BY <1>1, <1>2, <1>3, <1>4 DEF TablesKeep

LEMMA OnlyCommitWrites ==
  ASSUME NEW r \in Requests, RequestStep(r), ~Commit(r)
  PROVE  UNCHANGED <<teamInfo, answers, hintTakes, clock>>
BY DEF RequestStep, HandleGet, HandleTakeHint, HandleTryAnswer, Begin,
   Statement, ReadAccepted, ReadGroup, CheckAnswer, ScoreAnswer, CloseGroup,
   CheckHint, StoreDeadline, CheckUnsolved, TakeHint, ReadGroups, ReadClock,
   FillGroup, ReturnError, Fail, FailUpsert, DeadlockVictim, Abort, Rollback

LEMMA TablesKept ==
  ASSUME TypeOK, [Next]_vars
  PROVE  TablesKeep
<1>1. CASE /\ UNCHANGED <<teamInfo, answers, hintTakes>>
           /\ clock' = clock \/ clock' = clock + 1
  BY <1>1 DEF TypeOK, TablesKeep
<1>2. ASSUME NEW r \in Requests, Commit(r) PROVE TablesKeep
  BY <1>2, CommitKeeps
<1>3. ASSUME NEW r \in Requests, RequestStep(r), ~Commit(r) PROVE TablesKeep
  BY <1>3, OnlyCommitWrites DEF TypeOK, TablesKeep
<1> QED BY <1>1, <1>2, <1>3, NextCases

-----------------------------------------------------------------------------
(* What an action of r does to the locals and writes of r.                 *)
LEMMA LocalsFields ==
  ASSUME NEW l \in Locals
  PROVE  /\ \A x : LET v == [l EXCEPT !.seen = x]
                  IN  v.seen = x /\ v.read = l.read /\ v.now = l.now
                      /\ v.next = l.next /\ v.cursor = l.cursor
         /\ \A x : LET v == [l EXCEPT !.known = x]
                  IN  v.seen = l.seen /\ v.read = l.read /\ v.now = l.now
                      /\ v.next = l.next /\ v.cursor = l.cursor
         /\ \A x : LET v == [l EXCEPT !.read = x]
                  IN  v.seen = l.seen /\ v.read = x /\ v.now = l.now
                      /\ v.next = l.next /\ v.cursor = l.cursor
         /\ \A x : LET v == [l EXCEPT !.now = x]
                  IN  v.seen = l.seen /\ v.read = l.read /\ v.now = x
                      /\ v.next = l.next /\ v.cursor = l.cursor
         /\ \A x, y : LET v == [l EXCEPT !.now = x, !.cursor = y]
                     IN  v.seen = l.seen /\ v.read = l.read /\ v.now = x
                         /\ v.next = l.next /\ v.cursor = y
         /\ \A x, y : LET v == [l EXCEPT !.cursor = x, !.next = y]
                     IN  v.seen = l.seen /\ v.read = l.read /\ v.now = l.now
                         /\ v.next = y /\ v.cursor = x
BY DEF Locals

LEMMA ForgetFields ==
  ASSUME TypeOK, NEW r \in Requests, Forget(r)
  PROVE  /\ loc'[r].seen = loc[r].seen /\ loc'[r].read = NoGroups
         /\ loc'[r].now = 0 /\ loc'[r].next = None
         /\ loc'[r].cursor = loc[r].cursor
BY ForgetType DEF Keep, NoLocals

LEMMA ReadAcceptedFields ==
  ASSUME TypeOK, NEW r \in Requests, ReadAccepted(r)
  PROVE  /\ loc'[r].seen = loc[r].seen /\ loc'[r].read = loc[r].read
         /\ loc'[r].now = loc[r].now /\ loc'[r].next = loc[r].next
<1>1. loc[r] \in Locals
  BY DEF TypeOK
<1> DEFINE l == [loc[r] EXCEPT !.known = AcceptedTasks]
<1>2. loc'[r] = loc[r] \/ loc'[r] = l
  BY DEF TypeOK, ReadAccepted
<1>3. /\ l.seen = loc[r].seen /\ l.read = loc[r].read
      /\ l.now = loc[r].now /\ l.next = loc[r].next
  BY <1>1, LocalsFields
<1> HIDE DEF l
<1> QED BY <1>2, <1>3

LEMMA ReadGroupFields ==
  ASSUME TypeOK, NEW r \in Requests, ReadGroup(r)
  PROVE  /\ loc'[r].seen = loc[r].seen
         /\ loc'[r].read = TeamInfos(Visible(r), {GroupOf[input[r].task]})
         /\ loc'[r].now = loc[r].now /\ loc'[r].next = loc[r].next
<1> DEFINE read == TeamInfos(Visible(r), {GroupOf[input[r].task]})
<1>1. loc[r] \in Locals
  BY DEF TypeOK
<1>2. loc'[r] = [loc[r] EXCEPT !.read = read]
  BY DEF TypeOK, ReadGroup
<1> HIDE DEF read
<1>3. /\ loc'[r].seen = loc[r].seen /\ loc'[r].read = read
      /\ loc'[r].now = loc[r].now /\ loc'[r].next = loc[r].next
  BY <1>1, <1>2, LocalsFields
<1> QED BY <1>3 DEF read

LEMMA ReadGroupsFields ==
  ASSUME TypeOK, NEW r \in Requests, ReadGroups(r)
  PROVE  /\ loc'[r].seen = loc[r].seen
         /\ loc'[r].read =
              IF Linear THEN TeamInfos(Visible(r), Groups) ELSE NoGroups
         /\ loc'[r].now = loc[r].now /\ loc'[r].next = loc[r].next
<1> DEFINE read == IF Linear THEN TeamInfos(Visible(r), Groups) ELSE NoGroups
<1>1. loc[r] \in Locals
  BY DEF TypeOK
<1>2. loc'[r] = [loc[r] EXCEPT !.read = read]
  BY DEF TypeOK, ReadGroups
<1> HIDE DEF read
<1>3. /\ loc'[r].seen = loc[r].seen /\ loc'[r].read = read
      /\ loc'[r].now = loc[r].now /\ loc'[r].next = loc[r].next
  BY <1>1, <1>2, LocalsFields
<1> QED BY <1>3 DEF read

LEMMA ReadClockFields ==
  ASSUME TypeOK, NEW r \in Requests, ReadClock(r)
  PROVE  /\ loc'[r].seen = loc[r].seen /\ loc'[r].read = loc[r].read
         /\ loc'[r].now = clock /\ loc'[r].next = loc[r].next
<1>1. loc[r] \in Locals
  BY DEF TypeOK
<1>2. loc'[r] = [loc[r] EXCEPT !.now = clock, !.cursor = 1]
  BY DEF TypeOK, ReadClock
<1> QED BY <1>1, <1>2, LocalsFields

(* What GroupGuard finds of the group of r's task.                         *)
PastDeadline(r) ==
  LET g == GroupOf[input[r].task]
  IN  /\ loc[r].read[g] # None /\ loc[r].read[g].closing = None
      /\ Expired(g, loc[r].read[g], clock)
StillOpen(r) ==
  LET g == GroupOf[input[r].task]
  IN  /\ loc[r].read[g] # None /\ loc[r].read[g].closing = None
      /\ ~Expired(g, loc[r].read[g], clock)

(* CheckAnswer refuses, stores a rejected answer, or goes on to the score. *)
LEMMA CheckAnswerFields ==
  ASSUME TypeOK, NEW r \in Requests, CheckAnswer(r)
  PROVE  /\ loc'[r].seen = loc[r].seen
         /\ tx'[r].answer = tx[r].answer /\ tx'[r].hint = tx[r].hint
         /\ tx'[r].info = tx[r].info
         /\ \/ pc'[r] = "refused" /\ loc'[r] = loc[r]
            \/ /\ pc'[r] = "deadline" /\ loc'[r] = loc[r] /\ Linear
               /\ GroupOf[input[r].task] \notin Sticky /\ PastDeadline(r)
            \/ pc'[r] \in {"groups", "commit"} /\ Forget(r)
            \/ /\ pc'[r] = "score"
               /\ loc'[r].read = loc[r].read /\ loc'[r].now = clock
               /\ loc'[r].next = loc[r].next
               /\ Linear /\ GroupOf[input[r].task] \notin Sticky => StillOpen(r)
<1> DEFINE t == input[r].task
           g == GroupOf[t]
           guard == IF Linear /\ g \notin Sticky
                    THEN GroupGuard(g, loc[r].read[g], clock) ELSE "open"
<1>1. loc[r] \in Locals /\ tx[r] \in Writes /\ r \in DOMAIN pc
  BY DEF TypeOK
<1>2. guard # "open" =>
        \/ guard = "refused"
        \/ guard = "deadline" /\ Linear /\ g \notin Sticky /\ PastDeadline(r)
  BY DEF GroupGuard, PastDeadline
<1>3. guard = "open" /\ Linear /\ g \notin Sticky => StillOpen(r)
  BY DEF GroupGuard, StillOpen
<1> HIDE DEF guard
<1>4. CASE guard # "open" /\ Goto(r, guard) /\ UNCHANGED <<loc, tx>>
  BY <1>1, <1>2, <1>4
<1>5. CASE /\ tx' = [tx EXCEPT ![r].rejected = TRUE]
           /\ Goto(r, AfterTryAnswer) /\ Forget(r)
  <2>1. tx'[r] = [tx[r] EXCEPT !.rejected = TRUE]
    BY <1>5 DEF TypeOK
  <2>2. /\ tx'[r].answer = tx[r].answer /\ tx'[r].hint = tx[r].hint
        /\ tx'[r].info = tx[r].info
    BY <1>1, <2>1, WritesUpdates
  <2>3. pc'[r] \in {"groups", "commit"}
    BY <1>1, <1>5 DEF AfterTryAnswer
  <2> QED BY <1>5, <2>2, <2>3, ForgetFields
<1>6. CASE /\ guard = "open"
           /\ loc' = [loc EXCEPT ![r].now = clock]
           /\ Goto(r, "score") /\ UNCHANGED tx
  <2>1. loc'[r] = [loc[r] EXCEPT !.now = clock]
    BY <1>6 DEF TypeOK
  <2>2. /\ loc'[r].seen = loc[r].seen /\ loc'[r].read = loc[r].read
        /\ loc'[r].now = clock /\ loc'[r].next = loc[r].next
    BY <1>1, <2>1, LocalsFields
  <2> QED BY <1>1, <1>3, <1>6, <2>2
<1> QED BY <1>4, <1>5, <1>6 DEF CheckAnswer, guard

(* ScoreAnswer charges the hints that are committed at that moment.        *)
LEMMA ScoreAnswerFields ==
  ASSUME TypeOK, NEW r \in Requests, ScoreAnswer(r)
  PROVE  /\ loc'[r].seen = loc[r].seen
         /\ tx'[r].answer =
              [score |-> Reward[input[r].task]
                           - Charge(input[r].task, hintTakes[input[r].task]),
               charged |-> hintTakes[input[r].task]]
         /\ tx'[r].hint = tx[r].hint /\ tx'[r].info = tx[r].info
         /\ \/ pc'[r] \in {"close", "panic"} /\ loc'[r] = loc[r]
            \/ pc'[r] \in {"groups", "commit"} /\ Forget(r)
<1> DEFINE t == input[r].task
           row == [score |-> Reward[t] - Charge(t, GetHintTakes(t)),
                   charged |-> GetHintTakes(t)]
<1>1. /\ tx[r] \in Writes /\ r \in DOMAIN pc /\ t \in Tasks
      /\ hintTakes[t] \in SUBSET Nat /\ hintTakes[t] \in SUBSET Hints(t)
  BY DEF TypeOK, ScoreAnswer, Coherent
<1>2. row \in AnswerRow
  <2>1. Charge(t, hintTakes[t]) \in Int /\ Reward[t] \in Int
    BY <1>1, PlayModeAssumption
  <2> QED BY <1>1, <2>1 DEF AnswerRow, GetHintTakes
<1>3. tx'[r] = [tx[r] EXCEPT !.answer = row]
  BY DEF TypeOK, ScoreAnswer
<1>4. row = [score |-> Reward[t] - Charge(t, hintTakes[t]), charged |-> hintTakes[t]]
  BY DEF GetHintTakes
<1> HIDE DEF row
<1>5. /\ tx'[r].answer = row /\ tx'[r].hint = tx[r].hint
      /\ tx'[r].info = tx[r].info
  BY <1>1, <1>2, <1>3, WritesUpdates
<1>6. \/ pc'[r] \in {"close", "panic"} /\ UNCHANGED loc
      \/ pc'[r] \in {"groups", "commit"} /\ Forget(r)
  BY <1>1 DEF ScoreAnswer, AfterTryAnswer
<1> QED BY <1>4, <1>5, <1>6, ForgetFields

LEMMA CheckHintFields ==
  ASSUME TypeOK, NEW r \in Requests, CheckHint(r)
  PROVE  /\ loc'[r].seen = loc[r].seen /\ tx' = tx
         /\ \/ /\ pc'[r] \in {"refused", "unsolved"} /\ Forget(r)
               /\ pc'[r] = "unsolved" /\ Linear => StillOpen(r)
            \/ /\ pc'[r] = "deadline" /\ loc' = loc
               /\ Linear /\ PastDeadline(r)
<1>1. r \in DOMAIN pc
  BY DEF TypeOK
<1>2. \/ /\ pc'[r] \in {"refused", "unsolved"} /\ Forget(r)
         /\ pc'[r] = "unsolved" /\ Linear => StillOpen(r)
      \/ pc'[r] = "deadline" /\ loc' = loc /\ Linear /\ PastDeadline(r)
  BY <1>1 DEF CheckHint, GroupGuard, PastDeadline, StillOpen
<1>3. Forget(r) => loc'[r].seen = loc[r].seen
  BY ForgetFields
<1> HIDE DEF Goto
<1> QED BY <1>2, <1>3 DEF CheckHint

LEMMA TakeHintFields ==
  ASSUME TypeOK, NEW r \in Requests, TakeHint(r)
  PROVE  /\ loc'[r] = loc[r] /\ pc'[r] \in {"commit", "refused"}
         /\ tx'[r].answer = tx[r].answer /\ tx'[r].info = tx[r].info
<1>1. /\ tx[r] \in Writes /\ input[r].hint \in Int
      /\ NumHints[input[r].task] \in Nat
      /\ input[r].hint < NumHints[input[r].task]
  BY PlayModeAssumption DEF TypeOK, TakeHint, Coherent
<1> DEFINE i == input[r].hint
           v == [tx[r] EXCEPT !.hint = i]
<1>2. tx'[r] = v /\ loc' = loc /\ pc'[r] \in {"commit", "refused"}
  BY DEF TypeOK, TakeHint
<1>3. i \in Int \cup {None}
  BY <1>1
<1> HIDE DEF i
<1>4. v.answer = tx[r].answer /\ v.info = tx[r].info
  BY <1>1, <1>3, WritesUpdates
<1> HIDE DEF v
<1> QED BY <1>2, <1>4

LEMMA CloseGroupFields ==
  ASSUME TypeOK, NEW r \in Requests, CloseGroup(r)
  PROVE  LET g == GroupOf[input[r].task]
             row == [opening |-> loc[r].read[g].opening, closing |-> loc[r].now]
         IN  /\ g \in Groups /\ row \in TeamInfoRow /\ loc[r].read[g] # None
             /\ tx'[r].answer = tx[r].answer /\ tx'[r].hint = tx[r].hint
             /\ tx'[r].info = [tx[r].info EXCEPT ![g] = row]
             /\ pc'[r] \in {"groups", "commit"} /\ Forget(r)
<1> DEFINE g == GroupOf[input[r].task]
           row == [opening |-> loc[r].read[g].opening, closing |-> loc[r].now]
<1>1. g \in Groups /\ loc[r] \in Locals /\ loc[r].read[g] # None
  BY PlayModeAssumption DEF TypeOK, CloseGroup, Coherent
<1>2. row \in TeamInfoRow
  BY <1>1 DEF Locals, TeamInfoRead, TeamInfoRow
<1>3. UpsertTeamInfo(r, g, row)
  BY DEF CloseGroup
<1>4. pc'[r] \in {"groups", "commit"} /\ Forget(r)
  BY DEF TypeOK, CloseGroup, AfterTryAnswer
<1> HIDE DEF row, g
<1>5. /\ tx'[r].answer = tx[r].answer /\ tx'[r].hint = tx[r].hint
      /\ tx'[r].info = [tx[r].info EXCEPT ![g] = row]
  BY <1>1, <1>2, <1>3, UpsertType
<1> USE DEF row, g
<1> QED BY <1>1, <1>2, <1>4, <1>5

LEMMA StoreDeadlineFields ==
  ASSUME TypeOK, NEW r \in Requests, StoreDeadline(r)
  PROVE  LET g == GroupOf[input[r].task]
             opening == loc[r].read[g].opening
             row == [opening |-> opening, closing |-> opening + TimeLimit[g]]
         IN  /\ g \in Groups /\ row \in TeamInfoRow /\ loc[r].read[g] # None
             /\ tx'[r].answer = tx[r].answer /\ tx'[r].hint = tx[r].hint
             /\ tx'[r].info = [tx[r].info EXCEPT ![g] = row]
             /\ pc'[r] = "refused" /\ Forget(r)
<1> DEFINE g == GroupOf[input[r].task]
           opening == loc[r].read[g].opening
           row == [opening |-> opening, closing |-> opening + TimeLimit[g]]
<1>1. g \in Groups /\ loc[r] \in Locals /\ loc[r].read[g] # None
      /\ TimeLimit[g] \in Nat
  BY PlayModeAssumption DEF TypeOK, StoreDeadline, Coherent
<1>2. row \in TeamInfoRow
  BY <1>1 DEF Locals, TeamInfoRead, TeamInfoRow
<1>3. UpsertTeamInfo(r, g, row)
  BY DEF StoreDeadline
<1>4. pc'[r] = "refused" /\ Forget(r)
  BY DEF TypeOK, StoreDeadline
<1> HIDE DEF row, g
<1>5. /\ tx'[r].answer = tx[r].answer /\ tx'[r].hint = tx[r].hint
      /\ tx'[r].info = [tx[r].info EXCEPT ![g] = row]
  BY <1>1, <1>2, <1>3, UpsertType
<1> USE DEF row, g
<1> QED BY <1>1, <1>2, <1>4, <1>5

(* FillGroup at the cursor g: the group is closed at its deadline or the   *)
(* writes are as they were; then the loop goes on or ends.                 *)
LEMMA FillGroupFields ==
  ASSUME TypeOK, NEW r \in Requests, FillGroup(r)
  PROVE  LET g == loc[r].cursor
             info == InfoAtCursor(r)
             deadline == info.opening + TimeLimit[g]
             row == [opening |-> info.opening, closing |-> deadline]
         IN  /\ g \in Groups
             /\ loc'[r].seen = loc[r].seen
             /\ tx'[r].answer = tx[r].answer /\ tx'[r].hint = tx[r].hint
             /\ \/ tx'[r].info = tx[r].info
                \/ /\ Overdue(r) /\ row \in TeamInfoRow
                   /\ tx'[r].info = [tx[r].info EXCEPT ![g] = row]
             /\ \/ pc'[r] \in {"commit", "panic"} /\ Forget(r)
                \/ /\ pc'[r] = "fill"
                   /\ loc'[r].read = loc[r].read /\ loc'[r].now = loc[r].now
                   /\ \/ loc'[r].next = loc[r].next
                      \/ Overdue(r) /\ loc'[r].next = deadline
<1> DEFINE g == loc[r].cursor
           info == InfoAtCursor(r)
           deadline == info.opening + TimeLimit[g]
           row == [opening |-> info.opening, closing |-> deadline]
<1>1. /\ g \in Groups /\ loc[r] \in Locals /\ r \in DOMAIN pc
      /\ r \in DOMAIN loc
  BY DEF TypeOK, FillGroup, Coherent
<1>2. Overdue(r) => row \in TeamInfoRow
  <2>1. loc[r].next \in Nat \cup {None} /\ loc[r].read[g] \in TeamInfoRead \cup {None}
    BY <1>1 DEF Locals
  <2>2. info \in TeamInfoRead \cup {None}
    BY <2>1 DEF InfoAtCursor, TeamInfoRead
  <2> QED BY <1>1, <2>2, PlayModeAssumption
          DEF Overdue, Expired, TeamInfoRead, TeamInfoRow
<1>3. ASSUME NEW next,
             IF g = NumGroups THEN Goto(r, "commit") /\ Forget(r)
             ELSE /\ Goto(r, "fill")
                  /\ loc' = [loc EXCEPT ![r].cursor = g + 1, ![r].next = next]
      PROVE  \/ pc'[r] = "commit" /\ Forget(r)
             \/ /\ pc'[r] = "fill" /\ loc'[r].seen = loc[r].seen
                /\ loc'[r].read = loc[r].read /\ loc'[r].now = loc[r].now
                /\ loc'[r].next = next
  <2>1. CASE g = NumGroups
    BY <1>1, <1>3, <2>1
  <2>2. CASE g # NumGroups
    <3> DEFINE k == g + 1
               l == [loc[r] EXCEPT !.cursor = k, !.next = next]
    <3>1. loc'[r] = l /\ pc'[r] = "fill"
      BY <1>1, <1>3, <2>2
    <3> HIDE DEF k
    <3>2. /\ l.seen = loc[r].seen /\ l.read = loc[r].read
          /\ l.now = loc[r].now /\ l.next = next
      BY <1>1, LocalsFields
    <3> HIDE DEF l
    <3> QED BY <3>1, <3>2
  <2> QED BY <2>1, <2>2
<1>4. \/ /\ UNCHANGED tx
         /\ \/ pc'[r] \in {"commit", "panic"} /\ Forget(r)
            \/ /\ pc'[r] = "fill" /\ loc'[r].seen = loc[r].seen
               /\ loc'[r].read = loc[r].read /\ loc'[r].now = loc[r].now
               /\ loc'[r].next = loc[r].next
      \/ /\ Overdue(r) /\ UpsertTeamInfo(r, g, row)
         /\ \/ pc'[r] = "commit" /\ Forget(r)
            \/ /\ pc'[r] = "fill" /\ loc'[r].seen = loc[r].seen
               /\ loc'[r].read = loc[r].read /\ loc'[r].now = loc[r].now
               /\ loc'[r].next = deadline
  BY <1>1, <1>3 DEF FillGroup
<1>5. Overdue(r) /\ UpsertTeamInfo(r, g, row) =>
        /\ tx'[r].answer = tx[r].answer /\ tx'[r].hint = tx[r].hint
        /\ tx'[r].info = [tx[r].info EXCEPT ![g] = row]
  <2> HIDE DEF row, g
  <2> QED BY <1>1, <1>2, UpsertType
<1> HIDE DEF g, info, row, deadline
<1>6. /\ loc'[r].seen = loc[r].seen
      /\ tx'[r].answer = tx[r].answer /\ tx'[r].hint = tx[r].hint
      /\ \/ tx'[r].info = tx[r].info
         \/ Overdue(r) /\ tx'[r].info = [tx[r].info EXCEPT ![g] = row]
      /\ \/ pc'[r] \in {"commit", "panic"} /\ Forget(r)
         \/ /\ pc'[r] = "fill"
            /\ loc'[r].read = loc[r].read /\ loc'[r].now = loc[r].now
            /\ \/ loc'[r].next = loc[r].next
               \/ Overdue(r) /\ loc'[r].next = deadline
  BY <1>4, <1>5, ForgetFields
<1> QED BY <1>1, <1>2, <1>6 DEF g, info, row, deadline

(* A request begins with no writes and with what is committed as seen.     *)
LEMMA BeginFields ==
  ASSUME TypeOK, NEW r \in Requests,
         HandleGet(r) \/ HandleTakeHint(r) \/ HandleTryAnswer(r)
  PROVE  /\ Running /\ pc[r] = "idle" /\ tx'[r] = NoWrites
         /\ pc'[r] \in {"groups", "group", "accepted"}
         /\ loc'[r].seen = Seen(input'[r].task)
         /\ loc'[r].read = NoGroups /\ loc'[r].now = 0 /\ loc'[r].next = None
         /\ input'[r].op = "answer" => pc'[r] = "accepted"
<1>1. ASSUME NEW in, NEW label \in {"groups", "group", "accepted"},
             Begin(r, in, label), in.op = "answer" => label = "accepted"
      PROVE  /\ Running /\ pc[r] = "idle" /\ tx'[r] = NoWrites
             /\ pc'[r] \in {"groups", "group", "accepted"}
             /\ loc'[r].seen = Seen(input'[r].task)
             /\ loc'[r].read = NoGroups /\ loc'[r].now = 0 /\ loc'[r].next = None
             /\ input'[r].op = "answer" => pc'[r] = "accepted"
  <2> DEFINE seen == Seen(in.task)
  <2>1. /\ input'[r] = in /\ pc'[r] = label /\ pc[r] = "idle" /\ Running
        /\ tx'[r] = NoWrites /\ loc[r] = NoLocals /\ loc[r] \in Locals
    BY <1>1 DEF TypeOK, Begin, Coherent
  <2>2. loc'[r] = [loc[r] EXCEPT !.seen = seen]
    BY <1>1 DEF TypeOK, Begin
  <2> HIDE DEF seen
  <2>3. /\ loc'[r].seen = seen /\ loc'[r].read = loc[r].read
        /\ loc'[r].now = loc[r].now /\ loc'[r].next = loc[r].next
    BY <2>1, <2>2, LocalsFields
  <2>4. loc[r].read = NoGroups /\ loc[r].now = 0 /\ loc[r].next = None
    BY <2>1 DEF NoLocals
  <2>5. seen = Seen(input'[r].task)
    BY <2>1 DEF seen
  <2> QED BY <1>1, <2>1, <2>3, <2>4, <2>5
<1>2. CASE HandleGet(r)
  <2> DEFINE in == [op |-> "get", task |-> None, right |-> FALSE, hint |-> None]
  <2>1. Begin(r, in, "groups") /\ in.op # "answer"
    BY <1>2 DEF HandleGet
  <2> HIDE DEF in
  <2> QED BY <1>1, <2>1
<1>3. CASE HandleTakeHint(r)
  <2>1. PICK in : Begin(r, in, "group") /\ in.op # "answer"
    BY <1>3 DEF HandleTakeHint
  <2> QED BY <1>1, <2>1
<1>4. CASE HandleTryAnswer(r)
  <2>1. PICK in : Begin(r, in, "accepted")
    BY <1>4 DEF HandleTryAnswer
  <2> QED BY <1>1, <2>1
<1> QED BY <1>2, <1>3, <1>4

LEMMA EndFields ==
  ASSUME TypeOK, NEW r \in Requests, End(r)
  PROVE  /\ pc'[r] = "idle" /\ input'[r] = NoInput /\ loc'[r] = NoLocals
         /\ tx'[r] = NoWrites
BY DEF TypeOK, End

LEMMA AbortFields ==
  ASSUME TypeOK, NEW r \in Requests, Abort(r)
  PROVE  /\ pc'[r] = "failed" /\ input'[r] = input[r] /\ loc'[r] = NoLocals
         /\ tx'[r] = NoWrites
BY DEF TypeOK, Abort

-----------------------------------------------------------------------------
(* Scores.  A hint that was taken when the request arrived is still taken  *)
(* when the score is computed, because hint takes are never removed.       *)
HintsSeen(r) ==
  input[r].task \in Tasks => loc[r].seen.hints \subseteq hintTakes[input[r].task]

ScoreIsFair(r) ==
  tx[r].answer # None =>
    /\ RowIsFair(input[r].task, tx[r].answer)
    /\ loc[r].seen.hints \subseteq tx[r].answer.charged

RowsAreFair ==
  \A t \in Tasks : \A i \in DOMAIN answers[t] : RowIsFair(t, answers[t][i])

HintsInv ==
  /\ RowsAreFair
  /\ \A r \in Requests : HintsSeen(r) /\ ScoreIsFair(r)

(* The request keeps its task, what it saw and its answer.                 *)
LEMMA SameAnswer ==
  ASSUME TypeOK, TablesKeep, NEW r \in Requests, HintsSeen(r), ScoreIsFair(r),
         input'[r] = input[r], loc'[r].seen = loc[r].seen,
         tx'[r].answer = tx[r].answer
  PROVE  HintsSeen(r)' /\ ScoreIsFair(r)'
<1>1. tx[r].answer # None => input[r].task \in Tasks
  BY DEF TypeOK, Coherent
<1>2. ASSUME tx[r].answer # None PROVE RowIsFair(input[r].task, tx[r].answer)'
  <2> DEFINE t == input[r].task
             row == tx[r].answer
  <2>1. RowIsFair(t, row) /\ t \in Tasks
    BY <1>1, <1>2 DEF ScoreIsFair
  <2>2. RowIsFair(t, row)'
    <3>1. row.charged \subseteq hintTakes'[t]
      BY <2>1 DEF RowIsFair, TablesKeep
    <3> QED BY <2>1, <3>1 DEF RowIsFair
  <2> QED BY <2>2 DEF RowIsFair
<1> QED BY <1>1, <1>2 DEF HintsSeen, ScoreIsFair, TablesKeep

LEMMA HintsOfActor ==
  ASSUME TypeOK, HintsInv, TablesKeep, NEW r \in Requests, RequestStep(r)
  PROVE  HintsSeen(r)' /\ ScoreIsFair(r)'
<1>1. HintsSeen(r) /\ ScoreIsFair(r)
  BY DEF HintsInv
<1>2. CASE HandleGet(r) \/ HandleTakeHint(r) \/ HandleTryAnswer(r)
  <2>1. tx'[r].answer = None /\ loc'[r].seen = Seen(input'[r].task)
    BY <1>2, BeginFields DEF NoWrites
  <2>2. hintTakes' = hintTakes
    BY <1>2 DEF HandleGet, HandleTakeHint, HandleTryAnswer, Begin
  <2>3. input'[r].task \in Tasks => loc'[r].seen.hints = hintTakes[input'[r].task]
    BY <2>1, PlayModeAssumption DEF Seen
  <2> QED BY <2>1, <2>2, <2>3 DEF HintsSeen, ScoreIsFair
<1>3. CASE End(r)
  BY <1>3, EndFields, PlayModeAssumption
     DEF NoInput, NoLocals, NoWrites, HintsSeen, ScoreIsFair
<1>4. CASE ScoreAnswer(r)
  <2> DEFINE t == input[r].task
             row == [score |-> Reward[t] - Charge(t, hintTakes[t]),
                     charged |-> hintTakes[t]]
  <2>1. t \in Tasks /\ input' = input /\ hintTakes' = hintTakes
    BY <1>4 DEF TypeOK, ScoreAnswer, Coherent
  <2>2. tx'[r].answer = row /\ loc'[r].seen = loc[r].seen
    BY <1>4, ScoreAnswerFields
  <2>3. /\ row.charged = hintTakes[t]
        /\ row.score = Reward[t] - Charge(t, row.charged)
    OBVIOUS
  <2> HIDE DEF row
  <2> QED BY <1>1, <2>1, <2>2, <2>3 DEF HintsSeen, ScoreIsFair, RowIsFair
<1>5. CASE ReadAccepted(r) \/ ReadGroup(r) \/ CheckAnswer(r)
  <2>1. input' = input /\ loc'[r].seen = loc[r].seen
    BY <1>5, ReadAcceptedFields, ReadGroupFields, CheckAnswerFields
       DEF ReadAccepted, ReadGroup, CheckAnswer
  <2>2. tx'[r].answer = tx[r].answer
    BY <1>5, CheckAnswerFields DEF ReadAccepted, ReadGroup
  <2> QED BY <1>1, <2>1, <2>2, SameAnswer
<1>6. CASE CloseGroup(r) \/ CheckHint(r) \/ StoreDeadline(r)
           \/ CheckUnsolved(r) \/ TakeHint(r)
  <2>1. input' = input /\ loc'[r].seen = loc[r].seen
    BY <1>6, CloseGroupFields, StoreDeadlineFields, CheckHintFields,
       ForgetFields, TakeHintFields
       DEF CloseGroup, CheckHint, StoreDeadline, CheckUnsolved, TakeHint
  <2>2. tx'[r].answer = tx[r].answer
    BY <1>6, CloseGroupFields, StoreDeadlineFields, TakeHintFields
       DEF CheckHint, CheckUnsolved
  <2> QED BY <1>1, <2>1, <2>2, SameAnswer
<1>7. CASE ReadGroups(r) \/ ReadClock(r) \/ FillGroup(r)
  <2>1. input' = input /\ loc'[r].seen = loc[r].seen
    BY <1>7, ReadGroupsFields, ReadClockFields, FillGroupFields
       DEF ReadGroups, ReadClock, FillGroup
  <2>2. tx'[r].answer = tx[r].answer
    BY <1>7, FillGroupFields DEF ReadGroups, ReadClock
  <2> QED BY <1>1, <2>1, <2>2, SameAnswer
<1>8. CASE Abort(r)
  <2>1. tx'[r].answer = None /\ loc'[r].seen.hints = {}
    BY <1>8, AbortFields DEF NoWrites, NoLocals
  <2> QED BY <2>1 DEF HintsSeen, ScoreIsFair
<1> QED
  BY <1>2, <1>3, <1>4, <1>5, <1>6, <1>7, <1>8
     DEF RequestStep, Statement, Commit, ReturnError, Fail, FailUpsert,
         DeadlockVictim, Rollback

(* A committed row is one that was fair in the transaction that wrote it.  *)
LEMMA HintsOfRows ==
  ASSUME TypeOK, HintsInv, [Next]_vars
  PROVE  RowsAreFair'
<1>0. TablesKeep /\ RowsAreFair
  BY TablesKept DEF HintsInv
<1>1. ASSUME answers' = answers PROVE RowsAreFair'
  BY <1>0, <1>1 DEF RowsAreFair, RowIsFair, TablesKeep
<1>2. ASSUME NEW r \in Requests, Commit(r), tx[r].answer # None
      PROVE  RowsAreFair'
  <2> DEFINE u == input[r].task
             row == tx[r].answer
  <2>1. u \in Tasks /\ row \in AnswerRow /\ RowIsFair(u, row)
    BY <1>2 DEF TypeOK, Coherent, Writes, HintsInv, ScoreIsFair
  <2>2. answers' = [answers EXCEPT ![u] = Append(answers[u], row)]
    BY <1>2, <2>1 DEF TypeOK, Commit, StoreAnswer
  <2> HIDE DEF u, row
  <2>3. ASSUME NEW t \in Tasks, NEW i \in DOMAIN answers'[t]
        PROVE  RowIsFair(t, answers'[t][i])
    <3>1. answers[t] \in Seq(AnswerRow) /\ answers[u] \in Seq(AnswerRow)
      BY <2>1 DEF TypeOK
    <3>2. CASE t # u
      BY <1>0, <2>2, <2>3, <3>2 DEF TypeOK, RowsAreFair
    <3>3. CASE t = u /\ i \in DOMAIN answers[u]
      <4>1. answers'[t][i] = answers[u][i]
        BY <1>0, <2>1, <3>3 DEF TablesKeep
      <4> QED BY <1>0, <2>1, <3>3, <4>1 DEF RowsAreFair
    <3>4. CASE t = u /\ i \notin DOMAIN answers[u]
      <4>1. answers'[u] = Append(answers[u], row)
        BY <2>1, <2>2 DEF TypeOK
      <4>2. answers'[u][i] = row
        BY <2>1, <2>3, <3>1, <3>4, <4>1
      <4> QED BY <2>1, <3>4, <4>2
    <3> QED BY <3>2, <3>3, <3>4
  <2> QED BY <1>0, <2>3 DEF TablesKeep, RowsAreFair, RowIsFair
<1>3. ASSUME NEW r \in Requests, RequestStep(r)
      PROVE  answers' = answers \/ (Commit(r) /\ tx[r].answer # None)
  BY <1>3, OnlyCommitWrites DEF Commit
<1> QED BY <1>1, <1>2, <1>3, NextCases

LEMMA HintsNext == TypeOK /\ HintsInv /\ [Next]_vars => HintsInv'
<1> SUFFICES ASSUME TypeOK, HintsInv, [Next]_vars PROVE HintsInv'
  OBVIOUS
<1>0. TablesKeep
  BY TablesKept
<1>1. ASSUME NEW q \in Requests, Untouched(q) PROVE HintsSeen(q)' /\ ScoreIsFair(q)'
  BY <1>0, <1>1, SameAnswer DEF HintsInv, Untouched
<1>2. ASSUME NEW r \in Requests, RequestStep(r), NEW q \in Requests
      PROVE  HintsSeen(q)' /\ ScoreIsFair(q)'
  BY <1>0, <1>1, <1>2, OthersUntouched, HintsOfActor
<1>3. ASSUME UNCHANGED <<pc, input, loc, tx>>, NEW q \in Requests
      PROVE  HintsSeen(q)' /\ ScoreIsFair(q)'
  BY <1>1, <1>3 DEF Untouched
<1>4. RowsAreFair'
  BY HintsOfRows
<1> QED BY <1>2, <1>3, <1>4, NextCases DEF HintsInv

(* Whatever members do at the same time, an accepted answer's score is its *)
(* reward less the penalties of hints really taken, among them every hint  *)
(* that was taken when the answer arrived.                                 *)
THEOREM ScoresAreFair == Spec => []HintsAreCharged
<1>1. Init => HintsInv
  BY PlayModeAssumption
     DEF Init, HintsInv, RowsAreFair, HintsSeen, ScoreIsFair, NoInput, NoWrites
<1>2. TypeOK /\ HintsInv /\ [Next]_vars => HintsInv'
  BY HintsNext
<1>3. HintsInv => HintsAreCharged
  BY DEF HintsInv, RowsAreFair, ScoreIsFair, HintsAreCharged
<1> QED BY <1>1, <1>2, <1>3, TypeCorrect, PTL DEF Spec

-----------------------------------------------------------------------------
(* What fillTeamInfos finds.                                               *)
Ordered == Groups \ Sticky

(* fillTeamInfos found the group g closed.                                 *)
FoundClosed(read, g) == read[g] # None /\ read[g].closing # None

(* A group in order is returned closed exactly when it has a row, and is   *)
(* returned without TeamInfo only when the one before it has no row; any   *)
(* other group is returned without one.                                    *)
LEMMA TeamInfosFacts ==
  ASSUME NEW rows \in [Groups -> TeamInfoRow \cup {None}],
         NEW S \in SUBSET Groups, NEW g \in Groups
  PROVE  /\ g \notin S \ Sticky => TeamInfos(rows, S)[g] = None
         /\ g \in S \ Sticky =>
              /\ FoundClosed(TeamInfos(rows, S), g) <=> rows[g] # None
              /\ TeamInfos(rows, S)[g] = None =>
                   \E h \in S \ Sticky : h < g /\ rows[h] = None
<1> DEFINE stored == {h \in S : rows[h] # None}
           last == CHOOSE h \in stored : \A k \in stored : k <= h
           before == {h \in S \ Sticky : h < g}
           prev == CHOOSE h \in before : \A k \in before : k <= h
           value ==
             IF g \notin S \ Sticky THEN None
             ELSE IF g \in stored
             THEN [opening |-> rows[g].opening, closing |-> rows[last].closing]
             ELSE IF before = {}
             THEN [opening |-> StartTime, closing |-> None]
             ELSE IF prev \in stored
             THEN [opening |-> rows[last].closing, closing |-> None]
             ELSE None
<1>1. TeamInfos(rows, S)[g] = value
  BY DEF TeamInfos
<1>2. stored # {} => last \in stored
  <2>1. ASSUME stored # {} PROVE \E m \in stored : \A x \in stored : x <= m
    BY <2>1, LastGroup
  <2> HIDE DEF stored
  <2> QED BY <2>1
<1>3. before # {} => prev \in before
  <2>1. ASSUME before # {} PROVE \E m \in before : \A x \in before : x <= m
    BY <2>1, LastGroup
  <2> HIDE DEF before
  <2> QED BY <2>1
<1>4. \A h \in stored : rows[h].opening \in Nat /\ rows[h].closing \in Nat
  BY DEF TeamInfoRow
<1>5. stored # {} => rows[last].closing \in Nat
  BY <1>2, <1>4
<1>6. prev \in before => prev \in S \ Sticky /\ prev < g
  OBVIOUS
<1>7. g \in stored <=> g \in S /\ rows[g] # None
  OBVIOUS
<1>8. prev \in S /\ prev \notin stored => rows[prev] = None
  OBVIOUS
<1>9. \A x \in Nat, y \in Nat \cup {None} : [opening |-> x, closing |-> y] # None
  BY PlayModeAssumption DEF TeamInfoRead
<1>10. CASE g \notin S \ Sticky
  BY <1>1, <1>10
<1>11. CASE g \in S \ Sticky /\ g \in stored
  <2> DEFINE info == [opening |-> rows[g].opening, closing |-> rows[last].closing]
  <2>1. TeamInfos(rows, S)[g] = info
    BY <1>1, <1>11
  <2>2. rows[g].opening \in Nat /\ rows[last].closing \in Nat
    BY <1>4, <1>5, <1>11
  <2>3. info # None /\ info.closing # None
    BY <1>9, <2>2, PlayModeAssumption
  <2> HIDE DEF info, stored
  <2> QED BY <1>7, <1>11, <2>1, <2>3 DEF FoundClosed
<1>12. CASE g \in S \ Sticky /\ g \notin stored
  <2>1. rows[g] = None
    BY <1>7, <1>12
  <2>2. value = None \/ value.closing = None
    <3> HIDE DEF stored, last, before, prev
    <3> QED BY <1>12
  <2>3. value = None => before # {} /\ prev \notin stored
    <3>1. StartTime \in Nat
      BY PlayModeAssumption
    <3>2. stored # {} => rows[last].closing \in Nat
      BY <1>5
    <3> HIDE DEF stored, last, before, prev
    <3> QED BY <1>9, <1>12, <3>1, <3>2
  <2>4. value = None => \E h \in S \ Sticky : h < g /\ rows[h] = None
    <3> HIDE DEF value, stored, before, prev
    <3> QED BY <1>3, <1>6, <1>8, <2>3
  <2> HIDE DEF value
  <2> QED BY <1>1, <1>12, <2>1, <2>2, <2>4 DEF FoundClosed
<1> HIDE DEF stored
<1> QED BY <1>10, <1>11, <1>12

(* fillTeamInfos over one group in order always returns its TeamInfo.      *)
LEMMA AloneIsFound ==
  ASSUME NEW rows \in [Groups -> TeamInfoRow \cup {None}], NEW g \in Ordered
  PROVE  TeamInfos(rows, {g})[g] # None
<1>1. g \in Groups /\ {g} \in SUBSET Groups /\ g \in {g} \ Sticky
  BY DEF Ordered
<1>2. ~\E h \in {g} \ Sticky : h < g
  BY DEF Ordered, Groups
<1> QED BY <1>1, <1>2, TeamInfosFacts

-----------------------------------------------------------------------------
(* Late requests.  What a request saw when it arrived still holds when it  *)
(* reads the accepted tasks and its group, because neither accepted rows   *)
(* nor team info rows are ever removed: so each guard on its way sees it.  *)
Passed(r) ==
  LET g == GroupOf[input[r].task]
  IN  Linear /\ g \notin Sticky /\ g \in loc[r].seen.closed

SeenHolds(r) ==
  /\ loc[r].seen.accepted \subseteq AcceptedTasks
  /\ loc[r].seen.closed \subseteq ClosedGroups

InTime(r) ==
  LET t == input[r].task
      info == loc[r].read[GroupOf[t]]
  IN  /\ input[r].op = "answer" /\ pc[r] \in {"group", "check", "score", "close"}
           => t \notin loc[r].seen.accepted
      /\ pc[r] = "take" => t \notin loc[r].seen.accepted
      /\ pc[r] = "check" /\ Passed(r) => info = None \/ info.closing # None
      /\ pc[r] \in {"score", "close", "deadline", "unsolved", "take"} => ~Passed(r)
      /\ tx[r].answer # None \/ tx[r].hint # None =>
           t \notin loc[r].seen.accepted /\ ~Passed(r)

LateInv == \A r \in Requests : SeenHolds(r) /\ InTime(r)

LEMMA AcceptedKept ==
  ASSUME TypeOK, TablesKeep, NEW t \in AcceptedTasks
  PROVE  t \in AcceptedTasks'
<1>1. t \in Tasks /\ answers[t] \in Seq(AnswerRow) /\ answers[t] # <<>>
  BY DEF TypeOK, AcceptedTasks
<1>2. 1 \in DOMAIN answers[t]
  BY <1>1
<1>3. 1 \in DOMAIN answers'[t]
  BY <1>1, <1>2 DEF TablesKeep
<1>4. answers'[t] # <<>>
  BY <1>3
<1> QED BY <1>1, <1>4 DEF AcceptedTasks

LEMMA SeenStillHolds ==
  ASSUME TypeOK, TablesKeep, NEW r \in Requests, SeenHolds(r),
         loc'[r].seen = loc[r].seen
  PROVE  SeenHolds(r)'
<1>1. \A t \in AcceptedTasks : t \in AcceptedTasks'
  BY AcceptedKept
<1>2. \A g \in ClosedGroups : g \in ClosedGroups'
  BY DEF TablesKeep, ClosedGroups
<1> QED BY <1>1, <1>2 DEF SeenHolds

(* A group the request saw closed is found closed.                         *)
LEMMA SeenIsFound ==
  ASSUME TypeOK, NEW r \in Requests, SeenHolds(r), NEW S \in SUBSET Groups,
         NEW g \in S \ Sticky, g \in loc[r].seen.closed
  PROVE  FoundClosed(TeamInfos(Visible(r), S), g)
<1>1. g \in Groups /\ teamInfo[g] # None
  BY DEF SeenHolds, ClosedGroups
<1>2. Visible(r)[g] # None
  BY <1>1 DEF Visible
<1> QED BY <1>1, <1>2, VisibleType, TeamInfosFacts

(* Past its guards a request meets no more of them.                        *)
LEMMA LateSame ==
  ASSUME TypeOK, TablesKeep, NEW r \in Requests, SeenHolds(r), InTime(r),
         input'[r] = input[r], loc'[r].seen = loc[r].seen,
         tx'[r].answer = tx[r].answer, tx'[r].hint = tx[r].hint,
         pc'[r] \in {"groups", "now", "fill", "commit", "refused", "panic"}
  PROVE  SeenHolds(r)' /\ InTime(r)'
BY SeenStillHolds DEF InTime, Passed

LEMMA LateUntouched ==
  ASSUME TypeOK, TablesKeep, NEW r \in Requests, SeenHolds(r), InTime(r), Untouched(r)
  PROVE  SeenHolds(r)' /\ InTime(r)'
BY SeenStillHolds DEF InTime, Passed, Untouched

LEMMA LateOfAnswer ==
  ASSUME TypeOK, TablesKeep, NEW r \in Requests, SeenHolds(r), InTime(r),
         ReadAccepted(r) \/ ReadGroup(r) \/ CheckAnswer(r) \/ ScoreAnswer(r)
         \/ CloseGroup(r) \/ StoreDeadline(r)
  PROVE  SeenHolds(r)' /\ InTime(r)'
<1> DEFINE t == input[r].task
           g == GroupOf[t]
<1>1. CASE ReadAccepted(r)
  <2>1. /\ input' = input /\ tx' = tx /\ input[r].op = "answer" /\ t \in Tasks
        /\ tx[r].hint = None
    BY <1>1 DEF TypeOK, ReadAccepted, Coherent
  <2>2. loc'[r].seen = loc[r].seen
    BY <1>1, ReadAcceptedFields
  <2>3. \/ pc'[r] \in {"groups", "commit"}
        \/ pc'[r] = "group" /\ t \notin AcceptedTasks
    BY <1>1 DEF TypeOK, ReadAccepted, AfterTryAnswer
  <2>4. CASE pc'[r] = "group" /\ t \notin AcceptedTasks
    <3>1. t \notin loc[r].seen.accepted
      BY <2>1, <2>4 DEF SeenHolds
    <3> QED BY <2>1, <2>2, <2>4, <3>1, SeenStillHolds DEF InTime, Passed
  <2> QED BY <2>1, <2>2, <2>3, <2>4, LateSame
<1>2. CASE ReadGroup(r)
  <2>1. /\ input' = input /\ tx' = tx /\ pc[r] = "group" /\ pc'[r] = "check"
        /\ t \in Tasks /\ g \in Groups
    BY <1>2, PlayModeAssumption DEF TypeOK, ReadGroup, Coherent
  <2>2. loc'[r].seen = loc[r].seen /\ loc'[r].read = TeamInfos(Visible(r), {g})
    BY <1>2, ReadGroupFields
  <2>3. ASSUME Passed(r) PROVE loc'[r].read[g].closing # None
    <3>1. g \in loc[r].seen.closed /\ g \in {g} \ Sticky /\ {g} \in SUBSET Groups
      BY <2>1, <2>3 DEF Passed
    <3> HIDE DEF g
    <3> QED BY <2>2, <3>1, SeenIsFound DEF FoundClosed
  <2>4. ASSUME Passed(r)' PROVE Passed(r)
    BY <2>1, <2>2, <2>4 DEF Passed
  <2> QED BY <2>1, <2>2, <2>3, <2>4, SeenStillHolds DEF InTime, Passed
<1>3. CASE CheckAnswer(r)
  <2>1. input' = input /\ pc[r] = "check" /\ input[r].op = "answer"
    BY <1>3 DEF CheckAnswer
  <2>2. /\ loc'[r].seen = loc[r].seen
        /\ tx'[r].answer = tx[r].answer /\ tx'[r].hint = tx[r].hint
        /\ \/ pc'[r] \in {"refused", "groups", "commit"}
           \/ pc'[r] = "deadline" /\ PastDeadline(r)
           \/ pc'[r] = "score" /\ (Linear /\ g \notin Sticky => StillOpen(r))
    BY <1>3, CheckAnswerFields
  <2>3. CASE pc'[r] \in {"deadline", "score"}
    <3>1. ~Passed(r)
      BY <2>1, <2>2, <2>3 DEF InTime, Passed, PastDeadline, StillOpen
    <3> QED BY <2>1, <2>2, <2>3, <3>1, SeenStillHolds DEF InTime, Passed
  <2> QED BY <2>1, <2>2, <2>3, LateSame
<1>4. CASE ScoreAnswer(r)
  <2>1. /\ input' = input /\ pc[r] = "score" /\ input[r].op = "answer"
    BY <1>4 DEF TypeOK, ScoreAnswer, Coherent
  <2>2. /\ loc'[r].seen = loc[r].seen
        /\ pc'[r] \in {"close", "panic", "groups", "commit"}
    BY <1>4, ScoreAnswerFields
  <2>3. t \notin loc[r].seen.accepted /\ ~Passed(r)
    BY <2>1 DEF InTime
  <2> QED BY <2>1, <2>2, <2>3, SeenStillHolds DEF InTime, Passed
<1>5. CASE CloseGroup(r)
  <2>1. input' = input
    BY <1>5 DEF CloseGroup
  <2>2. /\ loc'[r].seen = loc[r].seen
        /\ tx'[r].answer = tx[r].answer /\ tx'[r].hint = tx[r].hint
        /\ pc'[r] \in {"groups", "commit"}
    BY <1>5, CloseGroupFields, ForgetFields
  <2> QED BY <2>1, <2>2, LateSame
<1>6. CASE StoreDeadline(r)
  <2>1. input' = input
    BY <1>6 DEF StoreDeadline
  <2>2. /\ loc'[r].seen = loc[r].seen
        /\ tx'[r].answer = tx[r].answer /\ tx'[r].hint = tx[r].hint
        /\ pc'[r] = "refused"
    BY <1>6, StoreDeadlineFields, ForgetFields
  <2> QED BY <2>1, <2>2, LateSame
<1> QED BY <1>1, <1>2, <1>3, <1>4, <1>5, <1>6

LEMMA LateOfHint ==
  ASSUME TypeOK, TablesKeep, NEW r \in Requests, SeenHolds(r), InTime(r),
         CheckHint(r) \/ CheckUnsolved(r) \/ TakeHint(r)
  PROVE  SeenHolds(r)' /\ InTime(r)'
<1> DEFINE t == input[r].task
<1>1. CASE CheckHint(r)
  <2>1. /\ input' = input /\ tx' = tx /\ pc[r] = "check"
        /\ loc'[r].seen = loc[r].seen
        /\ input[r].op = "hint"
    BY <1>1, CheckHintFields DEF CheckHint
  <2>2. \/ pc'[r] = "refused"
        \/ pc'[r] = "deadline" /\ PastDeadline(r)
        \/ pc'[r] = "unsolved" /\ (Linear => StillOpen(r))
    BY <1>1, CheckHintFields
  <2>3. CASE pc'[r] \in {"deadline", "unsolved"}
    <3>1. ~Passed(r)
      BY <2>1, <2>2, <2>3 DEF InTime, Passed, PastDeadline, StillOpen
    <3> QED BY <2>1, <2>3, <3>1, SeenStillHolds DEF InTime, Passed
  <2> QED BY <2>1, <2>2, <2>3, LateSame
<1>2. CASE CheckUnsolved(r)
  <2>1. /\ input' = input /\ tx' = tx /\ loc' = loc /\ pc[r] = "unsolved"
        /\ t \in Tasks
    BY <1>2 DEF TypeOK, CheckUnsolved, Coherent
  <2>2. pc'[r] = "refused" \/ (pc'[r] = "take" /\ t \notin AcceptedTasks)
    BY <1>2 DEF TypeOK, CheckUnsolved
  <2>3. CASE pc'[r] = "take"
    <3>1. t \notin loc[r].seen.accepted /\ ~Passed(r)
      BY <2>1, <2>2, <2>3 DEF SeenHolds, InTime
    <3> QED BY <2>1, <2>3, <3>1, SeenStillHolds DEF InTime, Passed
  <2> QED BY <2>1, <2>2, <2>3, LateSame
<1>3. CASE TakeHint(r)
  <2>1. /\ input' = input /\ pc[r] = "take" /\ loc'[r] = loc[r]
        /\ pc'[r] \in {"commit", "refused"}
    BY <1>3, TakeHintFields DEF TakeHint
  <2>2. t \notin loc[r].seen.accepted /\ ~Passed(r)
    BY <2>1 DEF InTime
  <2> QED BY <2>1, <2>2, SeenStillHolds DEF InTime, Passed
<1> QED BY <1>1, <1>2, <1>3

LEMMA LateOfPage ==
  ASSUME TypeOK, TablesKeep, NEW r \in Requests, SeenHolds(r), InTime(r),
         ReadGroups(r) \/ ReadClock(r) \/ FillGroup(r)
  PROVE  SeenHolds(r)' /\ InTime(r)'
<1>1. input' = input /\ loc'[r].seen = loc[r].seen
  BY ReadGroupsFields, ReadClockFields, FillGroupFields
     DEF ReadGroups, ReadClock, FillGroup
<1>2. tx'[r].answer = tx[r].answer /\ tx'[r].hint = tx[r].hint
  BY FillGroupFields DEF ReadGroups, ReadClock
<1>3. pc'[r] \in {"now", "fill", "commit", "panic"}
  BY FillGroupFields DEF TypeOK, ReadGroups, ReadClock
<1> QED BY <1>1, <1>2, <1>3, LateSame

LEMMA LateOfActor ==
  ASSUME TypeOK, LateInv, TablesKeep, NEW r \in Requests, RequestStep(r)
  PROVE  SeenHolds(r)' /\ InTime(r)'
<1>1. SeenHolds(r) /\ InTime(r)
  BY DEF LateInv
<1>2. CASE HandleGet(r) \/ HandleTakeHint(r) \/ HandleTryAnswer(r)
  <2>1. /\ tx'[r].answer = None /\ tx'[r].hint = None
        /\ pc'[r] \in {"groups", "group", "accepted"}
        /\ input'[r].op = "answer" => pc'[r] = "accepted"
        /\ loc'[r].seen = Seen(input'[r].task)
    BY <1>2, BeginFields DEF NoWrites
  <2>2. answers' = answers /\ teamInfo' = teamInfo
    BY <1>2 DEF HandleGet, HandleTakeHint, HandleTryAnswer, Begin
  <2>3. /\ loc'[r].seen.accepted \subseteq AcceptedTasks
        /\ loc'[r].seen.closed = ClosedGroups
    BY <2>1 DEF Seen
  <2>4. SeenHolds(r)'
    BY <2>2, <2>3 DEF SeenHolds, AcceptedTasks, ClosedGroups
  <2> QED BY <2>1, <2>4 DEF InTime
<1>3. CASE End(r) \/ Abort(r)
  <2>1. /\ pc'[r] \in {"idle", "failed"} /\ loc'[r] = NoLocals
        /\ tx'[r] = NoWrites
    BY <1>3, EndFields, AbortFields
  <2>2. /\ loc'[r].seen.accepted = {} /\ loc'[r].seen.closed = {}
        /\ tx'[r].answer = None /\ tx'[r].hint = None
    BY <2>1 DEF NoLocals, NoWrites
  <2> QED BY <2>1, <2>2 DEF SeenHolds, InTime, Passed
<1> QED
  BY <1>1, <1>2, <1>3, LateOfAnswer, LateOfHint, LateOfPage
     DEF RequestStep, Statement, Commit, ReturnError, Fail, FailUpsert,
         DeadlockVictim, Rollback

LEMMA LateNext == TypeOK /\ LateInv /\ [Next]_vars => LateInv'
<1> SUFFICES ASSUME TypeOK, LateInv, [Next]_vars PROVE LateInv'
  OBVIOUS
<1>0. TablesKeep
  BY TablesKept
<1>1. ASSUME NEW q \in Requests, Untouched(q) PROVE SeenHolds(q)' /\ InTime(q)'
  BY <1>0, <1>1, LateUntouched DEF LateInv
<1>2. ASSUME NEW r \in Requests, RequestStep(r), NEW q \in Requests
      PROVE  SeenHolds(q)' /\ InTime(q)'
  BY <1>0, <1>1, <1>2, OthersUntouched, LateOfActor
<1>3. ASSUME UNCHANGED <<pc, input, loc, tx>>, NEW q \in Requests
      PROVE  SeenHolds(q)' /\ InTime(q)'
  BY <1>1, <1>3 DEF Untouched
<1> QED BY <1>2, <1>3, NextCases DEF LateInv

LEMMA InitNotLate == Init => LateInv
BY PlayModeAssumption
   DEF Init, LateInv, SeenHolds, InTime, Passed, NoInput, NoLocals, NoWrites

(* No request writes a group it saw closed: the row it closes, the row it  *)
(* stores a deadline in and the rows the page writes are of groups it read *)
(* as open.                                                                *)
Spares(r) ==
  LET g == GroupOf[input[r].task]
  IN  /\ pc[r] \in {"check", "deadline", "score", "close"} /\ g \in Sticky =>
           loc[r].read[g] = None
      /\ Linear /\ pc[r] \in {"now", "fill"} =>
           \A h \in loc[r].seen.closed \ Sticky : FoundClosed(loc[r].read, h)
      /\ Linear => \A h \in loc[r].seen.closed : tx[r].info[h] = None

SparesInv == \A r \in Requests : Spares(r)

(* A request that writes no team info and reads none.                      *)
LEMMA SparesSame ==
  ASSUME TypeOK, NEW r \in Requests, Spares(r), input'[r] = input[r],
         loc'[r].seen = loc[r].seen, tx'[r].info = tx[r].info,
         \/ pc'[r] \notin {"check", "deadline", "score", "close", "now", "fill"}
         \/ /\ pc'[r] \in {"deadline", "score", "close"}
            /\ pc[r] \in {"check", "score"}
            /\ loc'[r].read = loc[r].read
         \/ /\ pc'[r] = "fill" /\ pc[r] \in {"now", "fill"}
            /\ loc'[r].read = loc[r].read
  PROVE  Spares(r)'
BY DEF Spares, FoundClosed

(* A request that writes the row of a group it did not see closed.         *)
LEMMA SparesWrite ==
  ASSUME TypeOK, NEW r \in Requests, Spares(r), input'[r] = input[r],
         loc'[r].seen = loc[r].seen, NEW g \in Groups, NEW row,
         Linear => g \notin loc[r].seen.closed,
         tx'[r].info = [tx[r].info EXCEPT ![g] = row],
         \/ pc'[r] \notin {"check", "deadline", "score", "close", "now", "fill"}
         \/ /\ pc'[r] = "fill" /\ pc[r] \in {"now", "fill"}
            /\ loc'[r].read = loc[r].read
  PROVE  Spares(r)'
<1>1. tx[r].info \in [Groups -> TeamInfoRow \cup {None}]
      /\ loc[r].seen.closed \subseteq Groups
  BY DEF TypeOK, Writes, Locals, Arrival
<1>2. Linear => \A h \in loc[r].seen.closed : tx'[r].info[h] = None
  BY <1>1 DEF Spares
<1> QED BY <1>2 DEF Spares, FoundClosed

LEMMA SparesOfAnswer ==
  ASSUME TypeOK, LateInv, NEW r \in Requests, Spares(r),
         ReadAccepted(r) \/ ReadGroup(r) \/ CheckAnswer(r) \/ ScoreAnswer(r)
         \/ CloseGroup(r) \/ CheckHint(r) \/ StoreDeadline(r)
         \/ CheckUnsolved(r) \/ TakeHint(r)
  PROVE  Spares(r)'
<1> DEFINE g == GroupOf[input[r].task]
<1>1. CASE ReadAccepted(r)
  <2>1. /\ input' = input /\ tx' = tx /\ loc'[r].seen = loc[r].seen
        /\ pc'[r] \in {"groups", "commit", "group"}
    BY <1>1, ReadAcceptedFields DEF TypeOK, ReadAccepted, AfterTryAnswer
  <2> QED BY <2>1, SparesSame
<1>2. CASE ReadGroup(r)
  <2>1. /\ input' = input /\ tx' = tx /\ pc'[r] = "check" /\ g \in Groups
        /\ loc'[r].seen = loc[r].seen
        /\ loc'[r].read = TeamInfos(Visible(r), {g})
    BY <1>2, ReadGroupFields, PlayModeAssumption DEF TypeOK, ReadGroup, Coherent
  <2>2. g \in Sticky => loc'[r].read[g] = None
    <3>1. {g} \in SUBSET Groups
      BY <2>1
    <3> HIDE DEF g
    <3> QED BY <2>1, <3>1, VisibleType, TeamInfosFacts
  <2> QED BY <2>1, <2>2 DEF Spares
<1>3. CASE CheckAnswer(r)
  <2>1. input' = input /\ pc[r] = "check"
    BY <1>3 DEF CheckAnswer
  <2> QED BY <1>3, <2>1, CheckAnswerFields, SparesSame
<1>4. CASE ScoreAnswer(r)
  <2>1. input' = input /\ pc[r] = "score"
    BY <1>4 DEF ScoreAnswer
  <2> QED BY <1>4, <2>1, ScoreAnswerFields, SparesSame
<1>5. CASE CloseGroup(r) \/ StoreDeadline(r)
  <2>1. /\ input' = input /\ pc[r] \in {"close", "deadline"}
        /\ g \in Groups /\ loc[r].read[g] # None
        /\ loc'[r].seen = loc[r].seen
        /\ pc'[r] \in {"groups", "commit", "refused"}
    BY <1>5, CloseGroupFields, StoreDeadlineFields, ForgetFields
       DEF CloseGroup, StoreDeadline
  <2>2. \E row : tx'[r].info = [tx[r].info EXCEPT ![g] = row]
    BY <1>5, CloseGroupFields, StoreDeadlineFields
  <2>3. Linear => g \notin loc[r].seen.closed
    BY <2>1 DEF Spares, LateInv, InTime, Passed
  <2> HIDE DEF g
  <2> QED BY <2>1, <2>2, <2>3, SparesWrite
<1>6. CASE CheckHint(r)
  <2>1. input' = input /\ pc[r] = "check"
    BY <1>6 DEF CheckHint
  <2> QED BY <1>6, <2>1, CheckHintFields, SparesSame
<1>7. CASE CheckUnsolved(r) \/ TakeHint(r)
  <2>1. /\ input' = input /\ loc'[r].seen = loc[r].seen
        /\ tx'[r].info = tx[r].info
        /\ pc'[r] \in {"refused", "take", "commit"}
    BY <1>7, TakeHintFields DEF TypeOK, CheckUnsolved, TakeHint
  <2> QED BY <2>1, SparesSame
<1> QED BY <1>1, <1>2, <1>3, <1>4, <1>5, <1>6, <1>7

LEMMA SparesOfPage ==
  ASSUME TypeOK, LateInv, NEW r \in Requests, Spares(r),
         ReadGroups(r) \/ ReadClock(r) \/ FillGroup(r)
  PROVE  Spares(r)'
<1>1. CASE ReadGroups(r)
  <2>1. /\ input' = input /\ tx' = tx /\ pc'[r] = "now"
        /\ loc'[r].seen = loc[r].seen
        /\ Linear => loc'[r].read = TeamInfos(Visible(r), Groups)
    BY <1>1, ReadGroupsFields DEF TypeOK, ReadGroups
  <2>2. ASSUME Linear, NEW h \in loc[r].seen.closed \ Sticky
        PROVE  FoundClosed(loc'[r].read, h)
    <3>1. h \in Groups \ Sticky
      BY <2>2 DEF TypeOK, Locals, Arrival
    <3> QED BY <2>1, <2>2, <3>1, SeenIsFound DEF LateInv
  <2> QED BY <2>1, <2>2 DEF Spares
<1>2. CASE ReadClock(r)
  <2>1. /\ input' = input /\ tx' = tx /\ pc[r] = "now"
        /\ pc'[r] \in {"commit", "fill"}
    BY <1>2 DEF TypeOK, ReadClock
  <2> QED BY <1>2, <2>1, ReadClockFields, SparesSame
<1>3. CASE FillGroup(r)
  <2> DEFINE g == loc[r].cursor
             info == InfoAtCursor(r)
             deadline == info.opening + TimeLimit[g]
             row == [opening |-> info.opening, closing |-> deadline]
  <2>1. input' = input /\ pc[r] = "fill"
    BY <1>3 DEF FillGroup
  <2>2. /\ g \in Groups /\ loc'[r].seen = loc[r].seen
        /\ \/ pc'[r] \in {"commit", "panic"}
           \/ pc'[r] = "fill" /\ loc'[r].read = loc[r].read
        /\ \/ tx'[r].info = tx[r].info
           \/ Overdue(r) /\ tx'[r].info = [tx[r].info EXCEPT ![g] = row]
    BY <1>3, FillGroupFields
  <2>3. CASE tx'[r].info = tx[r].info
    BY <2>1, <2>2, <2>3, SparesSame
  <2>4. CASE Overdue(r) /\ tx'[r].info = [tx[r].info EXCEPT ![g] = row]
    <3>1. g \notin loc[r].seen.closed
      BY <2>1, <2>4
         DEF Overdue, NotGated, InfoAtCursor, Spares, FoundClosed
    <3> HIDE DEF g, row
    <3> QED BY <2>1, <2>2, <2>4, <3>1, SparesWrite
  <2> QED BY <2>2, <2>3, <2>4
<1> QED BY <1>1, <1>2, <1>3

LEMMA SparesOfActor ==
  ASSUME TypeOK, LateInv, SparesInv, NEW r \in Requests, RequestStep(r)
  PROVE  Spares(r)'
<1>1. Spares(r)
  BY DEF SparesInv
<1>2. \A h \in Groups : NoWrites.info[h] = None
  BY DEF NoWrites, NoGroups
<1>3. CASE HandleGet(r) \/ HandleTakeHint(r) \/ HandleTryAnswer(r)
  <2>1. /\ tx'[r] = NoWrites /\ pc'[r] \in {"groups", "group", "accepted"}
        /\ loc'[r].seen = Seen(input'[r].task)
    BY <1>3, BeginFields
  <2>2. \A x : Seen(x).closed = ClosedGroups
    BY DEF Seen
  <2>3. loc'[r].seen.closed \subseteq Groups
    BY <2>1, <2>2 DEF ClosedGroups
  <2> QED BY <1>2, <2>1, <2>3 DEF Spares
<1>4. CASE End(r) \/ Abort(r)
  <2>1. /\ tx'[r] = NoWrites /\ pc'[r] \in {"idle", "failed"}
        /\ loc'[r].seen.closed = {}
    BY <1>4, EndFields, AbortFields DEF NoLocals
  <2> QED BY <1>2, <2>1 DEF Spares
<1> QED
  BY <1>1, <1>3, <1>4, SparesOfAnswer, SparesOfPage
     DEF RequestStep, Statement, Commit, ReturnError, Fail, FailUpsert,
         DeadlockVictim, Rollback

LEMMA SparesNext ==
  TypeOK /\ LateInv /\ SparesInv /\ [Next]_vars => SparesInv'
<1> SUFFICES ASSUME TypeOK, LateInv, SparesInv, [Next]_vars PROVE SparesInv'
  OBVIOUS
<1>1. ASSUME NEW q \in Requests, Untouched(q) PROVE Spares(q)'
  BY <1>1 DEF SparesInv, Spares, FoundClosed, Untouched
<1>2. ASSUME NEW r \in Requests, RequestStep(r), NEW q \in Requests
      PROVE  Spares(q)'
  BY <1>1, <1>2, OthersUntouched, SparesOfActor
<1>3. ASSUME UNCHANGED <<pc, input, loc, tx>>, NEW q \in Requests
      PROVE  Spares(q)'
  BY <1>1, <1>3 DEF Untouched
<1> QED BY <1>2, <1>3, NextCases DEF SparesInv

LEMMA InitSpares == Init => SparesInv
BY DEF Init, SparesInv, Spares, NoLocals, NoWrites, NoGroups

(* A request that arrives after its task was accepted, or in a linear      *)
(* quest after its group has closed, brings no accepted answer and no      *)
(* hint, and no request of a linear quest overwrites the times of a group  *)
(* that was closed when it arrived, whatever runs at the same time.        *)
THEOREM LateIsHarmless == Spec => []LateRequestsChangeNothing
<1>1. Init => LateInv /\ SparesInv
  BY InitNotLate, InitSpares
<1>2. TypeOK /\ LateInv /\ SparesInv /\ [Next]_vars => (LateInv /\ SparesInv)'
  BY LateNext, SparesNext
<1>3. LateInv /\ SparesInv => LateRequestsChangeNothing
  BY DEF LateInv, InTime, Passed, SparesInv, Spares, LateRequestsChangeNothing
<1> QED BY <1>1, <1>2, <1>3, TypeCorrect, PTL DEF Spec

-----------------------------------------------------------------------------
(* Times.  Every time a request holds lies between the quest's start and   *)
(* the clock: it comes from a clock read after the start, from a stored    *)
(* time, or is a deadline that has passed.                                 *)
Stamp(x) == StartTime <= x /\ x <= clock

RowOrdered(row) ==
  StartTime <= row.opening /\ row.opening <= row.closing /\ row.closing <= clock

WritesOrdered(r) ==
  \A g \in Groups : tx[r].info[g] # None => RowOrdered(tx[r].info[g])

OpeningsStamped(r) ==
  \A g \in Groups : loc[r].read[g] # None => Stamp(loc[r].read[g].opening)

ClosesAfterOpening(r) ==
  pc[r] \in {"score", "close"} =>
    LET info == loc[r].read[GroupOf[input[r].task]]
    IN  info # None => info.opening <= loc[r].now

DeadlineHasPassed(r) ==
  pc[r] = "deadline" =>
    LET g == GroupOf[input[r].task]
    IN  loc[r].read[g].opening + TimeLimit[g] <= clock

HeldTimes(r) ==
  /\ pc[r] # "idle" => StartTime <= clock
  /\ WritesOrdered(r)
  /\ OpeningsStamped(r)
  /\ loc[r].next # None => Stamp(loc[r].next)
  /\ loc[r].now <= clock
  /\ ClosesAfterOpening(r)
  /\ DeadlineHasPassed(r)

TimesInv ==
  /\ \A g \in Groups : teamInfo[g] # None => RowOrdered(teamInfo[g])
  /\ \A r \in Requests : HeldTimes(r)

(* The openings fillTeamInfos returns are stamps when its rows are.        *)
LEMMA TeamInfosStamped ==
  ASSUME NEW rows \in [Groups -> TeamInfoRow \cup {None}],
         NEW S \in SUBSET Groups, clock \in Nat, StartTime <= clock,
         \A g \in Groups : rows[g] # None => RowOrdered(rows[g])
  PROVE  \A g \in Groups : TeamInfos(rows, S)[g] # None =>
           Stamp(TeamInfos(rows, S)[g].opening)
<1> DEFINE stored == {g \in S : rows[g] # None}
           last == CHOOSE g \in stored : \A h \in stored : h <= g
           before(g) == {h \in S \ Sticky : h < g}
           prev(g) == CHOOSE h \in before(g) : \A k \in before(g) : k <= h
           value(g) ==
             IF g \notin S \ Sticky THEN None
             ELSE IF g \in stored
             THEN [opening |-> rows[g].opening, closing |-> rows[last].closing]
             ELSE IF before(g) = {}
             THEN [opening |-> StartTime, closing |-> None]
             ELSE IF prev(g) \in stored
             THEN [opening |-> rows[last].closing, closing |-> None]
             ELSE None
<1>1. TeamInfos(rows, S) = [g \in Groups |-> value(g)]
  BY DEF TeamInfos
<1>2. stored # {} => last \in stored
  <2>1. ASSUME stored # {} PROVE \E m \in stored : \A x \in stored : x <= m
    BY <2>1, LastGroup
  <2> HIDE DEF stored
  <2> QED BY <2>1
<1>3. \A g \in stored : Stamp(rows[g].opening) /\ Stamp(rows[g].closing)
  <2>1. ASSUME NEW g \in stored
        PROVE  Stamp(rows[g].opening) /\ Stamp(rows[g].closing)
    <3>1. rows[g] \in TeamInfoRow /\ RowOrdered(rows[g])
      OBVIOUS
    <3> QED BY <3>1, PlayModeAssumption DEF TeamInfoRow, RowOrdered, Stamp
  <2> QED BY <2>1
<1>4. stored # {} => Stamp(rows[last].closing)
  BY <1>2, <1>3
<1>5. Stamp(StartTime)
  BY PlayModeAssumption DEF Stamp
<1> HIDE DEF last, prev, before, stored
<1>6. ASSUME NEW g \in Groups, value(g) # None PROVE Stamp(value(g).opening)
  BY <1>3, <1>4, <1>5, <1>6
<1> HIDE DEF value
<1> QED BY <1>1, <1>6

LEMMA VisibleOrdered ==
  ASSUME TypeOK, TimesInv, NEW r \in Requests
  PROVE  \A g \in Groups : Visible(r)[g] # None => RowOrdered(Visible(r)[g])
BY DEF TimesInv, HeldTimes, WritesOrdered, Visible

(* The parts of HeldTimes that a step leaves as they are, or renews.       *)
LEMMA WritesStay ==
  ASSUME TypeOK, clock' \in Nat, clock <= clock', NEW r \in Requests,
         WritesOrdered(r), tx'[r].info = tx[r].info
  PROVE  WritesOrdered(r)'
<1>1. ASSUME NEW g \in Groups, tx[r].info[g] # None
      PROVE  LET row == tx[r].info[g]
             IN  /\ StartTime <= row.opening /\ row.opening <= row.closing
                 /\ row.closing <= clock'
  <2>1. tx[r].info[g] \in TeamInfoRow /\ RowOrdered(tx[r].info[g])
    BY <1>1 DEF TypeOK, Writes, WritesOrdered
  <2> QED BY <2>1, PlayModeAssumption DEF TypeOK, TeamInfoRow, RowOrdered
<1> QED BY <1>1 DEF WritesOrdered, RowOrdered

LEMMA WritesAdded ==
  ASSUME TypeOK, clock' = clock, NEW r \in Requests, WritesOrdered(r),
         NEW g \in Groups, NEW row, RowOrdered(row),
         tx'[r].info = [tx[r].info EXCEPT ![g] = row]
  PROVE  WritesOrdered(r)'
<1>1. tx[r].info \in [Groups -> TeamInfoRow \cup {None}]
  BY DEF TypeOK, Writes
<1>2. ASSUME NEW h \in Groups
      PROVE  tx'[r].info[h] = IF h = g THEN row ELSE tx[r].info[h]
  BY <1>1
<1> QED BY <1>2 DEF WritesOrdered, RowOrdered

LEMMA OpeningsStay ==
  ASSUME TypeOK, clock' \in Nat, clock <= clock', NEW r \in Requests,
         OpeningsStamped(r), loc'[r].read = loc[r].read
  PROVE  OpeningsStamped(r)'
<1>1. ASSUME NEW g \in Groups, loc[r].read[g] # None
      PROVE  StartTime <= loc[r].read[g].opening /\ loc[r].read[g].opening <= clock'
  <2>1. loc[r].read[g] \in TeamInfoRead /\ Stamp(loc[r].read[g].opening)
    BY <1>1 DEF TypeOK, Locals, OpeningsStamped
  <2> QED BY <2>1, PlayModeAssumption DEF TypeOK, TeamInfoRead, Stamp
<1> QED BY <1>1 DEF OpeningsStamped, Stamp

LEMMA NextStays ==
  ASSUME TypeOK, clock' \in Nat, clock <= clock', NEW r \in Requests,
         loc[r].next # None => Stamp(loc[r].next), loc'[r].next = loc[r].next
  PROVE  (loc[r].next # None => Stamp(loc[r].next))'
<1>1. loc[r].next \in Nat \cup {None}
  BY DEF TypeOK, Locals
<1> QED BY <1>1, PlayModeAssumption DEF TypeOK, Stamp

LEMMA NowStays ==
  ASSUME TypeOK, clock' \in Nat, clock <= clock', NEW r \in Requests,
         loc[r].now <= clock, loc'[r].now = loc[r].now
  PROVE  loc'[r].now <= clock'
BY DEF TypeOK, Locals

LEMMA TimesUntouched ==
  ASSUME TypeOK, clock' \in Nat, clock <= clock', NEW r \in Requests,
         HeldTimes(r), Untouched(r)
  PROVE  HeldTimes(r)'
<1>1. WritesOrdered(r)' /\ OpeningsStamped(r)'
  BY WritesStay, OpeningsStay DEF HeldTimes, Untouched
<1>2. (loc[r].next # None => Stamp(loc[r].next))' /\ loc'[r].now <= clock'
  BY NextStays, NowStays DEF HeldTimes, Untouched
<1>3. ClosesAfterOpening(r)'
  BY DEF HeldTimes, Untouched, ClosesAfterOpening
<1>4. pc'[r] # "idle" => StartTime <= clock'
  BY PlayModeAssumption DEF TypeOK, HeldTimes, Untouched
<1>5. DeadlineHasPassed(r)'
  <2>1. ASSUME pc[r] = "deadline"
        PROVE  LET g == GroupOf[input[r].task]
               IN  loc[r].read[g].opening + TimeLimit[g] <= clock'
    <3> DEFINE g == GroupOf[input[r].task]
    <3>1. /\ g \in Groups /\ loc[r].read[g] \in TeamInfoRead
          /\ TimeLimit[g] \in Nat
      BY <2>1, PlayModeAssumption DEF TypeOK, Coherent, Locals
    <3>2. loc[r].read[g].opening \in Nat
      BY <3>1 DEF TeamInfoRead
    <3> HIDE DEF g
    <3>3. loc[r].read[g].opening + TimeLimit[g] <= clock
      BY <2>1 DEF HeldTimes, DeadlineHasPassed, g
    <3>4. loc[r].read[g].opening + TimeLimit[g] <= clock'
      BY <3>1, <3>2, <3>3 DEF TypeOK
    <3> QED BY <3>4 DEF g
  <2> QED BY <2>1 DEF DeadlineHasPassed, Untouched
<1> QED BY <1>1, <1>2, <1>3, <1>4, <1>5 DEF HeldTimes

(* A request that forgets its locals holds no times but its writes.        *)
LEMMA TimesForgotten ==
  ASSUME TypeOK, NEW r \in Requests, HeldTimes(r), pc[r] # "idle",
         clock' = clock, pc'[r] \notin {"score", "close", "deadline"}, WritesOrdered(r)',
         loc'[r].read = NoGroups, loc'[r].now = 0, loc'[r].next = None
  PROVE  HeldTimes(r)'
<1>1. OpeningsStamped(r)' /\ ClosesAfterOpening(r)'
  <2>1. ASSUME NEW g \in Groups PROVE loc'[r].read[g] = None
    BY DEF NoGroups
  <2> QED BY <2>1 DEF OpeningsStamped, ClosesAfterOpening
<1> QED BY <1>1 DEF TypeOK, HeldTimes, DeadlineHasPassed

(* A request that goes on with the times it holds.                         *)
LEMMA TimesHeld ==
  ASSUME TypeOK, NEW r \in Requests, HeldTimes(r), pc[r] # "idle",
         clock' = clock, pc'[r] \notin {"score", "close", "deadline"},
         tx'[r].info = tx[r].info, loc'[r].read = loc[r].read,
         loc'[r].now = loc[r].now, loc'[r].next = loc[r].next
  PROVE  HeldTimes(r)'
<1>1. WritesOrdered(r)' /\ OpeningsStamped(r)'
  BY WritesStay, OpeningsStay DEF TypeOK, HeldTimes
<1>2. (loc[r].next # None => Stamp(loc[r].next))' /\ loc'[r].now <= clock'
  BY NextStays, NowStays DEF TypeOK, HeldTimes
<1> QED BY <1>1, <1>2 DEF HeldTimes, ClosesAfterOpening, DeadlineHasPassed

(* A request that reads the team's groups.                                 *)
LEMMA TimesRead ==
  ASSUME TypeOK, TimesInv, NEW r \in Requests, NEW S \in SUBSET Groups,
         pc[r] # "idle", clock' = clock, pc'[r] \notin {"score", "close", "deadline"},
         tx'[r].info = tx[r].info,
         loc'[r].read = TeamInfos(Visible(r), S) \/ loc'[r].read = NoGroups,
         loc'[r].now = loc[r].now, loc'[r].next = loc[r].next
  PROVE  HeldTimes(r)'
<1>0. HeldTimes(r)
  BY DEF TimesInv
<1>1. WritesOrdered(r)'
  BY <1>0, WritesStay DEF TypeOK, HeldTimes
<1>2. (loc[r].next # None => Stamp(loc[r].next))' /\ loc'[r].now <= clock'
  BY <1>0, NextStays, NowStays DEF TypeOK, HeldTimes
<1>3. ASSUME NEW g \in Groups, loc'[r].read[g] # None
      PROVE  Stamp(loc'[r].read[g].opening)
  <2>1. loc'[r].read = TeamInfos(Visible(r), S)
    BY <1>3 DEF NoGroups
  <2>2. /\ Visible(r) \in [Groups -> TeamInfoRow \cup {None}]
        /\ clock \in Nat /\ StartTime <= clock
        /\ \A h \in Groups : Visible(r)[h] # None => RowOrdered(Visible(r)[h])
    BY <1>0, VisibleType, VisibleOrdered DEF TypeOK, HeldTimes
  <2>3. \A h \in Groups : TeamInfos(Visible(r), S)[h] # None =>
          Stamp(TeamInfos(Visible(r), S)[h].opening)
    BY <2>2, TeamInfosStamped
  <2> QED BY <1>3, <2>1, <2>3
<1>4. OpeningsStamped(r)'
  BY <1>3 DEF OpeningsStamped, Stamp
<1> QED BY <1>0, <1>1, <1>2, <1>4 DEF HeldTimes, ClosesAfterOpening, DeadlineHasPassed

(* A request that has found its group overdue.                             *)
LEMMA TimesOverdue ==
  ASSUME TypeOK, TimesInv, NEW r \in Requests, pc[r] = "check", pc'[r] = "deadline",
         clock' = clock, input' = input, loc'[r] = loc[r],
         tx'[r].info = tx[r].info, PastDeadline(r)
  PROVE  HeldTimes(r)'
<1> DEFINE g == GroupOf[input[r].task]
<1>0. HeldTimes(r)
  BY DEF TimesInv
<1>01. /\ clock' \in Nat /\ clock <= clock'
      /\ loc'[r].read = loc[r].read /\ loc'[r].now = loc[r].now
      /\ loc'[r].next = loc[r].next
  BY DEF TypeOK
<1>1. WritesOrdered(r)' /\ OpeningsStamped(r)'
  BY <1>0, <1>01, WritesStay, OpeningsStay DEF HeldTimes
<1>2. (loc[r].next # None => Stamp(loc[r].next))' /\ loc'[r].now <= clock'
  BY <1>0, <1>01, NextStays, NowStays DEF HeldTimes
<1>3. g \in Groups /\ TimeLimit[g] \in Nat /\ loc[r].read[g] \in TeamInfoRead
  BY PlayModeAssumption DEF TypeOK, Coherent, Locals, PastDeadline, Expired
<1>4. loc[r].read[g].opening \in Nat
  BY <1>3 DEF TeamInfoRead
<1>5. loc[r].read[g].opening + TimeLimit[g] < clock
  BY DEF PastDeadline, Expired
<1> HIDE DEF g
<1>6. loc[r].read[g].opening + TimeLimit[g] <= clock
  BY <1>3, <1>4, <1>5 DEF TypeOK
<1>7. DeadlineHasPassed(r)'
  BY <1>6 DEF DeadlineHasPassed, g
<1> QED BY <1>0, <1>1, <1>2, <1>7 DEF HeldTimes, ClosesAfterOpening

(* A time held by an answer in progress comes from the clock.              *)
LEMMA TimesOfCheck ==
  ASSUME TypeOK, TimesInv, NEW r \in Requests, CheckAnswer(r)
  PROVE  HeldTimes(r)'
<1>0. HeldTimes(r) /\ pc[r] = "check" /\ clock' = clock /\ input' = input
  BY DEF TimesInv, CheckAnswer
<1>1. tx'[r].info = tx[r].info
  BY CheckAnswerFields
<1>2. CASE /\ pc'[r] = "refused" /\ loc'[r] = loc[r]
  BY <1>0, <1>1, <1>2, TimesHeld
<1>5. CASE pc'[r] = "deadline" /\ loc'[r] = loc[r] /\ PastDeadline(r)
  BY <1>0, <1>1, <1>5, TimesOverdue
<1>3. CASE pc'[r] \in {"groups", "commit"} /\ Forget(r)
  <2>1. WritesOrdered(r)'
    BY <1>0, <1>1, WritesStay DEF TypeOK, HeldTimes
  <2> QED BY <1>0, <1>3, <2>1, ForgetFields, TimesForgotten
<1>4. CASE /\ pc'[r] = "score" /\ loc'[r].read = loc[r].read
           /\ loc'[r].now = clock /\ loc'[r].next = loc[r].next
  <2>1. WritesOrdered(r)' /\ OpeningsStamped(r)'
    BY <1>0, <1>1, <1>4, WritesStay, OpeningsStay DEF TypeOK, HeldTimes
  <2>2. (loc[r].next # None => Stamp(loc[r].next))'
    BY <1>0, <1>4, NextStays DEF TypeOK, HeldTimes
  <2>3. GroupOf[input[r].task] \in Groups
    BY PlayModeAssumption DEF TypeOK, CheckAnswer, Coherent
  <2>4. ClosesAfterOpening(r)'
    BY <1>0, <1>4, <2>3 DEF HeldTimes, OpeningsStamped, Stamp, ClosesAfterOpening
  <2>5. loc'[r].now <= clock'
    BY <1>0, <1>4 DEF TypeOK
  <2> QED BY <1>0, <1>4, <2>1, <2>2, <2>4, <2>5 DEF HeldTimes, DeadlineHasPassed
<1> QED BY <1>2, <1>3, <1>4, <1>5, CheckAnswerFields

LEMMA TimesOfScore ==
  ASSUME TypeOK, TimesInv, NEW r \in Requests, ScoreAnswer(r)
  PROVE  HeldTimes(r)'
<1>0. HeldTimes(r) /\ pc[r] = "score" /\ clock' = clock /\ input' = input
  BY DEF TimesInv, ScoreAnswer
<1>1. tx'[r].info = tx[r].info
  BY ScoreAnswerFields
<1>2. WritesOrdered(r)'
  BY <1>0, <1>1, WritesStay DEF TypeOK, HeldTimes
<1>3. CASE pc'[r] \in {"close", "panic"} /\ loc'[r] = loc[r]
  <2>1. OpeningsStamped(r)' /\ loc'[r].now <= clock'
    BY <1>0, <1>3, OpeningsStay, NowStays DEF TypeOK, HeldTimes
  <2>2. (loc[r].next # None => Stamp(loc[r].next))'
    BY <1>0, <1>3, NextStays DEF TypeOK, HeldTimes
  <2>3. ClosesAfterOpening(r)'
    BY <1>0, <1>3 DEF HeldTimes, ClosesAfterOpening, DeadlineHasPassed
  <2> QED BY <1>0, <1>2, <1>3, <2>1, <2>2, <2>3 DEF HeldTimes, DeadlineHasPassed
<1>4. CASE pc'[r] \in {"groups", "commit"} /\ Forget(r)
  BY <1>0, <1>2, <1>4, ForgetFields, TimesForgotten
<1> QED BY <1>3, <1>4, ScoreAnswerFields

(* The row a solved group is closed with: its opening was read before the  *)
(* clock was, and the clock only moves forward.                            *)
LEMMA TimesOfClose ==
  ASSUME TypeOK, TimesInv, NEW r \in Requests, CloseGroup(r)
  PROVE  HeldTimes(r)'
<1> DEFINE g == GroupOf[input[r].task]
           row == [opening |-> loc[r].read[g].opening, closing |-> loc[r].now]
<1>0. HeldTimes(r) /\ pc[r] = "close" /\ clock' = clock
  BY DEF TimesInv, CloseGroup
<1>1. /\ g \in Groups /\ loc[r].read[g] # None
      /\ tx'[r].info = [tx[r].info EXCEPT ![g] = row]
      /\ pc'[r] \in {"groups", "commit"} /\ Forget(r)
  BY CloseGroupFields
<1>2. RowOrdered(row)
  <2>1. Stamp(loc[r].read[g].opening) /\ loc[r].read[g].opening <= loc[r].now
    BY <1>0, <1>1 DEF HeldTimes, OpeningsStamped, ClosesAfterOpening
  <2> QED BY <1>0, <2>1 DEF HeldTimes, Stamp, RowOrdered
<1> HIDE DEF g, row
<1>3. WritesOrdered(r)'
  BY <1>0, <1>1, <1>2, WritesAdded DEF HeldTimes
<1> QED BY <1>0, <1>1, <1>3, ForgetFields, TimesForgotten

(* A deadline that is stored before the request is refused has passed.     *)
LEMMA TimesOfDeadline ==
  ASSUME TypeOK, TimesInv, NEW r \in Requests, StoreDeadline(r)
  PROVE  HeldTimes(r)'
<1> DEFINE g == GroupOf[input[r].task]
           opening == loc[r].read[g].opening
           row == [opening |-> opening, closing |-> opening + TimeLimit[g]]
<1>0. HeldTimes(r) /\ pc[r] = "deadline" /\ clock' = clock
  BY DEF TimesInv, StoreDeadline
<1>1. /\ g \in Groups /\ loc[r].read[g] # None
      /\ tx'[r].info = [tx[r].info EXCEPT ![g] = row]
      /\ pc'[r] = "refused" /\ Forget(r)
  BY StoreDeadlineFields
<1>2. RowOrdered(row)
  <2>1. Stamp(opening) /\ opening + TimeLimit[g] <= clock
    BY <1>0, <1>1 DEF HeldTimes, OpeningsStamped, DeadlineHasPassed
  <2>2. TimeLimit[g] \in Nat /\ loc[r].read[g] \in TeamInfoRead
    BY <1>0, <1>1, PlayModeAssumption DEF TypeOK, Coherent, Locals
  <2>3. opening \in Nat
    BY <2>2 DEF TeamInfoRead
  <2> HIDE DEF g, opening
  <2> QED BY <2>1, <2>2, <2>3 DEF Stamp, RowOrdered
<1> HIDE DEF g, row, opening
<1>3. WritesOrdered(r)'
  BY <1>0, <1>1, <1>2, WritesAdded DEF HeldTimes
<1> QED BY <1>0, <1>1, <1>3, ForgetFields, TimesForgotten

(* A deadline that is enforced has passed, and the next group may open at  *)
(* it.                                                                     *)
LEMMA TimesOfFill ==
  ASSUME TypeOK, TimesInv, NEW r \in Requests, FillGroup(r)
  PROVE  HeldTimes(r)'
<1> DEFINE g == loc[r].cursor
           info == InfoAtCursor(r)
           deadline == info.opening + TimeLimit[g]
           row == [opening |-> info.opening, closing |-> deadline]
<1>0. HeldTimes(r) /\ pc[r] = "fill" /\ clock' = clock
  BY DEF TimesInv, FillGroup
<1>1. /\ g \in Groups
      /\ \/ tx'[r].info = tx[r].info
         \/ Overdue(r) /\ tx'[r].info = [tx[r].info EXCEPT ![g] = row]
      /\ \/ pc'[r] \in {"commit", "panic"} /\ Forget(r)
         \/ /\ pc'[r] = "fill"
            /\ loc'[r].read = loc[r].read /\ loc'[r].now = loc[r].now
            /\ \/ loc'[r].next = loc[r].next
               \/ Overdue(r) /\ loc'[r].next = deadline
  BY FillGroupFields
<1>2. ASSUME Overdue(r) PROVE RowOrdered(row) /\ Stamp(deadline)
  <2>1. /\ info # None /\ TimeLimit[g] \in Nat
        /\ info.opening + TimeLimit[g] < loc[r].now
    BY <1>1, <1>2, PlayModeAssumption DEF Overdue, Expired
  <2>2. loc[r].now \in Nat /\ loc[r].now <= clock /\ clock \in Nat
    BY <1>0 DEF TypeOK, Locals, HeldTimes
  <2>3. Stamp(info.opening) /\ info.opening \in Nat
    <3>1. CASE loc[r].read[g] # None
      <4>1. loc[r].read[g] \in TeamInfoRead
        BY <1>1, <3>1 DEF TypeOK, Locals
      <4> QED BY <1>0, <1>1, <3>1, <4>1
              DEF InfoAtCursor, HeldTimes, OpeningsStamped, TeamInfoRead
    <3>2. CASE loc[r].read[g] = None
      <4>1. loc[r].next # None /\ info.opening = loc[r].next
        BY <2>1, <3>2 DEF InfoAtCursor
      <4> QED BY <1>0, <4>1 DEF TypeOK, Locals, HeldTimes
    <3> QED BY <3>1, <3>2
  <2> HIDE DEF info, g
  <2> QED BY <2>1, <2>2, <2>3, PlayModeAssumption DEF RowOrdered, Stamp
<1> HIDE DEF g, row, deadline
<1>3. WritesOrdered(r)'
  BY <1>0, <1>1, <1>2, WritesAdded, WritesStay DEF TypeOK, HeldTimes
<1>4. CASE pc'[r] \in {"commit", "panic"} /\ Forget(r)
  BY <1>0, <1>3, <1>4, ForgetFields, TimesForgotten
<1>5. CASE /\ pc'[r] = "fill"
           /\ loc'[r].read = loc[r].read /\ loc'[r].now = loc[r].now
           /\ \/ loc'[r].next = loc[r].next
              \/ Overdue(r) /\ loc'[r].next = deadline
  <2>1. OpeningsStamped(r)' /\ loc'[r].now <= clock'
    BY <1>0, <1>5, OpeningsStay, NowStays DEF TypeOK, HeldTimes
  <2>2. loc'[r].next # None => Stamp(loc'[r].next)
    BY <1>0, <1>2, <1>5 DEF HeldTimes
  <2> QED BY <1>0, <1>3, <1>5, <2>1, <2>2 DEF HeldTimes, ClosesAfterOpening,
              DeadlineHasPassed, Stamp
<1> QED BY <1>1, <1>4, <1>5

(* A transaction that is aborted was in progress.                          *)
LEMMA AbortsInProgress ==
  ASSUME NEW r \in Requests, FailUpsert(r) \/ DeadlockVictim(r)
  PROVE  Abort(r) /\ clock' = clock /\ pc[r] # "idle"
<1>1. CASE FailUpsert(r)
  BY <1>1 DEF FailUpsert, Abort
<1>2. CASE DeadlockVictim(r)
  <2>1. PICK q : WaitsFor(r, q)
    BY <1>2 DEF DeadlockVictim, InCycle
  <2> QED BY <1>2, <2>1 DEF DeadlockVictim, Abort, WaitsFor
<1> QED BY <1>1, <1>2

LEMMA TimesOfActor ==
  ASSUME TypeOK, TimesInv, NEW r \in Requests, RequestStep(r)
  PROVE  HeldTimes(r)'
<1>0. HeldTimes(r)
  BY DEF TimesInv
<1>1. CASE HandleGet(r) \/ HandleTakeHint(r) \/ HandleTryAnswer(r)
  <2>1. Running /\ pc[r] = "idle" /\ clock' = clock /\ tx' = tx
    BY <1>1 DEF HandleGet, HandleTakeHint, HandleTryAnswer, Begin
  <2>2. pc'[r] \in {"groups", "group", "accepted"}
    BY <1>1, BeginFields
  <2>3. /\ loc'[r].read = loc[r].read /\ loc'[r].now = loc[r].now
        /\ loc'[r].next = loc[r].next
    <3>1. PICK s : loc' = [loc EXCEPT ![r].seen = s]
      BY <1>1 DEF HandleGet, HandleTakeHint, HandleTryAnswer, Begin
    <3>2. loc[r] \in Locals /\ loc'[r] = [loc[r] EXCEPT !.seen = s]
      BY <3>1 DEF TypeOK
    <3> QED BY <3>2, LocalsFields
  <2>4. WritesOrdered(r)' /\ OpeningsStamped(r)'
    BY <1>0, <2>1, <2>3, WritesStay, OpeningsStay DEF TypeOK, HeldTimes
  <2>5. (loc[r].next # None => Stamp(loc[r].next))' /\ loc'[r].now <= clock'
    BY <1>0, <2>1, <2>3, NextStays, NowStays DEF TypeOK, HeldTimes
  <2>6. StartTime <= clock'
    BY <2>1 DEF Running
  <2> QED BY <2>2, <2>4, <2>5, <2>6 DEF HeldTimes, ClosesAfterOpening, DeadlineHasPassed
<1>2. CASE (End(r) \/ FailUpsert(r) \/ DeadlockVictim(r)) /\ clock' = clock
  <2>1. /\ pc'[r] = "idle" \/ (pc'[r] = "failed" /\ pc[r] # "idle")
        /\ loc'[r] = NoLocals /\ tx'[r] = NoWrites
    BY <1>2, EndFields, AbortFields, AbortsInProgress
  <2>2. \A g \in Groups : NoGroups[g] = None
    BY DEF NoGroups
  <2>3. WritesOrdered(r)' /\ OpeningsStamped(r)'
    BY <2>1, <2>2 DEF NoLocals, NoWrites, WritesOrdered, OpeningsStamped
  <2> QED BY <1>0, <1>2, <2>1, <2>3
          DEF TypeOK, NoLocals, HeldTimes, ClosesAfterOpening,
              DeadlineHasPassed
<1>3. CASE ReadAccepted(r)
  <2>1. /\ pc[r] # "idle" /\ clock' = clock /\ tx' = tx
        /\ pc'[r] \in {"groups", "commit", "group"}
    BY <1>3 DEF TypeOK, ReadAccepted, AfterTryAnswer
  <2> QED BY <1>0, <1>3, <2>1, ReadAcceptedFields, TimesHeld
<1>4. CASE CheckUnsolved(r) \/ TakeHint(r)
  <2>1. /\ pc[r] # "idle" /\ clock' = clock /\ loc'[r] = loc[r]
        /\ tx'[r].info = tx[r].info /\ pc'[r] \in {"refused", "take", "commit"}
    BY <1>4, TakeHintFields DEF TypeOK, CheckUnsolved, TakeHint
  <2> QED BY <1>0, <2>1, TimesHeld
<1>5. CASE CheckHint(r)
  <2>1. pc[r] = "check" /\ clock' = clock /\ input' = input /\ tx' = tx
    BY <1>5 DEF CheckHint
  <2>2. WritesOrdered(r)'
    BY <1>0, <2>1, WritesStay DEF TypeOK, HeldTimes
  <2>3. CASE pc'[r] \in {"refused", "unsolved"} /\ Forget(r)
    BY <1>0, <2>1, <2>2, <2>3, ForgetFields, TimesForgotten
  <2>4. CASE pc'[r] = "deadline" /\ loc' = loc /\ PastDeadline(r)
    BY <2>1, <2>4, TimesOverdue
  <2> QED BY <1>5, <2>3, <2>4, CheckHintFields
<1>6. CASE ReadGroup(r)
  <2>1. /\ pc[r] # "idle" /\ clock' = clock /\ tx' = tx /\ pc'[r] = "check"
        /\ {GroupOf[input[r].task]} \in SUBSET Groups
    BY <1>6, PlayModeAssumption DEF TypeOK, ReadGroup, Coherent
  <2> QED BY <1>6, <2>1, ReadGroupFields, TimesRead
<1>7. CASE ReadGroups(r)
  <2>1. pc[r] # "idle" /\ clock' = clock /\ tx' = tx /\ pc'[r] = "now"
    BY <1>7 DEF TypeOK, ReadGroups
  <2> QED BY <1>7, <2>1, ReadGroupsFields, TimesRead
<1>8. CASE ReadClock(r)
  <2>1. /\ pc[r] # "idle" /\ clock' = clock /\ tx' = tx
        /\ pc'[r] \in {"commit", "fill"}
    BY <1>8 DEF TypeOK, ReadClock
  <2>2. /\ loc'[r].read = loc[r].read /\ loc'[r].now = clock
        /\ loc'[r].next = loc[r].next
    BY <1>8, ReadClockFields
  <2>3. WritesOrdered(r)' /\ OpeningsStamped(r)'
    BY <1>0, <2>1, <2>2, WritesStay, OpeningsStay DEF TypeOK, HeldTimes
  <2>4. (loc[r].next # None => Stamp(loc[r].next))'
    BY <1>0, <2>1, <2>2, NextStays DEF TypeOK, HeldTimes
  <2> QED BY <1>0, <2>1, <2>2, <2>3, <2>4
          DEF TypeOK, HeldTimes, ClosesAfterOpening,
              DeadlineHasPassed
<1> QED
  BY <1>1, <1>2, <1>3, <1>4, <1>5, <1>6, <1>7, <1>8,
     AbortsInProgress, TimesOfCheck, TimesOfScore, TimesOfClose, TimesOfDeadline,
     TimesOfFill
     DEF RequestStep, Statement, Commit, ReturnError, Fail, Rollback

(* What is committed is what was visible to the request.                   *)
LEMMA TimesOfRows ==
  ASSUME TypeOK, TimesInv, [Next]_vars
  PROVE  (\A g \in Groups : teamInfo[g] # None => RowOrdered(teamInfo[g]))'
<1>1. CASE teamInfo' = teamInfo
  <2>1. clock' \in Nat /\ clock <= clock'
    BY NextType, TablesKept DEF TypeOK, TablesKeep
  <2>2. ASSUME NEW g \in Groups, teamInfo[g] # None
        PROVE  /\ StartTime <= teamInfo[g].opening
               /\ teamInfo[g].opening <= teamInfo[g].closing
               /\ teamInfo[g].closing <= clock'
    <3>1. teamInfo[g] \in TeamInfoRow /\ RowOrdered(teamInfo[g])
      BY <2>2 DEF TypeOK, TimesInv
    <3> QED BY <2>1, <3>1 DEF TypeOK, TeamInfoRow, RowOrdered
  <2> QED BY <1>1, <2>2 DEF RowOrdered
<1>2. ASSUME NEW r \in Requests, Commit(r)
      PROVE  (\A g \in Groups : teamInfo[g] # None => RowOrdered(teamInfo[g]))'
  <2>1. teamInfo' = Visible(r) /\ clock' = clock
    BY <1>2 DEF Commit
  <2>2. \A g \in Groups : Visible(r)[g] # None => RowOrdered(Visible(r)[g])
    BY VisibleOrdered
  <2> QED BY <2>1, <2>2 DEF RowOrdered
<1> QED BY <1>1, <1>2, NextCases, OnlyCommitWrites

LEMMA TimesNext == TypeOK /\ TimesInv /\ [Next]_vars => TimesInv'
<1> SUFFICES ASSUME TypeOK, TimesInv, [Next]_vars PROVE TimesInv'
  OBVIOUS
<1>0. clock' \in Nat /\ clock <= clock'
  BY NextType, TablesKept DEF TypeOK, TablesKeep
<1>1. ASSUME NEW q \in Requests, Untouched(q) PROVE HeldTimes(q)'
  BY <1>0, <1>1, TimesUntouched DEF TimesInv
<1>2. ASSUME NEW r \in Requests, RequestStep(r), NEW q \in Requests
      PROVE  HeldTimes(q)'
  BY <1>1, <1>2, OthersUntouched, TimesOfActor
<1>3. ASSUME UNCHANGED <<pc, input, loc, tx>>, NEW q \in Requests
      PROVE  HeldTimes(q)'
  BY <1>1, <1>3 DEF Untouched
<1>4. (\A r \in Requests : HeldTimes(r))'
  BY <1>2, <1>3, NextCases
<1> QED BY <1>4, TimesOfRows DEF TimesInv

LEMMA InitOnTime == Init => TimesInv
BY PlayModeAssumption
   DEF Init, NoLocals, NoWrites, NoGroups, TimesInv, HeldTimes,
       WritesOrdered, OpeningsStamped, ClosesAfterOpening, DeadlineHasPassed

-----------------------------------------------------------------------------
(* Limits.  A linear group is closed at its deadline or at a clock that    *)
(* was compared with it: by the answer that then closes it.                *)
WithinLimit(g, row) ==
  Linear /\ TimeLimit[g] # None => row.closing <= row.opening + TimeLimit[g]

WritesWithin(r) ==
  \A g \in Groups : tx[r].info[g] # None => WithinLimit(g, tx[r].info[g])

ClosesWithin(r) ==
  pc[r] \in {"score", "close"} =>
    LET g == GroupOf[input[r].task]
        info == loc[r].read[g]
    IN  Linear /\ TimeLimit[g] # None /\ info # None =>
          loc[r].now <= info.opening + TimeLimit[g]

LimitInv ==
  /\ \A g \in Groups : teamInfo[g] # None => WithinLimit(g, teamInfo[g])
  /\ \A r \in Requests : WritesWithin(r) /\ ClosesWithin(r)

LEMMA WithinSame ==
  ASSUME NEW r \in Requests, WritesWithin(r), tx'[r].info = tx[r].info
  PROVE  WritesWithin(r)'
BY DEF WritesWithin, WithinLimit

LEMMA WithinAdded ==
  ASSUME TypeOK, NEW r \in Requests, WritesWithin(r),
         NEW g \in Groups, NEW row, WithinLimit(g, row),
         tx'[r].info = [tx[r].info EXCEPT ![g] = row]
  PROVE  WritesWithin(r)'
<1>1. tx[r].info \in [Groups -> TeamInfoRow \cup {None}]
  BY DEF TypeOK, Writes
<1>2. ASSUME NEW h \in Groups
      PROVE  tx'[r].info[h] = IF h = g THEN row ELSE tx[r].info[h]
  BY <1>1
<1> QED BY <1>2 DEF WritesWithin, WithinLimit

LEMMA LimitOfAnswer ==
  ASSUME TypeOK, SparesInv, LimitInv, NEW r \in Requests,
         CheckAnswer(r) \/ ScoreAnswer(r) \/ CloseGroup(r) \/ StoreDeadline(r)
  PROVE  WritesWithin(r)' /\ ClosesWithin(r)'
<1> DEFINE g == GroupOf[input[r].task]
           info == loc[r].read[g]
<1>00. input[r].task \in Tasks
  <2>1. pc[r] \in {"check", "score", "close", "deadline"}
    BY DEF CheckAnswer, ScoreAnswer, CloseGroup, StoreDeadline
  <2> QED BY <2>1 DEF TypeOK, Coherent
<1>0. /\ WritesWithin(r) /\ ClosesWithin(r) /\ g \in Groups
      /\ info \in TeamInfoRead \cup {None}
      /\ TimeLimit[g] \in Nat \cup {None}
  BY <1>00, PlayModeAssumption DEF LimitInv, TypeOK, Locals
<1>1. CASE CheckAnswer(r)
  <2>1. input' = input /\ pc[r] = "check" /\ clock' = clock
    BY <1>1 DEF CheckAnswer
  <2>2. /\ tx'[r].info = tx[r].info
        /\ \/ pc'[r] \in {"refused", "deadline", "groups", "commit"}
           \/ /\ pc'[r] = "score"
              /\ loc'[r].read = loc[r].read /\ loc'[r].now = clock
              /\ Linear /\ g \notin Sticky => StillOpen(r)
    BY <1>1, CheckAnswerFields
  <2>3. ASSUME pc'[r] = "score", Linear, TimeLimit[g] # None, info # None
        PROVE  loc'[r].now <= info.opening + TimeLimit[g]
    <3>1. g \notin Sticky
      BY <2>1, <2>3 DEF SparesInv, Spares
    <3>2. ~(info.opening + TimeLimit[g] < clock)
      BY <2>2, <2>3, <3>1 DEF StillOpen, Expired
    <3>3. info.opening \in Nat /\ TimeLimit[g] \in Nat /\ loc'[r].now = clock
      BY <1>0, <2>2, <2>3 DEF TeamInfoRead
    <3> HIDE DEF g, info
    <3> QED BY <3>2, <3>3 DEF TypeOK
  <2>4. WritesWithin(r)'
    BY <1>0, <2>2, WithinSame
  <2> QED BY <2>1, <2>2, <2>3, <2>4 DEF ClosesWithin
<1>2. CASE ScoreAnswer(r)
  <2>1. input' = input /\ pc[r] = "score"
    BY <1>2 DEF ScoreAnswer
  <2>2. /\ tx'[r].info = tx[r].info
        /\ \/ pc'[r] \in {"close", "panic"} /\ loc'[r] = loc[r]
           \/ pc'[r] \in {"groups", "commit"}
    BY <1>2, ScoreAnswerFields
  <2>3. WritesWithin(r)'
    BY <1>0, <2>2, WithinSame
  <2> QED BY <1>0, <2>1, <2>2, <2>3 DEF ClosesWithin
<1>3. CASE CloseGroup(r)
  <2> DEFINE row == [opening |-> info.opening, closing |-> loc[r].now]
  <2>1. /\ info # None /\ tx'[r].info = [tx[r].info EXCEPT ![g] = row]
        /\ pc'[r] \in {"groups", "commit"}
    BY <1>3, CloseGroupFields
  <2>2. Linear /\ TimeLimit[g] # None => loc[r].now <= info.opening + TimeLimit[g]
    BY <1>0, <1>3, <2>1 DEF CloseGroup, ClosesWithin
  <2>3. WithinLimit(g, row)
    BY <2>2 DEF WithinLimit
  <2> HIDE DEF g, row
  <2> QED BY <1>0, <2>1, <2>3, WithinAdded DEF ClosesWithin
<1>4. CASE StoreDeadline(r)
  <2> DEFINE row == [opening |-> info.opening,
                     closing |-> info.opening + TimeLimit[g]]
  <2>1. /\ info # None /\ tx'[r].info = [tx[r].info EXCEPT ![g] = row]
        /\ pc'[r] = "refused"
    BY <1>4, StoreDeadlineFields
  <2>2. WithinLimit(g, row)
    <3>1. TimeLimit[g] # None => info.opening + TimeLimit[g] \in Nat
      BY <1>0, <2>1 DEF TeamInfoRead
    <3> HIDE DEF g, info
    <3> QED BY <3>1 DEF WithinLimit
  <2> HIDE DEF g, row
  <2> QED BY <1>0, <2>1, <2>2, WithinAdded DEF ClosesWithin
<1> QED BY <1>1, <1>2, <1>3, <1>4

LEMMA LimitOfFill ==
  ASSUME TypeOK, LimitInv, NEW r \in Requests, FillGroup(r)
  PROVE  WritesWithin(r)' /\ ClosesWithin(r)'
<1> DEFINE g == loc[r].cursor
           info == InfoAtCursor(r)
           deadline == info.opening + TimeLimit[g]
           row == [opening |-> info.opening, closing |-> deadline]
<1>1. /\ g \in Groups
      /\ \/ tx'[r].info = tx[r].info
         \/ /\ Overdue(r) /\ row \in TeamInfoRow
            /\ tx'[r].info = [tx[r].info EXCEPT ![g] = row]
      /\ pc'[r] \in {"commit", "panic", "fill"}
  BY FillGroupFields
<1>2. WithinLimit(g, row) \/ tx'[r].info = tx[r].info
  <2>1. row.closing = row.opening + TimeLimit[g]
    OBVIOUS
  <2>2. row \in TeamInfoRow => row.closing \in Nat
    BY DEF TeamInfoRow
  <2> HIDE DEF row, g
  <2> QED BY <1>1, <2>1, <2>2 DEF WithinLimit
<1> HIDE DEF row, g
<1>3. WritesWithin(r)'
  BY <1>1, <1>2, WithinSame, WithinAdded DEF LimitInv
<1> QED BY <1>1, <1>3 DEF ClosesWithin

LEMMA LimitOfActor ==
  ASSUME TypeOK, SparesInv, LimitInv, NEW r \in Requests, RequestStep(r)
  PROVE  WritesWithin(r)' /\ ClosesWithin(r)'
<1>1. CASE HandleGet(r) \/ HandleTakeHint(r) \/ HandleTryAnswer(r) \/ End(r)
           \/ Abort(r)
  <2>1. /\ tx'[r] = NoWrites
        /\ pc'[r] \in {"groups", "group", "accepted", "idle", "failed"}
    BY <1>1, BeginFields, EndFields, AbortFields
  <2>2. \A g \in Groups : NoWrites.info[g] = None
    BY DEF NoWrites, NoGroups
  <2> QED BY <2>1, <2>2 DEF WritesWithin, ClosesWithin
<1>2. CASE ReadAccepted(r) \/ ReadGroup(r) \/ CheckHint(r) \/ CheckUnsolved(r)
           \/ TakeHint(r) \/ ReadGroups(r) \/ ReadClock(r)
  <2>1. /\ tx'[r].info = tx[r].info
        /\ pc'[r] \notin {"score", "close"}
    BY <1>2, TakeHintFields, CheckHintFields
       DEF TypeOK, ReadAccepted, AfterTryAnswer, ReadGroup, CheckHint,
           CheckUnsolved, TakeHint, ReadGroups, ReadClock
  <2> QED BY <2>1, WithinSame DEF LimitInv, ClosesWithin
<1> QED
  BY <1>1, <1>2, LimitOfAnswer, LimitOfFill
     DEF RequestStep, Statement, Commit, ReturnError, Fail, FailUpsert,
         DeadlockVictim, Rollback

LEMMA LimitNext ==
  TypeOK /\ SparesInv /\ LimitInv /\ [Next]_vars => LimitInv'
<1> SUFFICES ASSUME TypeOK, SparesInv, LimitInv, [Next]_vars PROVE LimitInv'
  OBVIOUS
<1>1. ASSUME NEW q \in Requests, Untouched(q)
      PROVE  WritesWithin(q)' /\ ClosesWithin(q)'
  BY <1>1, WithinSame DEF LimitInv, ClosesWithin, Untouched
<1>2. ASSUME NEW r \in Requests, RequestStep(r), NEW q \in Requests
      PROVE  WritesWithin(q)' /\ ClosesWithin(q)'
  BY <1>1, <1>2, OthersUntouched, LimitOfActor
<1>3. ASSUME UNCHANGED <<pc, input, loc, tx>>, NEW q \in Requests
      PROVE  WritesWithin(q)' /\ ClosesWithin(q)'
  BY <1>1, <1>3 DEF Untouched
<1>4. ASSUME NEW r \in Requests, Commit(r), NEW g \in Groups, teamInfo'[g] # None
      PROVE  WithinLimit(g, teamInfo'[g])
  <2>1. \/ teamInfo'[g] = tx[r].info[g] /\ tx[r].info[g] # None
        \/ teamInfo'[g] = teamInfo[g]
    BY <1>4 DEF Commit, Visible
  <2> QED BY <1>4, <2>1 DEF LimitInv, WritesWithin
<1>5. ASSUME NEW g \in Groups, teamInfo'[g] # None
      PROVE  WithinLimit(g, teamInfo'[g])
  BY <1>4, <1>5, NextCases, OnlyCommitWrites DEF LimitInv
<1>6. (\A g \in Groups : teamInfo[g] # None => WithinLimit(g, teamInfo[g]))'
  BY <1>5 DEF WithinLimit
<1> QED BY <1>2, <1>3, <1>6, NextCases DEF LimitInv

LEMMA InitWithin == Init => LimitInv
BY DEF Init, LimitInv, WritesWithin, ClosesWithin, NoWrites, NoGroups

(* A group closes neither before it opens, nor in the future, nor in a     *)
(* linear quest later than its limit allows, though its times come from    *)
(* clocks and rows that different requests have read.                      *)
THEOREM TimesStayOrdered == Spec => []TimesAreOrdered
<1>1. Init => LateInv /\ SparesInv /\ TimesInv /\ LimitInv
  BY InitNotLate, InitSpares, InitOnTime, InitWithin
<1>2. TypeOK /\ LateInv /\ SparesInv /\ TimesInv /\ LimitInv /\ [Next]_vars =>
        (LateInv /\ SparesInv /\ TimesInv /\ LimitInv)'
  BY LateNext, SparesNext, TimesNext, LimitNext
<1>3. TimesInv /\ LimitInv => TimesAreOrdered
  BY DEF TimesInv, RowOrdered, LimitInv, WithinLimit, ClosedGroups, TimesFit,
         TimesAreOrdered
<1> QED BY <1>1, <1>2, <1>3, TypeCorrect, PTL DEF Spec

-----------------------------------------------------------------------------
(* The cursor, the accepted tasks a request knows and the groups it read,  *)
(* step by step.                                                           *)
LEMMA KnownFields ==
  ASSUME NEW l \in Locals
  PROVE  /\ \A x : [l EXCEPT !.seen = x].known = l.known
         /\ \A x : [l EXCEPT !.known = x].known = x
         /\ \A x : [l EXCEPT !.read = x].known = l.known
         /\ \A x : [l EXCEPT !.now = x].known = l.known
         /\ \A x, y : [l EXCEPT !.now = x, !.cursor = y].known = l.known
         /\ \A x, y : [l EXCEPT !.cursor = x, !.next = y].known = l.known
BY DEF Locals

(* The steps between the arrival of a request and its reading of the       *)
(* groups, the closing of a solved group apart, write no team info.        *)
Quiet(r) ==
  \/ ReadAccepted(r) \/ ReadGroup(r) \/ CheckAnswer(r) \/ ScoreAnswer(r)
  \/ CheckHint(r) \/ CheckUnsolved(r) \/ TakeHint(r)

LEMMA QuietFields ==
  ASSUME TypeOK, NEW r \in Requests, Quiet(r)
  PROVE  /\ input' = input /\ tx'[r].info = tx[r].info
         /\ loc'[r].cursor = loc[r].cursor
         /\ \/ loc'[r].read = loc[r].read \/ loc'[r].read = NoGroups
            \/ loc'[r].read = TeamInfos(Visible(r), {GroupOf[input[r].task]})
         /\ pc'[r] \notin {"now", "fill", "idle"}
<1>0. loc[r] \in Locals
  BY DEF TypeOK
<1>1. CASE ReadAccepted(r)
  <2> DEFINE l == [loc[r] EXCEPT !.known = AcceptedTasks]
  <2>1. loc'[r] = loc[r] \/ loc'[r] = l
    BY <1>1 DEF TypeOK, ReadAccepted
  <2>2. l.cursor = loc[r].cursor
    BY <1>0, LocalsFields
  <2> HIDE DEF l
  <2> QED BY <1>1, <2>1, <2>2, ReadAcceptedFields
          DEF TypeOK, ReadAccepted, AfterTryAnswer
<1>2. CASE ReadGroup(r)
  <2> DEFINE read == TeamInfos(Visible(r), {GroupOf[input[r].task]})
             l == [loc[r] EXCEPT !.read = read]
  <2>1. loc'[r] = l /\ input' = input /\ tx' = tx /\ pc'[r] = "check"
    BY <1>2 DEF TypeOK, ReadGroup
  <2> HIDE DEF read
  <2>2. l.cursor = loc[r].cursor /\ l.read = read
    BY <1>0, LocalsFields
  <2> HIDE DEF l
  <2> QED BY <2>1, <2>2 DEF read
<1>3. CASE CheckAnswer(r)
  <2>1. input' = input /\ tx'[r].info = tx[r].info
    BY <1>3, CheckAnswerFields DEF CheckAnswer
  <2>2. \/ loc'[r] = loc[r] \/ Forget(r)
        \/ loc' = [loc EXCEPT ![r].now = clock]
    BY <1>3 DEF CheckAnswer
  <2>3. loc' = [loc EXCEPT ![r].now = clock] =>
          loc'[r].cursor = loc[r].cursor /\ loc'[r].read = loc[r].read
    <3> DEFINE l == [loc[r] EXCEPT !.now = clock]
    <3>1. loc' = [loc EXCEPT ![r].now = clock] => loc'[r] = l
      BY DEF TypeOK
    <3>2. l.cursor = loc[r].cursor /\ l.read = loc[r].read
      BY <1>0, LocalsFields
    <3> HIDE DEF l
    <3> QED BY <3>1, <3>2
  <2> QED BY <1>3, <2>1, <2>2, <2>3, ForgetFields, CheckAnswerFields
<1>4. CASE ScoreAnswer(r)
  BY <1>4, ScoreAnswerFields, ForgetFields DEF ScoreAnswer
<1>5. CASE CheckHint(r)
  BY <1>5, CheckHintFields, ForgetFields DEF CheckHint
<1>6. CASE CheckUnsolved(r)
  BY <1>6 DEF TypeOK, CheckUnsolved
<1>7. CASE TakeHint(r)
  BY <1>7, TakeHintFields DEF TakeHint
<1> QED BY <1>1, <1>2, <1>3, <1>4, <1>5, <1>6, <1>7 DEF Quiet

(* One turn of fillAnswerData's loop.                                      *)
Onward(r, next) ==
  LET g == loc[r].cursor
  IN  \/ pc'[r] = "commit" /\ g = NumGroups /\ Forget(r)
      \/ /\ pc'[r] = "fill" /\ g # NumGroups
         /\ loc'[r].cursor = g + 1 /\ loc'[r].next = next
         /\ loc'[r].read = loc[r].read /\ loc'[r].known = loc[r].known

LEMMA FillGroupCases ==
  ASSUME TypeOK, NEW r \in Requests, FillGroup(r)
  PROVE  LET g == loc[r].cursor
             info == InfoAtCursor(r)
             deadline == info.opening + TimeLimit[g]
             row == [opening |-> info.opening, closing |-> deadline]
         IN  \/ /\ NotGated(r) \/ (info # None /\ info.closing # None)
                /\ tx' = tx /\ Onward(r, loc[r].next)
             \/ /\ Overdue(r) /\ row \in TeamInfoRow
                /\ tx'[r].info = [tx[r].info EXCEPT ![g] = row]
                /\ deadline \in Nat /\ Onward(r, deadline)
             \/ /\ ~NotGated(r) /\ info = None /\ tx' = tx /\ Forget(r)
                /\ pc'[r] = IF TimeLimit[g] = None THEN "commit" ELSE "panic"
             \/ tx' = tx /\ Forget(r) /\ pc'[r] = "commit"
<1> DEFINE g == loc[r].cursor
           info == InfoAtCursor(r)
           deadline == info.opening + TimeLimit[g]
           row == [opening |-> info.opening, closing |-> deadline]
<1>1. g \in Groups /\ loc[r] \in Locals /\ r \in DOMAIN pc /\ r \in DOMAIN loc
  BY DEF TypeOK, FillGroup, Coherent
<1>2. Overdue(r) => row \in TeamInfoRow /\ deadline \in Nat
  <2>1. loc[r].next \in Nat \cup {None} /\ loc[r].read[g] \in TeamInfoRead \cup {None}
    BY <1>1 DEF Locals
  <2>2. info \in TeamInfoRead \cup {None}
    BY <2>1 DEF InfoAtCursor, TeamInfoRead
  <2> QED BY <1>1, <2>2, PlayModeAssumption
          DEF Overdue, Expired, TeamInfoRead, TeamInfoRow
<1>3. ASSUME NEW next,
             IF g = NumGroups THEN Goto(r, "commit") /\ Forget(r)
             ELSE /\ Goto(r, "fill")
                  /\ loc' = [loc EXCEPT ![r].cursor = g + 1, ![r].next = next]
      PROVE  Onward(r, next)
  <2>1. CASE g = NumGroups
    BY <1>1, <1>3, <2>1 DEF Onward
  <2>2. CASE g # NumGroups
    <3> DEFINE k == g + 1
               l == [loc[r] EXCEPT !.cursor = k, !.next = next]
    <3>1. loc'[r] = l /\ pc'[r] = "fill"
      BY <1>1, <1>3, <2>2
    <3> HIDE DEF k
    <3>2. /\ l.read = loc[r].read /\ l.cursor = k /\ l.next = next
          /\ l.known = loc[r].known
      BY <1>1, LocalsFields, KnownFields
    <3> HIDE DEF l
    <3> QED BY <2>2, <3>1, <3>2 DEF Onward, k
  <2> QED BY <2>1, <2>2
<1>4. ASSUME Overdue(r), UpsertTeamInfo(r, g, row)
      PROVE  tx'[r].info = [tx[r].info EXCEPT ![g] = row]
  <2>1. row \in TeamInfoRow
    BY <1>2, <1>4
  <2> HIDE DEF row, g
  <2> QED BY <1>1, <1>4, <2>1, UpsertType
<1> HIDE DEF row
<1>5. \/ /\ NotGated(r) \/ (info # None /\ info.closing # None)
         /\ UNCHANGED tx /\ Onward(r, loc[r].next)
      \/ Overdue(r) /\ UpsertTeamInfo(r, g, row) /\ Onward(r, deadline)
      \/ /\ ~NotGated(r) /\ info = None
         /\ Goto(r, IF TimeLimit[g] = None THEN "commit" ELSE "panic")
         /\ Forget(r) /\ UNCHANGED tx
      \/ Goto(r, "commit") /\ Forget(r) /\ UNCHANGED tx
  BY <1>3 DEF FillGroup, row
<1> HIDE DEF g, info, deadline
<1>6. \/ /\ NotGated(r) \/ (info # None /\ info.closing # None)
         /\ tx' = tx /\ Onward(r, loc[r].next)
      \/ /\ Overdue(r) /\ row \in TeamInfoRow
         /\ tx'[r].info = [tx[r].info EXCEPT ![g] = row]
         /\ deadline \in Nat /\ Onward(r, deadline)
      \/ /\ ~NotGated(r) /\ info = None /\ tx' = tx /\ Forget(r)
         /\ pc'[r] = IF TimeLimit[g] = None THEN "commit" ELSE "panic"
      \/ tx' = tx /\ Forget(r) /\ pc'[r] = "commit"
  BY <1>1, <1>2, <1>4, <1>5
<1> QED BY <1>6 DEF g, info, deadline, row

-----------------------------------------------------------------------------
(* The game.  A group is reached when every group in order before it is    *)
(* closed, and reached by a request when the request sees them closed.     *)
Reached(g) == \A h \in Ordered : h < g => teamInfo[h] # None
ReachedBy(r, g) == \A h \in Ordered : h < g => Visible(r)[h] # None

(* A request asks about a group that was reached, closes groups it has     *)
(* reached, and walks over closed groups only.                             *)
OnTrack(r) ==
  /\ input[r].task \in Tasks => Reached(GroupOf[input[r].task])
  /\ \A g \in Groups : tx[r].info[g] # None => g \in Ordered /\ ReachedBy(r, g)
  /\ ReachedBy(r, loc[r].cursor)
  /\ \A g \in Sticky : loc[r].read[g] = None
  /\ pc[r] \in {"now", "fill"} => \A g \in Ordered :
       FoundClosed(loc[r].read, g) => Visible(r)[g] # None

TrackInv ==
  /\ \A g \in shown : Reached(g)
  /\ \A g \in Groups : teamInfo[g] # None => g \in Ordered /\ Reached(g)
  /\ \A t \in AcceptedTasks : Reached(GroupOf[t])
  /\ \A r \in Requests : OnTrack(r)

(* What a request sees closed stays closed: rows and writes only add up.   *)
LEMMA SeenClosedStays ==
  ASSUME TypeOK, TablesKeep, NEW r \in Requests,
         \A g \in Groups : tx[r].info[g] # None => tx'[r].info[g] # None
  PROVE  /\ \A g \in Groups : Visible(r)[g] # None => Visible(r)'[g] # None
         /\ \A g : ReachedBy(r, g) => ReachedBy(r, g)'
<1>1. ASSUME NEW g \in Groups, Visible(r)[g] # None PROVE Visible(r)'[g] # None
  BY <1>1 DEF TablesKeep, Visible
<1> QED BY <1>1 DEF ReachedBy, Ordered

LEMMA ReachedStays ==
  ASSUME TypeOK, TablesKeep, NEW g, Reached(g)
  PROVE  Reached(g)'
BY DEF TablesKeep, Reached, Ordered

LEMMA ReachedIsSeen ==
  ASSUME TypeOK, NEW r \in Requests, NEW g, Reached(g)
  PROVE  ReachedBy(r, g)
BY DEF Reached, ReachedBy, Visible, Ordered

LEMMA NothingBeforeFirst ==
  ASSUME NEW r
  PROVE  ReachedBy(r, 0) /\ ReachedBy(r, 1)
BY DEF ReachedBy, Ordered, Groups

(* A request that writes no team info and does not look at the groups.     *)
LEMMA TrackKept ==
  ASSUME TypeOK, TablesKeep, NEW r \in Requests, OnTrack(r),
         input'[r] = input[r], tx'[r].info = tx[r].info,
         loc'[r].cursor = loc[r].cursor \/ loc'[r].cursor = 1,
         loc'[r].read = loc[r].read \/ loc'[r].read = NoGroups,
         pc'[r] \in {"now", "fill"} => pc[r] \in {"now", "fill"}
  PROVE  OnTrack(r)'
<1>1. /\ \A g \in Groups : Visible(r)[g] # None => Visible(r)'[g] # None
      /\ \A g : ReachedBy(r, g) => ReachedBy(r, g)'
  BY SeenClosedStays
<1>2. (input[r].task \in Tasks => Reached(GroupOf[input[r].task]))'
  BY DEF OnTrack, Reached, TablesKeep, Ordered
<1>3. (\A g \in Groups : tx[r].info[g] # None => g \in Ordered /\ ReachedBy(r, g))'
  BY <1>1 DEF OnTrack
<1>4. \A h \in Ordered : ~(h < 1)
  BY DEF Ordered, Groups
<1>5. ReachedBy(r, loc[r].cursor)'
  BY <1>1, <1>4 DEF OnTrack, ReachedBy, Ordered
<1>6. \A g \in Groups : NoGroups[g] = None
  BY DEF NoGroups
<1>7. \A g \in Sticky : loc'[r].read[g] = None
  BY <1>6, PlayModeAssumption DEF OnTrack
<1>8. ASSUME pc'[r] \in {"now", "fill"}, NEW g \in Ordered, FoundClosed(loc'[r].read, g)
      PROVE  Visible(r)'[g] # None
  <2>1. loc'[r].read = loc[r].read
    BY <1>6, <1>8 DEF FoundClosed, Ordered
  <2> QED BY <1>1, <1>8, <2>1 DEF OnTrack, Ordered
<1> QED BY <1>2, <1>3, <1>5, <1>7, <1>8 DEF OnTrack, FoundClosed

(* A request that reads the groups finds closed what it sees closed.       *)
LEMMA TrackRead ==
  ASSUME TypeOK, TablesKeep, NEW r \in Requests, OnTrack(r),
         NEW S \in SUBSET Groups, UNCHANGED teamInfo,
         input'[r] = input[r], tx'[r].info = tx[r].info,
         loc'[r].cursor = loc[r].cursor,
         loc'[r].read = TeamInfos(Visible(r), S)
  PROVE  OnTrack(r)'
<1>1. /\ \A g \in Groups : Visible(r)[g] # None => Visible(r)'[g] # None
      /\ \A g : ReachedBy(r, g) => ReachedBy(r, g)'
  BY SeenClosedStays
<1>2. (input[r].task \in Tasks => Reached(GroupOf[input[r].task]))'
  BY DEF OnTrack, Reached, TablesKeep, Ordered
<1>3. (\A g \in Groups : tx[r].info[g] # None => g \in Ordered /\ ReachedBy(r, g))'
  BY <1>1 DEF OnTrack
<1>4. ReachedBy(r, loc[r].cursor)'
  BY <1>1 DEF OnTrack, ReachedBy, Ordered
<1>5. Visible(r) \in [Groups -> TeamInfoRow \cup {None}]
  BY VisibleType
<1>6. \A g \in Sticky : loc'[r].read[g] = None
  BY <1>5, TeamInfosFacts, PlayModeAssumption
<1>7. ASSUME NEW g \in Ordered, FoundClosed(loc'[r].read, g)
      PROVE  Visible(r)'[g] # None
  <2>1. g \in S \ Sticky
    BY <1>5, <1>7, TeamInfosFacts DEF FoundClosed, Ordered
  <2>2. Visible(r)[g] # None
    BY <1>5, <1>7, <2>1, TeamInfosFacts
  <2> QED BY <1>1, <2>1, <2>2
<1> QED BY <1>2, <1>3, <1>4, <1>6, <1>7 DEF OnTrack, FoundClosed

(* A request that closes a group it has reached.                           *)
LEMMA TrackClose ==
  ASSUME TypeOK, TablesKeep, NEW r \in Requests, OnTrack(r), UNCHANGED teamInfo,
         NEW g \in Ordered, ReachedBy(r, g), NEW row \in TeamInfoRow,
         input'[r] = input[r], tx'[r].info = [tx[r].info EXCEPT ![g] = row],
         \/ loc'[r].cursor = loc[r].cursor
         \/ loc[r].cursor = g /\ loc'[r].cursor = g + 1,
         loc'[r].read = loc[r].read \/ loc'[r].read = NoGroups,
         pc'[r] \in {"now", "fill"} => pc[r] \in {"now", "fill"}
  PROVE  OnTrack(r)'
<1>0. /\ g \in Groups /\ row # None
      /\ tx[r].info \in [Groups -> TeamInfoRow \cup {None}]
  BY PlayModeAssumption DEF TypeOK, Writes, Ordered, TeamInfoRow, TeamInfoRead
<1>1. /\ tx'[r].info[g] # None
      /\ \A h \in Groups : h # g => tx'[r].info[h] = tx[r].info[h]
  BY <1>0
<1>2. /\ \A h \in Groups : Visible(r)[h] # None => Visible(r)'[h] # None
      /\ \A h : ReachedBy(r, h) => ReachedBy(r, h)'
  BY <1>1, SeenClosedStays
<1>3. (input[r].task \in Tasks => Reached(GroupOf[input[r].task]))'
  BY DEF OnTrack, Reached, TablesKeep, Ordered
<1>4. ASSUME NEW h \in Groups, tx'[r].info[h] # None
      PROVE  h \in Ordered /\ ReachedBy(r, h)'
  BY <1>1, <1>2, <1>4 DEF OnTrack
<1>5. ReachedBy(r, loc[r].cursor)'
  <2>1. CASE loc'[r].cursor = loc[r].cursor
    BY <1>2, <2>1 DEF OnTrack, ReachedBy, Ordered
  <2>2. CASE loc'[r].cursor = g + 1
    <3>1. ASSUME NEW h \in Ordered, h < g + 1 PROVE h = g \/ h < g
      BY <3>1 DEF Ordered, Groups
    <3>2. Visible(r)'[g] # None
      BY <1>0, <1>1 DEF Visible
    <3> QED BY <1>2, <2>2, <3>1, <3>2 DEF ReachedBy, Ordered
  <2> QED BY <2>1, <2>2
<1>6. \A h \in Groups : NoGroups[h] = None
  BY DEF NoGroups
<1>7. \A h \in Sticky : loc'[r].read[h] = None
  BY <1>6, PlayModeAssumption DEF OnTrack
<1>8. ASSUME pc'[r] \in {"now", "fill"}, NEW h \in Ordered, FoundClosed(loc'[r].read, h)
      PROVE  Visible(r)'[h] # None
  <2>1. loc'[r].read = loc[r].read
    BY <1>6, <1>8 DEF FoundClosed, Ordered
  <2> QED BY <1>2, <1>8, <2>1 DEF OnTrack, Ordered
<1> QED BY <1>3, <1>4, <1>5, <1>7, <1>8 DEF OnTrack, FoundClosed

(* The loop moves on over a sticky or a closed group.                      *)
LEMMA TrackPassed ==
  ASSUME TypeOK, TablesKeep, NEW r \in Requests, OnTrack(r), UNCHANGED teamInfo,
         loc[r].cursor \in Groups,
         loc[r].cursor \in Ordered => Visible(r)[loc[r].cursor] # None,
         pc[r] = "fill",
         input'[r] = input[r], tx' = tx,
         loc'[r].cursor = loc[r].cursor + 1, loc'[r].read = loc[r].read
  PROVE  OnTrack(r)'
<1>1. /\ \A g \in Groups : Visible(r)[g] # None => Visible(r)'[g] # None
      /\ \A g : ReachedBy(r, g) => ReachedBy(r, g)'
  BY SeenClosedStays
<1>2. (input[r].task \in Tasks => Reached(GroupOf[input[r].task]))'
  BY DEF OnTrack, Reached, TablesKeep, Ordered
<1>3. (\A g \in Groups : tx[r].info[g] # None => g \in Ordered /\ ReachedBy(r, g))'
  BY <1>1 DEF OnTrack
<1>4. ReachedBy(r, loc[r].cursor)'
  <2>1. ASSUME NEW h \in Ordered, h < loc[r].cursor + 1
        PROVE  h = loc[r].cursor \/ h < loc[r].cursor
    BY <2>1 DEF Ordered, Groups
  <2> QED BY <1>1, <2>1 DEF OnTrack, ReachedBy, Ordered
<1>5. (pc[r] \in {"now", "fill"} => \A g \in Ordered :
         FoundClosed(loc[r].read, g) => Visible(r)[g] # None)'
  BY <1>1 DEF OnTrack, FoundClosed, Ordered
<1> QED BY <1>2, <1>3, <1>4, <1>5 DEF OnTrack

(* One turn of the loop in a linear quest.                                 *)
LEMMA TrackOfFill ==
  ASSUME TypeOK, TablesKeep, Linear, NEW r \in Requests, OnTrack(r), FillGroup(r)
  PROVE  OnTrack(r)'
<1> DEFINE g == loc[r].cursor
           info == InfoAtCursor(r)
           deadline == info.opening + TimeLimit[g]
           row == [opening |-> info.opening, closing |-> deadline]
<1>1. /\ g \in Groups /\ pc[r] = "fill" /\ input' = input /\ teamInfo' = teamInfo
  BY DEF TypeOK, FillGroup, Coherent
<1>2. Forget(r) => loc'[r].read = NoGroups /\ loc'[r].cursor = loc[r].cursor
  BY ForgetFields
<1>3. CASE Forget(r) /\ tx' = tx /\ pc'[r] \in {"commit", "panic"}
  BY <1>1, <1>2, <1>3, TrackKept
<1>4. CASE /\ NotGated(r) \/ (info # None /\ info.closing # None)
           /\ tx' = tx /\ Onward(r, loc[r].next)
  <2>1. g \in Ordered => Visible(r)[g] # None
    <3>1. ASSUME g \in Ordered, info # None, info.closing # None
          PROVE  FoundClosed(loc[r].read, g)
      BY <3>1 DEF InfoAtCursor, FoundClosed
    <3> QED BY <1>1, <1>4, <3>1 DEF OnTrack, NotGated, Ordered
  <2>2. CASE pc'[r] = "commit" /\ Forget(r)
    BY <1>3, <1>4, <2>2
  <2>3. CASE loc'[r].cursor = g + 1 /\ loc'[r].read = loc[r].read
    BY <1>1, <1>4, <2>1, <2>3, TrackPassed
  <2> QED BY <1>4, <2>2, <2>3 DEF Onward
<1>5. CASE /\ Overdue(r) /\ row \in TeamInfoRow
           /\ tx'[r].info = [tx[r].info EXCEPT ![g] = row] /\ Onward(r, deadline)
  <2>1. g \in Ordered /\ ReachedBy(r, g)
    BY <1>1, <1>5 DEF Overdue, NotGated, Ordered, OnTrack
  <2>2. \/ pc'[r] = "commit" /\ loc'[r].cursor = g /\ loc'[r].read = NoGroups
        \/ loc'[r].cursor = g + 1 /\ loc'[r].read = loc[r].read
    BY <1>2, <1>5 DEF Onward
  <2> HIDE DEF row, deadline, info
  <2> QED BY <1>1, <1>5, <2>1, <2>2, TrackClose
<1>6. CASE /\ ~NotGated(r) /\ info = None /\ tx' = tx /\ Forget(r)
           /\ pc'[r] = IF TimeLimit[g] = None THEN "commit" ELSE "panic"
  <2>1. pc'[r] \in {"commit", "panic"}
    BY <1>6
  <2> QED BY <1>3, <1>6, <2>1
<1> HIDE DEF g, row, info, deadline
<1>7. \/ /\ NotGated(r) \/ (info # None /\ info.closing # None)
         /\ tx' = tx /\ Onward(r, loc[r].next)
      \/ /\ Overdue(r) /\ row \in TeamInfoRow
         /\ tx'[r].info = [tx[r].info EXCEPT ![g] = row] /\ Onward(r, deadline)
      \/ /\ ~NotGated(r) /\ info = None /\ tx' = tx /\ Forget(r)
         /\ pc'[r] = IF TimeLimit[g] = None THEN "commit" ELSE "panic"
      \/ tx' = tx /\ Forget(r) /\ pc'[r] = "commit"
  BY FillGroupCases DEF g, row, info, deadline
<1> QED BY <1>3, <1>4, <1>5, <1>6, <1>7

(* An honest request arrives about a group the team was shown.             *)
LEMMA TrackOfBegin ==
  ASSUME TypeOK, TrackInv, TablesKeep, Honest, NEW r \in Requests,
         HandleGet(r) \/ HandleTakeHint(r) \/ HandleTryAnswer(r)
  PROVE  OnTrack(r)'
<1>1. PICK in, label : Begin(r, in, label)
  BY DEF HandleGet, HandleTakeHint, HandleTryAnswer
<1>2. /\ input'[r] = in /\ tx' = tx /\ teamInfo' = teamInfo /\ pc[r] = "idle"
      /\ in.task # None => GroupOf[in.task] \in shown
  BY <1>1 DEF TypeOK, Begin
<1>3. loc[r] = NoLocals /\ tx[r] = NoWrites /\ loc[r] \in Locals
  BY <1>2 DEF TypeOK, Coherent
<1>4. loc'[r].cursor = 0 /\ loc'[r].read = NoGroups
  <2> DEFINE seen == Seen(in.task)
             l == [loc[r] EXCEPT !.seen = seen]
  <2>1. loc'[r] = l
    BY <1>1 DEF TypeOK, Begin
  <2> HIDE DEF seen
  <2>2. l.cursor = loc[r].cursor /\ l.read = loc[r].read
    BY <1>3, LocalsFields
  <2> HIDE DEF l
  <2> QED BY <1>3, <2>1, <2>2 DEF NoLocals
<1>5. \A g \in Groups : NoGroups[g] = None
  BY DEF NoGroups
<1>6. pc'[r] \notin {"now", "fill"}
  BY BeginFields
<1>7. (input[r].task \in Tasks => Reached(GroupOf[input[r].task]))'
  BY <1>2, PlayModeAssumption DEF TrackInv, Reached
<1>8. tx'[r].info = NoGroups
  BY <1>2, <1>3 DEF NoWrites
<1>9. ReachedBy(r, loc[r].cursor)'
  BY <1>4 DEF ReachedBy, Ordered, Groups
<1> QED BY <1>4, <1>5, <1>6, <1>7, <1>8, <1>9, PlayModeAssumption DEF OnTrack

LEMMA TrackOfEnd ==
  ASSUME TypeOK, NEW r \in Requests, End(r)
  PROVE  OnTrack(r)'
<1>1. /\ pc'[r] = "idle" /\ input'[r] = NoInput /\ loc'[r] = NoLocals
      /\ tx'[r] = NoWrites
  BY EndFields
<1>2. \A g \in Groups : NoGroups[g] = None
  BY DEF NoGroups
<1>3. ReachedBy(r, loc[r].cursor)'
  BY <1>1 DEF NoLocals, ReachedBy, Ordered, Groups
<1>4. NoInput.task \notin Tasks /\ NoLocals.read = NoGroups /\ NoWrites.info = NoGroups
  BY PlayModeAssumption DEF NoInput, NoLocals, NoWrites
<1> QED BY <1>1, <1>2, <1>3, <1>4, PlayModeAssumption DEF OnTrack

LEMMA TrackOfAbort ==
  ASSUME TypeOK, TablesKeep, NEW r \in Requests, OnTrack(r), Abort(r)
  PROVE  OnTrack(r)'
<1>1. /\ pc'[r] = "failed" /\ input'[r] = input[r] /\ loc'[r] = NoLocals
      /\ tx'[r] = NoWrites
  BY AbortFields
<1>2. \A g \in Groups : NoGroups[g] = None
  BY DEF NoGroups
<1>3. ReachedBy(r, loc[r].cursor)'
  BY <1>1 DEF NoLocals, ReachedBy, Ordered, Groups
<1>4. NoLocals.read = NoGroups /\ NoWrites.info = NoGroups
  BY DEF NoLocals, NoWrites
<1>5. (input[r].task \in Tasks => Reached(GroupOf[input[r].task]))'
  BY <1>1 DEF OnTrack, Reached, TablesKeep, Ordered
<1> QED BY <1>1, <1>2, <1>3, <1>4, <1>5, PlayModeAssumption DEF OnTrack

LEMMA TrackOfActor ==
  ASSUME TypeOK, TrackInv, TablesKeep, Linear, Honest, NEW r \in Requests,
         RequestStep(r)
  PROVE  OnTrack(r)'
<1>0. OnTrack(r)
  BY DEF TrackInv
<1>1. CASE Quiet(r)
  <2>1. UNCHANGED teamInfo
    BY <1>1 DEF Quiet, ReadAccepted, ReadGroup, CheckAnswer, ScoreAnswer,
                CheckHint, CheckUnsolved, TakeHint
  <2>2. CASE loc'[r].read = loc[r].read \/ loc'[r].read = NoGroups
    BY <1>0, <1>1, <2>2, QuietFields, TrackKept
  <2>3. CASE loc'[r].read = TeamInfos(Visible(r), {GroupOf[input[r].task]})
    <3> DEFINE S == {GroupOf[input[r].task]} \cap Groups
    <3>1. CASE input[r].task \in Tasks
      <4>1. {GroupOf[input[r].task]} = S
        BY <3>1, PlayModeAssumption
      <4>2. S \in SUBSET Groups /\ loc'[r].read = TeamInfos(Visible(r), S)
        BY <2>3, <4>1
      <4> HIDE DEF S
      <4> QED BY <1>0, <1>1, <2>1, <4>2, QuietFields, TrackRead
    <3>2. CASE input[r].task \notin Tasks
      <4>1. ~ReadGroup(r)
        BY <3>2 DEF TypeOK, ReadGroup, Coherent
      <4>2. loc'[r].read = loc[r].read \/ loc'[r].read = NoGroups
        <5>1. CASE TakeHint(r) \/ CheckUnsolved(r)
          BY <5>1, TakeHintFields DEF CheckUnsolved
        <5>2. CASE ReadAccepted(r)
          BY <5>2, ReadAcceptedFields
        <5>3. CASE CheckHint(r)
          BY <5>3, CheckHintFields, ForgetFields
        <5>4. CASE CheckAnswer(r)
          BY <5>4, CheckAnswerFields, ForgetFields
        <5>5. CASE ScoreAnswer(r)
          BY <5>5, ScoreAnswerFields, ForgetFields
        <5> QED BY <1>1, <4>1, <5>1, <5>2, <5>3, <5>4, <5>5 DEF Quiet
      <4> QED BY <2>2, <4>2
    <3> QED BY <3>1, <3>2
  <2> QED BY <1>1, <2>2, <2>3, QuietFields
<1>2. CASE CloseGroup(r)
  <2> DEFINE g == GroupOf[input[r].task]
             row == [opening |-> loc[r].read[g].opening, closing |-> loc[r].now]
  <2>1. /\ g \in Groups /\ row \in TeamInfoRow /\ loc[r].read[g] # None
        /\ tx'[r].info = [tx[r].info EXCEPT ![g] = row]
        /\ pc'[r] \in {"groups", "commit"} /\ Forget(r)
    BY <1>2, CloseGroupFields
  <2>2. loc'[r].cursor = loc[r].cursor /\ loc'[r].read = NoGroups
    BY <2>1, ForgetFields
  <2>3. /\ input[r].task \in Tasks /\ input' = input /\ teamInfo' = teamInfo
    BY <1>2 DEF TypeOK, CloseGroup, Coherent
  <2>4. g \in Ordered
    BY <1>0, <2>1 DEF OnTrack, Ordered
  <2>5. Reached(g)
    BY <1>0, <2>3 DEF OnTrack
  <2> HIDE DEF g, row
  <2>6. ReachedBy(r, g)
    BY <2>5, ReachedIsSeen
  <2> QED BY <1>0, <2>1, <2>2, <2>3, <2>4, <2>6, TrackClose
<1>3. CASE ReadGroups(r)
  <2> DEFINE l == [loc[r] EXCEPT !.read = TeamInfos(Visible(r), Groups)]
  <2>1. /\ loc'[r] = l /\ input' = input /\ tx' = tx /\ teamInfo' = teamInfo
    BY <1>3 DEF TypeOK, ReadGroups
  <2>2. l.cursor = loc[r].cursor /\ l.read = TeamInfos(Visible(r), Groups)
    BY LocalsFields DEF TypeOK
  <2> HIDE DEF l
  <2> QED BY <1>0, <2>1, <2>2, TrackRead
<1>4. CASE ReadClock(r)
  <2> DEFINE l == [loc[r] EXCEPT !.now = clock, !.cursor = 1]
  <2>1. /\ loc'[r] = l /\ input' = input /\ tx' = tx /\ pc[r] = "now"
    BY <1>4 DEF TypeOK, ReadClock
  <2>2. l.cursor = 1 /\ l.read = loc[r].read
    BY LocalsFields DEF TypeOK
  <2> HIDE DEF l
  <2> QED BY <1>0, <2>1, <2>2, TrackKept
<1>5. CASE FillGroup(r)
  BY <1>0, <1>5, TrackOfFill
<1>6. CASE End(r)
  BY <1>6, TrackOfEnd
<1>7. CASE HandleGet(r) \/ HandleTakeHint(r) \/ HandleTryAnswer(r)
  BY <1>7, TrackOfBegin
<1>8. CASE StoreDeadline(r)
  <2> DEFINE g == GroupOf[input[r].task]
             opening == loc[r].read[g].opening
             row == [opening |-> opening, closing |-> opening + TimeLimit[g]]
  <2>1. /\ g \in Groups /\ row \in TeamInfoRow /\ loc[r].read[g] # None
        /\ tx'[r].info = [tx[r].info EXCEPT ![g] = row]
        /\ pc'[r] = "refused" /\ Forget(r)
    BY <1>8, StoreDeadlineFields
  <2>2. loc'[r].cursor = loc[r].cursor /\ loc'[r].read = NoGroups
    BY <2>1, ForgetFields
  <2>3. /\ input[r].task \in Tasks /\ input' = input /\ teamInfo' = teamInfo
    BY <1>8 DEF TypeOK, StoreDeadline, Coherent
  <2>4. g \in Ordered
    BY <1>0, <2>1 DEF OnTrack, Ordered
  <2>5. Reached(g)
    BY <1>0, <2>3 DEF OnTrack
  <2> HIDE DEF g, row, opening
  <2>6. ReachedBy(r, g)
    BY <2>5, ReachedIsSeen
  <2> QED BY <1>0, <2>1, <2>2, <2>3, <2>4, <2>6, TrackClose
<1>9. CASE Abort(r)
  BY <1>0, <1>9, TrackOfAbort
<1> QED
  BY <1>1, <1>2, <1>3, <1>4, <1>5, <1>6, <1>7, <1>8, <1>9
     DEF RequestStep, Statement, Quiet, Commit, ReturnError, Fail, FailUpsert,
         DeadlockVictim, Rollback

(* What a commit adds to the tables: the groups and the answer of its      *)
(* transaction.                                                            *)
LEMMA CommitAdds ==
  ASSUME TypeOK, NEW r \in Requests, Commit(r)
  PROVE  /\ \A g \in Groups : teamInfo'[g] # None <=>
              teamInfo[g] # None \/ tx[r].info[g] # None
         /\ tx[r].answer = None => answers' = answers
         /\ tx[r].answer # None =>
              /\ input[r].task \in Tasks
              /\ answers' = [answers EXCEPT ![input[r].task] =
                               Append(answers[input[r].task], tx[r].answer)]
         /\ AcceptedTasks' = AcceptedTasks \cup
              (IF tx[r].answer = None THEN {} ELSE {input[r].task})
<1> DEFINE t == input[r].task
           w == tx[r].answer
<1>1. \A g \in Groups : teamInfo'[g] # None <=>
        teamInfo[g] # None \/ tx[r].info[g] # None
  BY DEF Commit, Visible
<1>2. w = None => answers' = answers
  BY DEF Commit
<1>3. w # None => /\ t \in Tasks
                  /\ answers' = [answers EXCEPT ![t] = Append(answers[t], w)]
  BY DEF TypeOK, Coherent, Commit, StoreAnswer
<1>4. AcceptedTasks' = AcceptedTasks \cup (IF w = None THEN {} ELSE {t})
  <2>1. CASE w = None
    BY <1>2, <2>1 DEF AcceptedTasks
  <2>2. CASE w # None
    <3>1. w \in AnswerRow /\ answers[t] \in Seq(AnswerRow)
      BY <1>3, <2>2 DEF TypeOK, Writes
    <3> HIDE DEF t, w
    <3>2. Append(answers[t], w) # <<>>
      BY <3>1
    <3>3. \A u \in Tasks : answers'[u] # <<>> <=> answers[u] # <<>> \/ u = t
      BY <1>3, <2>2, <3>2 DEF TypeOK
    <3> QED BY <1>3, <2>2, <3>3 DEF AcceptedTasks
  <2> QED BY <2>1, <2>2
<1> QED BY <1>1, <1>2, <1>3, <1>4

LEMMA TrackOfTables ==
  ASSUME TypeOK, TrackInv, TablesKeep, [Next]_vars
  PROVE  /\ \A g \in shown' : Reached(g)'
         /\ \A g \in Groups : teamInfo'[g] # None => g \in Ordered /\ Reached(g)'
         /\ \A t \in AcceptedTasks' : Reached(GroupOf[t])'
<1>1. \A g : Reached(g) => Reached(g)'
  BY ReachedStays
<1>2. CASE UNCHANGED <<shown, teamInfo, answers>>
  BY <1>1, <1>2 DEF TrackInv, AcceptedTasks
<1>3. ASSUME NEW r \in Requests, Commit(r)
      PROVE  /\ \A g \in shown' : Reached(g)'
             /\ \A g \in Groups : teamInfo'[g] # None => g \in Ordered /\ Reached(g)'
             /\ \A t \in AcceptedTasks' : Reached(GroupOf[t])'
  <2>1. OnTrack(r) /\ teamInfo' = Visible(r) /\ shown' = shown \cup AnsweredGroups(r)
    BY <1>3 DEF TrackInv, Commit
  <2>2. \A g : ReachedBy(r, g) => Reached(g)'
    BY <2>1 DEF ReachedBy, Reached
  <2>3. ASSUME NEW g \in shown' PROVE Reached(g)'
    <3>1. CASE g \in shown
      BY <1>1, <3>1 DEF TrackInv
    <3>2. CASE g \in Groups /\ g <= loc[r].cursor
      <4>1. ASSUME NEW h \in Ordered, h < g PROVE h < loc[r].cursor
        BY <3>2, <4>1 DEF TypeOK, Locals, Groups, Ordered
      <4>2. ReachedBy(r, g)
        BY <2>1, <4>1 DEF OnTrack, ReachedBy
      <4> QED BY <2>2, <4>2
    <3> QED BY <2>1, <2>3, <3>1, <3>2 DEF AnsweredGroups
  <2>4. ASSUME NEW g \in Groups, teamInfo'[g] # None PROVE g \in Ordered /\ Reached(g)'
    BY <1>1, <1>3, <2>1, <2>2, <2>4, CommitAdds DEF TrackInv, OnTrack
  <2>5. ASSUME NEW t \in AcceptedTasks' PROVE Reached(GroupOf[t])'
    <3>1. t \in AcceptedTasks \/ (t = input[r].task /\ input[r].task \in Tasks)
      BY <1>3, <2>5, CommitAdds
    <3>2. Reached(GroupOf[t])
      BY <2>1, <3>1 DEF TrackInv, OnTrack
    <3> QED BY <1>1, <3>2
  <2> QED BY <2>3, <2>4, <2>5
<1>4. ASSUME NEW r \in Requests, RequestStep(r), ~Commit(r)
      PROVE  UNCHANGED <<shown, teamInfo, answers>>
  BY <1>4 DEF RequestStep, HandleGet, HandleTakeHint, HandleTryAnswer, Begin,
     Statement, ReadAccepted, ReadGroup, CheckAnswer, ScoreAnswer, CloseGroup,
     CheckHint, StoreDeadline, CheckUnsolved, TakeHint, ReadGroups, ReadClock,
     FillGroup, ReturnError, Fail, FailUpsert, DeadlockVictim, Abort, Rollback
<1>5. FinishQuest \/ Tick \/ UNCHANGED vars => UNCHANGED <<shown, teamInfo, answers>>
  BY DEF FinishQuest, Tick, vars
<1> QED BY <1>2, <1>3, <1>4, <1>5 DEF Next, RequestStep

LEMMA TrackNext ==
  ASSUME Linear, Honest
  PROVE  TypeOK /\ TrackInv /\ [Next]_vars => TrackInv'
<1> SUFFICES ASSUME TypeOK, TrackInv, [Next]_vars PROVE TrackInv'
  OBVIOUS
<1>0. TablesKeep
  BY TablesKept
<1>1. ASSUME NEW q \in Requests, Untouched(q) PROVE OnTrack(q)'
  BY <1>0, <1>1, TrackKept DEF TrackInv, Untouched
<1>2. ASSUME NEW r \in Requests, RequestStep(r), NEW q \in Requests
      PROVE  OnTrack(q)'
  BY <1>0, <1>1, <1>2, OthersUntouched, TrackOfActor
<1>3. ASSUME UNCHANGED <<pc, input, loc, tx>>, NEW q \in Requests
      PROVE  OnTrack(q)'
  BY <1>1, <1>3 DEF Untouched
<1>4. (\A r \in Requests : OnTrack(r))'
  BY <1>2, <1>3, NextCases
<1>5. /\ (\A g \in shown : Reached(g))'
      /\ (\A g \in Groups : teamInfo[g] # None => g \in Ordered /\ Reached(g))'
      /\ (\A t \in AcceptedTasks : Reached(GroupOf[t]))'
  BY <1>0, TrackOfTables
<1> QED BY <1>4, <1>5 DEF TrackInv

LEMMA InitOnTrack == Init => TrackInv
<1> SUFFICES ASSUME Init PROVE TrackInv
  OBVIOUS
<1>1. \A g \in Groups : NoGroups[g] = None
  BY DEF NoGroups
<1>2. AcceptedTasks = {}
  BY DEF Init, AcceptedTasks
<1>3. ASSUME NEW r \in Requests PROVE OnTrack(r)
  <2>1. ReachedBy(r, loc[r].cursor)
    BY DEF Init, NoLocals, ReachedBy, Ordered, Groups
  <2>2. /\ input[r].task \notin Tasks /\ loc[r].read = NoGroups
        /\ tx[r].info = NoGroups /\ pc[r] = "idle"
    BY PlayModeAssumption DEF Init, NoInput, NoLocals, NoWrites
  <2> QED BY <1>1, <2>1, <2>2, PlayModeAssumption DEF OnTrack
<1> QED BY <1>1, <1>2, <1>3 DEF Init, TrackInv

(* The progress the tests expect: when members only answer in groups they  *)
(* were shown, a group of a linear quest is closed, or has an accepted     *)
(* answer, only when every group before it is closed.                      *)
THEOREM HonestTeamsProgressInOrder ==
  ASSUME Honest
  PROVE  Spec => []ProgressInOrder
<1>1. CASE Linear
  <2>1. TrackInv => ProgressInOrder
    BY PlayModeAssumption DEF TrackInv, Reached, Ordered, ProgressInOrder, TasksOf
  <2> QED BY <1>1, <2>1, InitOnTrack, TrackNext, TypeCorrect, PTL DEF Spec
<1>2. CASE ~Linear
  <2>1. ProgressInOrder
    BY <1>2 DEF ProgressInOrder
  <2> QED BY <2>1, PTL
<1> QED BY <1>1, <1>2

(* A commit is a move of the game: it accepts the answer of its request,   *)
(* whose group was reached, and closes groups that are next in order.  Any *)
(* other step leaves the game as it stands.                                *)
LEMMA CommitIsPlay ==
  ASSUME TypeOK, TrackInv, NEW r \in Requests, Commit(r)
  PROVE  Game!Play
<1> DEFINE T == IF tx[r].answer = None THEN {} ELSE {input[r].task}
           G == {g \in Groups : tx[r].info[g] # None}
<1>0. OnTrack(r) /\ Game!Ordered = Ordered
  BY DEF TrackInv, Game!Ordered, Ordered, Groups
<1>1. T \in SUBSET Tasks
  BY CommitAdds
<1>2. G \in SUBSET Ordered
  BY <1>0 DEF OnTrack
<1>3. \A t, u \in T : t = u
  OBVIOUS
<1>4. ASSUME NEW t \in T, NEW h \in Ordered, h < GroupOf[t]
      PROVE  h \in ClosedGroups
  BY <1>0, <1>1, <1>4 DEF OnTrack, Reached, Ordered, ClosedGroups
<1>5. ASSUME NEW g \in G, NEW h \in Ordered, h < g PROVE h \in ClosedGroups \cup G
  BY <1>0, <1>5 DEF OnTrack, ReachedBy, Visible, Ordered, ClosedGroups
<1>6. AcceptedTasks' = AcceptedTasks \cup T
  BY CommitAdds
<1>7. ClosedGroups' = ClosedGroups \cup G
  BY CommitAdds DEF ClosedGroups
<1> HIDE DEF T, G
<1>8. \A t \in T : GroupOf[t] \in Game!Ordered => Game!Reached(GroupOf[t])
  BY <1>0, <1>4 DEF Game!Reached, ClosedGroups
<1>9. \A g \in G, h \in Game!Ordered : h < g => h \in ClosedGroups \cup G
  BY <1>0, <1>5
<1>10. T \in SUBSET Tasks /\ G \in SUBSET Game!Ordered
  BY <1>0, <1>1, <1>2
<1>11. \E U \in SUBSET Tasks, H \in SUBSET Game!Ordered :
         /\ \A t, u \in U : t = u
         /\ \A t \in U : GroupOf[t] \in Game!Ordered => Game!Reached(GroupOf[t])
         /\ \A g \in H, h \in Game!Ordered : h < g => h \in ClosedGroups \cup H
         /\ AcceptedTasks' = AcceptedTasks \cup U
         /\ ClosedGroups' = ClosedGroups \cup H
  <2> USE <1>10
  <2> WITNESS T \in SUBSET Tasks, G \in SUBSET Game!Ordered
  <2> QED BY <1>3, <1>6, <1>7, <1>8, <1>9
<1> QED BY <1>11 DEF Game!Play, ClosedGroups

LEMMA NextPlays ==
  ASSUME TypeOK, TrackInv, [Next]_vars
  PROVE  [Game!Play]_<<AcceptedTasks, ClosedGroups>>
<1>1. ASSUME UNCHANGED <<teamInfo, answers>>
      PROVE  UNCHANGED <<AcceptedTasks, ClosedGroups>>
  BY <1>1 DEF AcceptedTasks, ClosedGroups
<1> QED BY <1>1, NextCases, OnlyCommitWrites, CommitIsPlay

(* Played by honest members, in any number of requests at the same time, a *)
(* linear quest is the game of LinearGame: groups close one after the      *)
(* other and stay closed, and answers are accepted in reached groups only. *)
THEOREM HonestTeamsPlayTheGame ==
  ASSUME Linear, Honest
  PROVE  Spec => PlaysTheGame
<1>1. Init => Game!Init
  BY DEF Init, NoGroups, AcceptedTasks, ClosedGroups, Game!Init
<1>2. TypeOK /\ TrackInv /\ [Next]_vars =>
        [Game!Play]_<<AcceptedTasks, ClosedGroups>>
  BY NextPlays
<1> QED
  BY <1>1, <1>2, InitOnTrack, TrackNext, TypeCorrect, PTL
     DEF Spec, PlaysTheGame, Game!Spec

-----------------------------------------------------------------------------
(* No nil TeamInfo.  GetTaskGroup returns a TeamInfo for any group that is *)
(* not sticky.  In a linear quest every group the page's loop has left was *)
(* found closed, or handed its deadline on as the opening of the next.     *)
PanicIsSticky(r) ==
  pc[r] = "panic" =>
    LET g == GroupOf[input[r].task]
    IN  /\ input[r].op = "answer" /\ g \in Sticky
        /\ TasksOf(g) \subseteq loc[r].known \cup {input[r].task}

Supplied(r) ==
  /\ PanicIsSticky(r)
  /\ pc[r] \in {"check", "score"} /\ GroupOf[input[r].task] \in Ordered =>
       loc[r].read[GroupOf[input[r].task]] # None
  /\ Linear /\ pc[r] \in {"now", "fill"} => \A g \in Ordered :
       loc[r].read[g] = None =>
         \E h \in Ordered : h < g /\ ~FoundClosed(loc[r].read, h)
  /\ Linear /\ pc[r] = "fill" => \A h \in Ordered : h < loc[r].cursor =>
       loc[r].next # None \/ FoundClosed(loc[r].read, h)

SupplyInv == \A r \in Requests : Supplied(r)

(* A step to a place where nothing more is asked of the request.           *)
LEMMA SupplyForgotten ==
  ASSUME NEW r \in Requests,
         pc'[r] \notin {"panic", "check", "score", "now", "fill"}
  PROVE  Supplied(r)'
BY DEF Supplied, PanicIsSticky

LEMMA SupplyOfAnswer ==
  ASSUME TypeOK, SupplyInv, NEW r \in Requests,
         ReadAccepted(r) \/ ReadGroup(r) \/ CheckAnswer(r) \/ ScoreAnswer(r)
         \/ CloseGroup(r) \/ StoreDeadline(r)
  PROVE  Supplied(r)'
<1> DEFINE t == input[r].task
           g == GroupOf[t]
<1>0. /\ Supplied(r) /\ t \in Tasks /\ g \in Groups /\ input' = input
  BY PlayModeAssumption DEF TypeOK, SupplyInv, Coherent, ReadAccepted, ReadGroup,
     CheckAnswer, ScoreAnswer, CloseGroup, StoreDeadline
<1>1. CASE ReadAccepted(r)
  <2>1. pc'[r] \in {"groups", "commit", "group"}
    BY <1>1 DEF TypeOK, ReadAccepted, AfterTryAnswer
  <2> QED BY <2>1, SupplyForgotten
<1>2. CASE ReadGroup(r)
  <2>1. pc'[r] = "check" /\ loc'[r].read = TeamInfos(Visible(r), {g})
    BY <1>2, ReadGroupFields DEF TypeOK, ReadGroup
  <2>2. g \in Ordered => loc'[r].read[g] # None
    <3> HIDE DEF g
    <3> QED BY <2>1, VisibleType, AloneIsFound
  <2> QED BY <1>0, <2>1, <2>2 DEF Supplied, PanicIsSticky
<1>3. CASE CheckAnswer(r)
  <2>1. /\ pc[r] = "check"
        /\ \/ pc'[r] \in {"refused", "deadline", "groups", "commit"}
           \/ pc'[r] = "score" /\ loc'[r].read = loc[r].read
    BY <1>3, CheckAnswerFields DEF CheckAnswer
  <2>2. CASE pc'[r] = "score" /\ loc'[r].read = loc[r].read
    BY <1>0, <2>1, <2>2 DEF Supplied, PanicIsSticky
  <2> QED BY <2>1, <2>2, SupplyForgotten
<1>4. CASE ScoreAnswer(r)
  <2>1. /\ pc[r] = "score" /\ input[r].op = "answer" /\ r \in DOMAIN pc
        /\ g \in Ordered => loc[r].read[g] # None
    BY <1>0, <1>4 DEF TypeOK, Coherent, ScoreAnswer, Supplied
  <2>2. CASE pc'[r] = "panic"
    <3>1. /\ AllSolved(g, loc[r].known \cup {t}) /\ loc[r].read[g] = None
          /\ loc' = loc
      BY <1>4, <2>1, <2>2 DEF ScoreAnswer, AfterTryAnswer
    <3>2. g \in Sticky
      BY <1>0, <2>1, <3>1 DEF Ordered
    <3> QED BY <1>0, <2>1, <2>2, <3>1, <3>2 DEF Supplied, PanicIsSticky, AllSolved
  <2>3. CASE pc'[r] # "panic"
    BY <1>4, <2>3, ScoreAnswerFields, SupplyForgotten
  <2> QED BY <2>2, <2>3
<1>5. CASE CloseGroup(r) \/ StoreDeadline(r)
  BY <1>5, CloseGroupFields, StoreDeadlineFields, SupplyForgotten
<1> QED BY <1>1, <1>2, <1>3, <1>4, <1>5

LEMMA SupplyOfHint ==
  ASSUME TypeOK, NEW r \in Requests,
         CheckHint(r) \/ CheckUnsolved(r) \/ TakeHint(r)
  PROVE  Supplied(r)'
<1>1. pc'[r] \in {"refused", "deadline", "unsolved", "take", "commit"}
  BY CheckHintFields, TakeHintFields DEF TypeOK, CheckUnsolved
<1> QED BY <1>1, SupplyForgotten

LEMMA SupplyOfPage ==
  ASSUME TypeOK, SupplyInv, NEW r \in Requests, ReadGroups(r) \/ ReadClock(r)
  PROVE  Supplied(r)'
<1>0. Supplied(r) /\ loc[r] \in Locals
  BY DEF TypeOK, SupplyInv
<1>1. CASE ReadGroups(r)
  <2> DEFINE read == IF Linear THEN TeamInfos(Visible(r), Groups) ELSE NoGroups
  <2>1. pc'[r] = "now" /\ loc'[r].read = read
    BY <1>1, ReadGroupsFields DEF TypeOK, ReadGroups
  <2>2. ASSUME Linear, NEW g \in Ordered, read[g] = None
        PROVE  \E h \in Ordered : h < g /\ ~FoundClosed(read, h)
    <3>1. read = TeamInfos(Visible(r), Groups) /\ Ordered = Groups \ Sticky
      BY <2>2 DEF Ordered
    <3> HIDE DEF read
    <3>2. PICK h \in Ordered : h < g /\ Visible(r)[h] = None
      BY <2>2, <3>1, VisibleType, TeamInfosFacts DEF Ordered
    <3>3. ~FoundClosed(read, h)
      BY <3>1, <3>2, VisibleType, TeamInfosFacts
    <3> QED BY <3>2, <3>3
  <2> HIDE DEF read
  <2> QED BY <2>1, <2>2 DEF Supplied, PanicIsSticky, FoundClosed
<1>2. CASE ReadClock(r)
  <2> DEFINE l == [loc[r] EXCEPT !.now = clock, !.cursor = 1]
  <2>1. loc'[r] = l /\ pc'[r] \in {"fill", "commit"} /\ pc[r] = "now"
    BY <1>2 DEF TypeOK, ReadClock
  <2>2. l.read = loc[r].read /\ l.cursor = 1
    BY <1>0, LocalsFields
  <2>3. \A h \in Ordered : ~(h < 1)
    BY DEF Ordered, Groups
  <2> HIDE DEF l
  <2> QED BY <1>0, <2>1, <2>2, <2>3 DEF Supplied, PanicIsSticky, FoundClosed
<1> QED BY <1>1, <1>2

(* A group the loop reaches has a TeamInfo, or inherits its opening.       *)
LEMMA SupplyOfFill ==
  ASSUME TypeOK, SupplyInv, NEW r \in Requests, FillGroup(r)
  PROVE  Supplied(r)'
<1> DEFINE g == loc[r].cursor
           info == InfoAtCursor(r)
           deadline == info.opening + TimeLimit[g]
           row == [opening |-> info.opening, closing |-> deadline]
<1>1. /\ g \in Groups /\ pc[r] = "fill" /\ Supplied(r)
      /\ loc[r].next \in Nat \cup {None}
  BY DEF TypeOK, FillGroup, Coherent, SupplyInv, Locals
<1>2. CASE Forget(r) /\ pc'[r] = "commit"
  BY <1>2, SupplyForgotten
<1>3. ~(~NotGated(r) /\ info = None)
  <2> SUFFICES ASSUME ~NotGated(r), info = None PROVE FALSE
    OBVIOUS
  <2>1. Linear /\ g \in Ordered
    BY <1>1 DEF NotGated, Ordered
  <2>2. loc[r].next # None => [opening |-> loc[r].next, closing |-> None] # None
    BY <1>1, PlayModeAssumption DEF TeamInfoRead
  <2>3. loc[r].read[g] = None /\ loc[r].next = None
    BY <2>2 DEF InfoAtCursor
  <2>4. PICK h \in Ordered : h < g /\ ~FoundClosed(loc[r].read, h)
    BY <1>1, <2>1, <2>3 DEF Supplied
  <2> QED BY <1>1, <2>1, <2>3, <2>4 DEF Supplied
<1>4. ASSUME NEW next, Onward(r, next), pc'[r] = "fill",
             next # None \/ (next = loc[r].next
                             /\ (NotGated(r) \/ (info # None /\ info.closing # None)))
      PROVE  Supplied(r)'
  <2>1. /\ loc'[r].cursor = g + 1 /\ loc'[r].next = next
        /\ loc'[r].read = loc[r].read
    BY <1>4 DEF Onward
  <2>2. ASSUME NEW h \in Ordered, Linear, h < g + 1
        PROVE  next # None \/ FoundClosed(loc[r].read, h)
    <3>1. CASE h < g
      BY <1>1, <1>4, <2>2, <3>1 DEF Supplied
    <3>2. CASE h = g
      <4>1. ASSUME info # None, info.closing # None
            PROVE  FoundClosed(loc[r].read, g)
        BY <4>1 DEF InfoAtCursor, FoundClosed
      <4> QED BY <1>4, <2>2, <3>2, <4>1 DEF NotGated, Ordered
    <3> QED BY <1>1, <2>2, <3>1, <3>2 DEF Ordered, Groups
  <2> HIDE DEF g, info
  <2> QED BY <1>1, <1>4, <2>1, <2>2 DEF Supplied, PanicIsSticky, FoundClosed
<1>5. ASSUME NEW next, Onward(r, next) PROVE pc'[r] = "fill" \/ (Forget(r) /\ pc'[r] = "commit")
  BY <1>5 DEF Onward
<1>6. \/ (NotGated(r) \/ (info # None /\ info.closing # None)) /\ Onward(r, loc[r].next)
      \/ deadline \in Nat /\ Onward(r, deadline)
      \/ ~NotGated(r) /\ info = None
      \/ Forget(r) /\ pc'[r] = "commit"
  BY FillGroupCases
<1>7. deadline \in Nat => deadline # None
  BY PlayModeAssumption
<1> HIDE DEF info, deadline, g
<1> QED BY <1>2, <1>3, <1>4, <1>5, <1>6, <1>7

LEMMA SupplyOfActor ==
  ASSUME TypeOK, SupplyInv, NEW r \in Requests, RequestStep(r)
  PROVE  Supplied(r)'
<1>1. CASE HandleGet(r) \/ HandleTakeHint(r) \/ HandleTryAnswer(r) \/ End(r)
           \/ Abort(r)
  <2>1. pc'[r] \in {"groups", "group", "accepted", "idle", "failed"}
    BY <1>1, BeginFields, EndFields, AbortFields
  <2> QED BY <2>1, SupplyForgotten
<1> QED
  BY <1>1, SupplyOfAnswer, SupplyOfHint, SupplyOfPage, SupplyOfFill
     DEF RequestStep, Statement, Commit, ReturnError, Fail, FailUpsert,
         DeadlockVictim, Rollback

LEMMA SupplyNext == TypeOK /\ SupplyInv /\ [Next]_vars => SupplyInv'
<1> SUFFICES ASSUME TypeOK, SupplyInv, [Next]_vars PROVE SupplyInv'
  OBVIOUS
<1>1. ASSUME NEW q \in Requests, Untouched(q) PROVE Supplied(q)'
  BY <1>1 DEF SupplyInv, Supplied, PanicIsSticky, Untouched, FoundClosed
<1>2. ASSUME NEW r \in Requests, RequestStep(r), NEW q \in Requests
      PROVE  Supplied(q)'
  BY <1>1, <1>2, OthersUntouched, SupplyOfActor
<1>3. ASSUME UNCHANGED <<pc, input, loc, tx>>, NEW q \in Requests
      PROVE  Supplied(q)'
  BY <1>1, <1>3 DEF Untouched
<1> QED BY <1>2, <1>3, NextCases DEF SupplyInv

(* No handler meets a nil TeamInfo, in a linear quest or not and whatever  *)
(* members send, but the answer that completes a sticky group: the page    *)
(* never does, nor does an answer to a group in order.                     *)
THEOREM OnlyStickyGroupsPanic == Spec => []OnlyStickyPanics
<1>1. Init => SupplyInv
  BY DEF Init, SupplyInv, Supplied, PanicIsSticky
<1>2. TypeOK /\ SupplyInv /\ [Next]_vars => SupplyInv'
  BY SupplyNext
<1>3. SupplyInv => OnlyStickyPanics
  BY DEF SupplyInv, Supplied, PanicIsSticky, OnlyStickyPanics
<1> QED BY <1>1, <1>2, <1>3, TypeCorrect, PTL DEF Spec

-----------------------------------------------------------------------------
(* The last answer.  What a request counts is at least what it saw on its  *)
(* arrival; and a group it counts as solved is closed in its writes, which *)
(* the page only adds to.                                                  *)
Counted(r) ==
  LET t == input[r].task
      g == GroupOf[t]
  IN  /\ pc[r] \in {"idle", "accepted", "group", "check", "score"} =>
           tx[r].answer = None
      /\ input[r].op = "answer" /\ pc[r] \in {"group", "check", "score"} =>
           loc[r].seen.accepted \subseteq loc[r].known
      /\ /\ pc[r] \in {"groups", "now", "fill", "commit"}
         /\ tx[r].answer # None /\ g \notin Sticky
         /\ TasksOf(g) \subseteq loc[r].seen.accepted \cup {t}
         => tx[r].info[g] # None

CountInv == \A r \in Requests : Counted(r)

LEMMA KnownOfAnswer ==
  ASSUME TypeOK, NEW r \in Requests
  PROVE  /\ ReadAccepted(r) /\ pc'[r] = "group" => loc'[r].known = AcceptedTasks
         /\ ReadGroup(r) => loc'[r].known = loc[r].known
         /\ CheckAnswer(r) /\ pc'[r] = "score" => loc'[r].known = loc[r].known
<1>0. loc[r] \in Locals /\ r \in DOMAIN loc /\ r \in DOMAIN pc
  BY DEF TypeOK
<1>1. ASSUME ReadAccepted(r), pc'[r] = "group"
      PROVE  loc'[r].known = AcceptedTasks
  <2> DEFINE l == [loc[r] EXCEPT !.known = AcceptedTasks]
  <2>1. loc'[r] = l
    BY <1>0, <1>1 DEF ReadAccepted, AfterTryAnswer
  <2>2. l.known = AcceptedTasks
    BY <1>0, KnownFields
  <2> HIDE DEF l
  <2> QED BY <2>1, <2>2
<1>2. ASSUME ReadGroup(r) PROVE loc'[r].known = loc[r].known
  <2> DEFINE read == TeamInfos(Visible(r), {GroupOf[input[r].task]})
             l == [loc[r] EXCEPT !.read = read]
  <2>1. loc'[r] = l
    BY <1>0, <1>2 DEF ReadGroup
  <2> HIDE DEF read
  <2>2. l.known = loc[r].known
    BY <1>0, KnownFields
  <2> HIDE DEF l
  <2> QED BY <2>1, <2>2
<1>3. ASSUME CheckAnswer(r), pc'[r] = "score" PROVE loc'[r].known = loc[r].known
  <2> DEFINE l == [loc[r] EXCEPT !.now = clock]
  <2>1. loc'[r] = l
    BY <1>0, <1>3 DEF CheckAnswer, AfterTryAnswer, GroupGuard
  <2>2. l.known = loc[r].known
    BY <1>0, KnownFields
  <2> HIDE DEF l
  <2> QED BY <2>1, <2>2
<1> QED BY <1>1, <1>2, <1>3

LEMMA CountOfAnswer ==
  ASSUME TypeOK, LateInv, NEW r \in Requests, Counted(r),
         ReadAccepted(r) \/ ReadGroup(r) \/ CheckAnswer(r) \/ ScoreAnswer(r)
         \/ CloseGroup(r) \/ StoreDeadline(r)
  PROVE  Counted(r)'
<1> DEFINE t == input[r].task
           g == GroupOf[t]
<1>0. input' = input
  BY DEF ReadAccepted, ReadGroup, CheckAnswer, ScoreAnswer, CloseGroup,
         StoreDeadline
<1>1. CASE ReadAccepted(r)
  <2>1. /\ tx' = tx /\ pc[r] = "accepted" /\ loc'[r].seen = loc[r].seen
        /\ pc'[r] \in {"groups", "commit", "group"}
    BY <1>1, ReadAcceptedFields DEF TypeOK, ReadAccepted, AfterTryAnswer
  <2>2. pc'[r] = "group" => loc[r].seen.accepted \subseteq loc'[r].known
    BY <1>1, KnownOfAnswer DEF LateInv, SeenHolds
  <2> QED BY <1>0, <2>1, <2>2 DEF Counted
<1>2. CASE ReadGroup(r)
  <2>1. /\ tx' = tx /\ pc[r] = "group" /\ pc'[r] = "check"
        /\ loc'[r].seen = loc[r].seen /\ loc'[r].known = loc[r].known
    BY <1>2, ReadGroupFields, KnownOfAnswer DEF TypeOK, ReadGroup
  <2> QED BY <1>0, <2>1 DEF Counted
<1>3. CASE CheckAnswer(r)
  <2>1. /\ pc[r] = "check" /\ loc'[r].seen = loc[r].seen
        /\ tx'[r].answer = tx[r].answer
        /\ pc'[r] \in {"refused", "deadline", "groups", "commit", "score"}
        /\ pc'[r] = "score" => loc'[r].known = loc[r].known
    BY <1>3, CheckAnswerFields, KnownOfAnswer DEF CheckAnswer
  <2> QED BY <1>0, <2>1 DEF Counted
<1>4. CASE ScoreAnswer(r)
  <2>1. /\ pc[r] = "score" /\ input[r].op = "answer" /\ r \in DOMAIN pc
        /\ loc'[r].seen = loc[r].seen
        /\ pc'[r] \in {"close", "panic", "groups", "commit"}
    BY <1>4, ScoreAnswerFields DEF TypeOK, Coherent, ScoreAnswer
  <2>2. loc[r].seen.accepted \subseteq loc[r].known
    BY <2>1 DEF Counted
  <2>3. TasksOf(g) \subseteq loc[r].known \cup {t} => pc'[r] \in {"close", "panic"}
    BY <1>4, <2>1 DEF ScoreAnswer, AllSolved
  <2>4. TasksOf(g) \subseteq loc[r].seen.accepted \cup {t} =>
          pc'[r] \in {"close", "panic"}
    BY <2>2, <2>3
  <2> QED BY <1>0, <2>1, <2>4 DEF Counted
<1>5. CASE CloseGroup(r)
  <2> DEFINE row == [opening |-> loc[r].read[g].opening, closing |-> loc[r].now]
  <2>1. /\ g \in Groups /\ row \in TeamInfoRow
        /\ tx'[r].info = [tx[r].info EXCEPT ![g] = row]
        /\ pc'[r] \in {"groups", "commit"}
    BY <1>5, CloseGroupFields
  <2>2. row # None
    BY <2>1, PlayModeAssumption DEF TeamInfoRow, TeamInfoRead
  <2>3. tx[r].info \in [Groups -> TeamInfoRow \cup {None}]
    BY DEF TypeOK, Writes
  <2> HIDE DEF g, row
  <2>4. tx'[r].info[g] # None
    BY <2>1, <2>2, <2>3
  <2> QED BY <1>0, <2>1, <2>4 DEF Counted, g
<1>6. CASE StoreDeadline(r)
  BY <1>6, StoreDeadlineFields DEF Counted
<1> QED BY <1>1, <1>2, <1>3, <1>4, <1>5, <1>6

LEMMA CountOfHint ==
  ASSUME TypeOK, NEW r \in Requests,
         CheckHint(r) \/ CheckUnsolved(r) \/ TakeHint(r)
  PROVE  Counted(r)'
<1>1. pc'[r] \in {"refused", "deadline", "unsolved", "take", "commit"}
  BY CheckHintFields, TakeHintFields DEF TypeOK, CheckUnsolved
<1>2. input[r].op = "hint" /\ tx[r].answer = None
  <2>1. input[r].op = "hint"
    BY DEF TypeOK, Coherent, CheckHint, CheckUnsolved, TakeHint
  <2> QED BY <2>1 DEF TypeOK, Coherent
<1>3. tx'[r].answer = None
  BY <1>2, TakeHintFields DEF CheckHint, CheckUnsolved
<1> QED BY <1>1, <1>3 DEF Counted

LEMMA CountOfPage ==
  ASSUME TypeOK, NEW r \in Requests, Counted(r),
         ReadGroups(r) \/ ReadClock(r) \/ FillGroup(r)
  PROVE  Counted(r)'
<1>1. /\ input' = input /\ loc'[r].seen = loc[r].seen
      /\ tx'[r].answer = tx[r].answer
      /\ pc[r] \in {"groups", "now", "fill"}
      /\ pc'[r] \in {"now", "fill", "commit", "panic"}
  BY ReadGroupsFields, ReadClockFields, FillGroupFields
     DEF TypeOK, ReadGroups, ReadClock, FillGroup
<1>2. ASSUME NEW g \in Groups, tx[r].info[g] # None PROVE tx'[r].info[g] # None
  <2>1. CASE tx'[r].info = tx[r].info
    BY <1>2, <2>1
  <2>2. CASE FillGroup(r) /\ tx'[r].info # tx[r].info
    <3> DEFINE info == InfoAtCursor(r)
               row == [opening |-> info.opening,
                       closing |-> info.opening + TimeLimit[loc[r].cursor]]
    <3>1. /\ row \in TeamInfoRow
          /\ tx'[r].info = [tx[r].info EXCEPT ![loc[r].cursor] = row]
      BY <2>2, FillGroupFields
    <3>2. row # None
      BY <3>1, PlayModeAssumption DEF TeamInfoRow, TeamInfoRead
    <3>3. tx[r].info \in [Groups -> TeamInfoRow \cup {None}]
      BY DEF TypeOK, Writes
    <3> HIDE DEF row
    <3> QED BY <1>2, <3>1, <3>2, <3>3
  <2> QED BY <2>1, <2>2 DEF ReadGroups, ReadClock
<1>3. tx[r].answer # None => GroupOf[input[r].task] \in Groups
  BY PlayModeAssumption DEF TypeOK, Coherent
<1> QED BY <1>1, <1>2, <1>3 DEF Counted

LEMMA CountOfActor ==
  ASSUME TypeOK, LateInv, CountInv, NEW r \in Requests, RequestStep(r)
  PROVE  Counted(r)'
<1>1. CASE HandleGet(r) \/ HandleTakeHint(r) \/ HandleTryAnswer(r)
  <2>1. /\ tx'[r].answer = None
        /\ pc'[r] \in {"groups", "group", "accepted"}
        /\ input'[r].op = "answer" => pc'[r] = "accepted"
    BY <1>1, BeginFields DEF NoWrites
  <2> QED BY <2>1 DEF Counted
<1>2. CASE End(r) \/ Abort(r)
  <2>1. pc'[r] \in {"idle", "failed"} /\ tx'[r].answer = None
    BY <1>2, EndFields, AbortFields DEF NoWrites
  <2> QED BY <2>1 DEF Counted
<1>3. Counted(r)
  BY DEF CountInv
<1> QED
  BY <1>1, <1>2, <1>3, CountOfAnswer, CountOfHint, CountOfPage
     DEF RequestStep, Statement, Commit, ReturnError, Fail, FailUpsert,
         DeadlockVictim, Rollback

LEMMA CountNext ==
  TypeOK /\ LateInv /\ CountInv /\ [Next]_vars => CountInv'
<1> SUFFICES ASSUME TypeOK, LateInv, CountInv, [Next]_vars PROVE CountInv'
  OBVIOUS
<1>1. ASSUME NEW q \in Requests, Untouched(q) PROVE Counted(q)'
  BY <1>1 DEF CountInv, Counted, Untouched
<1>2. ASSUME NEW r \in Requests, RequestStep(r), NEW q \in Requests
      PROVE  Counted(q)'
  BY <1>1, <1>2, OthersUntouched, CountOfActor
<1>3. ASSUME UNCHANGED <<pc, input, loc, tx>>, NEW q \in Requests
      PROVE  Counted(q)'
  BY <1>1, <1>3 DEF Untouched
<1> QED BY <1>2, <1>3, NextCases DEF CountInv

(* When the accepted answers a request saw on its arrival and its own make *)
(* up a group in order, and none was added meanwhile, its commit closes    *)
(* the group: only an answer that it missed leaves a solved group open.    *)
THEOREM LastAnswerClosesGroup == Spec => []LastAnswerCloses
<1>1. Init => LateInv /\ CountInv
  <2>1. Init => CountInv
    BY DEF Init, CountInv, Counted, NoWrites
  <2> QED BY <2>1, InitNotLate
<1>2. TypeOK /\ LateInv /\ CountInv /\ [Next]_vars => (LateInv /\ CountInv)'
  BY LateNext, CountNext
<1>3. CountInv => LastAnswerCloses
  <2> SUFFICES ASSUME CountInv, NEW r \in Requests,
                      pc[r] = "commit", tx[r].answer # None,
                      GroupOf[input[r].task] \notin Sticky,
                      TasksOf(GroupOf[input[r].task])
                        \subseteq AcceptedTasks \cup {input[r].task},
                      AcceptedTasks \cap TasksOf(GroupOf[input[r].task])
                        = loc[r].seen.accepted
               PROVE  tx[r].info[GroupOf[input[r].task]] # None
    BY DEF LastAnswerCloses
  <2>1. TasksOf(GroupOf[input[r].task])
          \subseteq loc[r].seen.accepted \cup {input[r].task}
    OBVIOUS
  <2> QED BY <2>1 DEF CountInv, Counted
<1> QED BY <1>1, <1>2, <1>3, TypeCorrect, PTL DEF Spec

=============================================================================
