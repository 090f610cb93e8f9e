------------------------------ MODULE PlayMode ------------------------------
(***************************************************************************)
(* Play mode of one team in one quest: what the handlers behind            *)
(*   GET  /quest/{id}/play     (HandleGet)                                 *)
(*   POST /quest/{id}/hint     (HandleTakeHint)                            *)
(*   POST /quest/{id}/answer   (HandleTryAnswer)                           *)
(* do to the shared Postgres tables answer_try, hint_take and              *)
(* task_group_team_info, when any number of members of the team, on any    *)
(* number of server replicas, send requests at the same time.              *)
(*                                                                         *)
(* Every request runs in one READ COMMITTED transaction.  One action is    *)
(* one SQL statement that reads or writes what another request may write,  *)
(* or one look at the clock; a read sees what is committed at that moment  *)
(* plus the transaction's own writes, and a written row stays locked until *)
(* the transaction ends.  The quest's definition (groups, tasks, hints,    *)
(* rewards, limits) and the team's registration do not change meanwhile.   *)
(***************************************************************************)
EXTENDS Integers, Sequences, FiniteSets

CONSTANTS
  Requests,    \* transactions that can be open at the same time
  None,        \* Go's nil, SQL's NULL
  QuestType,   \* "LINEAR" or "ASSAULT"
  NumGroups,   \* task groups are 1..NumGroups, in the order of order_idx
  Sticky,      \* the groups whose sticky flag is set
  TimeLimit,   \* a group's time limit, None when it has none
  Tasks,
  GroupOf,     \* the group of a task
  Manual,      \* the tasks with manual verification
  NumHints,    \* a task's hints are 0..NumHints[t]-1
  Reward,
  Charge(_, _),\* penalty points of a set of hints of a task
  RegistrationDeadline,  \* None when the quest has none
  StartTime,
  FinishTime,  \* None when the quest has no finish time
  MaxTime,     \* bound: the clock stops here
  Honest,      \* TRUE: members only send tasks of groups they were shown
  Texts        \* the answers members send: TRUE for a correct one

Groups == 1..NumGroups
TasksOf(g) == {t \in Tasks : GroupOf[t] = g}
Hints(t) == 0..(NumHints[t] - 1)

(* A stored row always has a closing time: every caller of UpsertTeamInfo  *)
(* passes one.  What a request reads may be a group that is still open.    *)
TeamInfoRow  == [opening : Nat, closing : Nat]
TeamInfoRead == [opening : Nat, closing : Nat \cup {None}]
AnswerRow == [score : Int, charged : SUBSET Nat]

(* What was committed when a request arrived: the groups that were closed, *)
(* and the accepted tasks of its group and the hints taken of its task.    *)
Arrival == [closed : SUBSET Groups, accepted : SUBSET Tasks, hints : SUBSET Nat]

ASSUME PlayModeAssumption ==
  /\ None \notin Int /\ None \notin Tasks /\ None \notin TeamInfoRead \cup AnswerRow
  /\ QuestType \in {"LINEAR", "ASSAULT"}
  /\ NumGroups \in Nat
  /\ Sticky \subseteq Groups
  /\ TimeLimit \in [Groups -> Nat \cup {None}]
  /\ GroupOf \in [Tasks -> Groups]
  /\ Manual \subseteq Tasks
  /\ NumHints \in [Tasks -> Nat]
  /\ Reward \in [Tasks -> Int]
  /\ \A t \in Tasks : \A H \in SUBSET Hints(t) : Charge(t, H) \in Int
  /\ StartTime \in Nat /\ MaxTime \in Nat
  /\ FinishTime \in Nat \cup {None} /\ RegistrationDeadline \in Nat \cup {None}
  /\ Honest \in BOOLEAN /\ Texts \subseteq BOOLEAN

VARIABLES
  clock,       \* qtime.Now()
  finished,    \* quest.finished
  teamInfo,    \* task_group_team_info: a group's row or None
  answers,     \* answer_try, the accepted rows of a task in commit order
  rejected,    \* answer_try, the tasks that have a row that is not accepted
  hintTakes,   \* hint_take: the hints of a task the team has taken
  shown,       \* groups that some answer to GET or answer has shown the team
  pc,          \* the statement a request executes next
  input,       \* what a request asked for
  loc,         \* a request's local variables
  tx           \* the uncommitted writes of a request's transaction

vars == <<clock, finished, teamInfo, answers, rejected, hintTakes, shown,
          pc, input, loc, tx>>


NoGroups == [g \in Groups |-> None]
NoInput == [op |-> "none", task |-> None, right |-> FALSE, hint |-> None]
NoLocals == [read |-> NoGroups, now |-> 0, known |-> {}, next |-> None,
             cursor |-> 0,
             seen |-> [closed |-> {}, accepted |-> {}, hints |-> {}]]
NoWrites == [info |-> NoGroups, answer |-> None, rejected |-> FALSE,
             hint |-> None]

Init ==
  /\ clock = 0
  /\ finished = FALSE
  /\ teamInfo = NoGroups
  /\ answers = [t \in Tasks |-> <<>>]
  /\ rejected = {}
  /\ hintTakes = [t \in Tasks |-> {}]
  /\ shown = {}
  /\ pc = [r \in Requests |-> "idle"]
  /\ input = [r \in Requests |-> NoInput]
  /\ loc = [r \in Requests |-> NoLocals]
  /\ tx = [r \in Requests |-> NoWrites]

-----------------------------------------------------------------------------
(* quests.SetStatus, for the branches play mode distinguishes.             *)
Running ==
  /\ ~finished
  /\ RegistrationDeadline # None => RegistrationDeadline <= clock
  /\ StartTime <= clock
  /\ FinishTime # None => FinishTime > clock

Linear == QuestType = "LINEAR"

(* fillTeamInfos over the groups S, given the rows it finds.  The loop     *)
(* walks the groups that are not sticky in order.  A group with a row gets *)
(* that row, except that all its results share one closingTime variable,   *)
(* so that every closing time is that of the last row scanned.  A group    *)
(* without a row opens when the group before it closed, the first one when *)
(* the quest starts, and any other one is not open.                        *)
\* mutant: only the first group without a row is open
FirstGroupOnly(rows, S) ==
  LET stored == {g \in S : rows[g] # None}
  IN  [g \in Groups |->
        IF g \notin S \ Sticky THEN None
        ELSE IF g \in stored THEN rows[g]
        ELSE IF \A h \in S \ Sticky : g <= h
        THEN [opening |-> StartTime, closing |-> None]
        ELSE None]

TeamInfos(rows, S) ==
  LET stored == {g \in S : rows[g] # None}
      last == CHOOSE g \in stored : \A h \in stored : h <= g
      before(g) == {h \in S \ Sticky : h < g}
      prev(g) == CHOOSE h \in before(g) : \A k \in before(g) : k <= h
  IN  [g \in Groups |->
        IF g \notin S \ Sticky THEN None
        ELSE IF g \in stored
        THEN [opening |-> rows[g].opening, closing |-> rows[last].closing]
        ELSE IF before(g) = {}
        THEN [opening |-> StartTime, closing |-> None]
        ELSE IF prev(g) \in stored
        THEN [opening |-> rows[last].closing, closing |-> None]
        ELSE None]

(* What a statement of r sees of task_group_team_info.                     *)
Visible(r) ==
  [g \in Groups |-> IF tx[r].info[g] # None THEN tx[r].info[g] ELSE teamInfo[g]]

NoAcceptedTasks == {}  \* mutant: never finds an accepted row
AcceptedTasks == {t \in Tasks : answers[t] # <<>>}
PaidHintTakes(t) == hintTakes[t] \ {0}  \* mutant: loses the first hint
GetHintTakes(t) == hintTakes[t]

(* TeamInfo.OpeningTime plus the time limit has passed.                    *)
Expired(g, info, now) ==
  /\ TimeLimit[g] # None
  /\ info.opening + TimeLimit[g] < now

NeverSolved(g, accepted) == \A t \in Tasks : t \in accepted  \* mutant: all groups
AllSolved(g, accepted) == TasksOf(g) \subseteq accepted

(* INSERT ... ON CONFLICT DO UPDATE of a team info row: it overwrites, and *)
(* waits while another transaction holds the row.                          *)
HoldsGroup(q, g) == tx[q].info[g] # None
\* mutant: the two times in the wrong order
SwappedUpsert(r, g, row) ==
  /\ \A q \in Requests \ {r} : ~HoldsGroup(q, g)
  /\ tx' = [tx EXCEPT ![r].info[g] =
              [opening |-> row.closing, closing |-> row.opening]]

UpsertTeamInfo(r, g, row) ==
  /\ \A q \in Requests \ {r} : ~HoldsGroup(q, g)
  /\ tx' = [tx EXCEPT ![r].info[g] = row]

Goto(r, label) == pc' = [pc EXCEPT ![r] = label]

(* The transaction of r is over and the request answered.                  *)
End(r) ==
  /\ Goto(r, "idle")
  /\ input' = [input EXCEPT ![r] = NoInput]
  /\ loc' = [loc EXCEPT ![r] = NoLocals]
  /\ tx' = [tx EXCEPT ![r] = NoWrites]

-----------------------------------------------------------------------------
(* What was committed when a request began.  The code does not keep it;    *)
(* the properties compare with it.                                         *)
ClosedGroups == {g \in Groups : teamInfo[g] # None}
Seen(t) ==
  [closed |-> ClosedGroups,
   accepted |-> IF t = None THEN {} ELSE AcceptedTasks \cap TasksOf(GroupOf[t]),
   hints |-> IF t = None THEN {} ELSE hintTakes[t]]

(* A request arrives and reads the quest; any status but RUNNING is        *)
(* answered without touching the tables, which leaves nothing to model.    *)
Begin(r, in, label) ==
  /\ pc[r] = "idle"
  /\ Running
  /\ in.task # None /\ Honest => GroupOf[in.task] \in shown
  /\ input' = [input EXCEPT ![r] = in]
  /\ loc' = [loc EXCEPT ![r].seen = Seen(in.task)]
  /\ Goto(r, label)
  /\ UNCHANGED <<clock, finished, teamInfo, answers, rejected, hintTakes,
                 shown, tx>>

HandleGet(r) ==
  Begin(r, [op |-> "get", task |-> None, right |-> FALSE, hint |-> None], "groups")

(* The index comes from the client: one below and one beyond the task's    *)
(* hints stand for all that are out of range.                              *)
HandleTakeHint(r) ==
  \E t \in Tasks : \E i \in -1..NumHints[t] :
    Begin(r, [op |-> "hint", task |-> t, right |-> FALSE, hint |-> i], "group")

HandleTryAnswer(r) ==
  \E t \in Tasks, right \in Texts :
    Begin(r, [op |-> "answer", task |-> t, right |-> right, hint |-> None],
          "accepted")

(* Locals are forgotten once the code uses them no more: only "seen" and,  *)
(* for the answer, the cursor are kept.                                    *)
Keep(r) == [NoLocals EXCEPT !.cursor = loc[r].cursor, !.seen = loc[r].seen]
Forget(r) == loc' = [loc EXCEPT ![r] = Keep(r)]

(* A statement that changes only the request's own state.                  *)
Unstored == UNCHANGED <<clock, finished, teamInfo, answers, rejected,
                        hintTakes, shown, input>>

(* Where TryAnswer returns to in HandleTryAnswer: a linear quest reads and *)
(* fills in its groups again before the commit.                            *)
AfterTryAnswer == IF Linear THEN "groups" ELSE "commit"

(* TryAnswer: GetAcceptedTasks; an accepted task is answered from there.   *)
ReadAccepted(r) ==
  /\ pc[r] = "accepted"
  /\ IF input[r].task \in AcceptedTasks
     THEN Goto(r, AfterTryAnswer) /\ UNCHANGED loc
     ELSE Goto(r, "group") /\ loc' = [loc EXCEPT ![r].known = AcceptedTasks]
  /\ UNCHANGED tx /\ Unstored

(* TryAnswer and TakeHint: GetTaskGroup, which asks fillTeamInfos for this *)
(* group alone.                                                            *)
ReadGroup(r) ==
  /\ pc[r] = "group"
  /\ loc' = [loc EXCEPT
              ![r].read = TeamInfos(Visible(r), {GroupOf[input[r].task]})]
  /\ Goto(r, "check")
  /\ UNCHANGED tx /\ Unstored

(* Whether a request may go on in a linear quest: if not it is refused, at *)
(* once or after the closing time of an overdue group has been stored.     *)
GroupGuard(g, info, now) ==
  IF info = None \/ info.closing # None THEN "refused"
  ELSE IF Expired(g, info, now) THEN "deadline" ELSE "open"

(* TryAnswer: the clock, the guards and the comparison of the texts; a     *)
(* wrong answer, or any answer to a manual task, is stored as not accepted.*)
CheckAnswer(r) ==
  LET t == input[r].task
      g == GroupOf[t]
      guard == IF Linear /\ g \notin Sticky
               THEN GroupGuard(g, loc[r].read[g], clock) ELSE "open"
  IN  /\ pc[r] = "check" /\ input[r].op = "answer"
      /\ \/ guard # "open" /\ Goto(r, guard) /\ UNCHANGED <<loc, tx>>
         \/ /\ guard = "open"
            /\ input[r].right => t \in Manual
            /\ tx' = [tx EXCEPT ![r].rejected = TRUE]
            /\ Goto(r, AfterTryAnswer) /\ Forget(r)
         \/ /\ guard = "open"
            /\ input[r].right /\ t \notin Manual
            /\ loc' = [loc EXCEPT ![r].now = clock]
            /\ Goto(r, "score") /\ UNCHANGED tx
      /\ Unstored

(* TryAnswer: GetHintTakes, the score and CreateAnswerTry; then, when the  *)
(* accepted tasks read at the start and this one make up the group, its    *)
(* opening time is used: a nil dereference when the group has no TeamInfo. *)
ScoreAnswer(r) ==
  LET t == input[r].task
      g == GroupOf[t]
      charged == GetHintTakes(t)
  IN  /\ pc[r] = "score"
      /\ tx' = [tx EXCEPT ![r].answer =
                 [score |-> Reward[t] - Charge(t, charged), charged |-> charged]]
      /\ IF AllSolved(g, loc[r].known \cup {t})
         THEN /\ Goto(r, IF loc[r].read[g] = None THEN "panic" ELSE "close")
              /\ UNCHANGED loc
         ELSE Goto(r, AfterTryAnswer) /\ Forget(r)
      /\ Unstored

(* TryAnswer: the group is solved and closes now.                          *)
CloseGroup(r) ==
  LET g == GroupOf[input[r].task]
  IN  /\ pc[r] = "close"
      /\ UpsertTeamInfo(r, g, [opening |-> loc[r].read[g].opening,
                               closing |-> loc[r].now])
      /\ Goto(r, AfterTryAnswer) /\ Forget(r)
      /\ Unstored

(* TakeHint: the clock and the guards, which hold for sticky groups too.   *)
CheckHint(r) ==
  LET g == GroupOf[input[r].task]
      guard == IF Linear THEN GroupGuard(g, loc[r].read[g], clock) ELSE "open"
  IN  /\ pc[r] = "check" /\ input[r].op = "hint"
      /\ Goto(r, IF guard = "open" THEN "unsolved" ELSE guard)
      /\ IF guard = "deadline" THEN UNCHANGED loc ELSE Forget(r)
      /\ UNCHANGED tx /\ Unstored

(* TryAnswer and TakeHint: an overdue group is closed at its deadline, but *)
(* in the transaction of a request that is refused: its error rolls the    *)
(* row back.                                                               *)
StoreDeadline(r) ==
  LET g == GroupOf[input[r].task]
      opening == loc[r].read[g].opening
  IN  /\ pc[r] = "deadline"
      /\ UpsertTeamInfo(r, g, [opening |-> opening,
                               closing |-> opening + TimeLimit[g]])
      /\ Goto(r, "refused") /\ Forget(r)
      /\ Unstored

(* TakeHint: GetAcceptedTasks; a solved task gives no more hints, and the  *)
(* index must not be beyond the task's hints.                              *)
\* mutant: the index is compared with < and its length let through
HintIndexOffByOne(r) ==
  /\ pc[r] = "unsolved"
  /\ Goto(r, IF input[r].task \in AcceptedTasks
                \/ NumHints[input[r].task] < input[r].hint
             THEN "refused" ELSE "take")
  /\ UNCHANGED <<loc, tx>> /\ Unstored

CheckUnsolved(r) ==
  /\ pc[r] = "unsolved"
  /\ Goto(r, IF input[r].task \in AcceptedTasks
                \/ NumHints[input[r].task] <= input[r].hint
             THEN "refused" ELSE "take")
  /\ UNCHANGED <<loc, tx>> /\ Unstored

(* TakeHint: the upsert of the hint_take row, which returns the hint.  For *)
(* a negative index there is none to return: reading the row is an error.  *)
HoldsHint(q, t, i) == input[q].task = t /\ tx[q].hint = i
TakeHint(r) ==
  /\ pc[r] = "take"
  /\ \A q \in Requests \ {r} : ~HoldsHint(q, input[r].task, input[r].hint)
  /\ tx' = [tx EXCEPT ![r].hint = input[r].hint]
  /\ Goto(r, IF input[r].hint < 0 THEN "refused" ELSE "commit")
  /\ UNCHANGED loc /\ Unstored

(* HandleGet and HandleTryAnswer: GetTaskGroups for the whole quest, with  *)
(* the team's infos only in a linear one.                                  *)
ReadGroups(r) ==
  /\ pc[r] = "groups"
  /\ loc' = [loc EXCEPT ![r].read =
              IF Linear THEN TeamInfos(Visible(r), Groups) ELSE NoGroups]
  /\ Goto(r, "now")
  /\ UNCHANGED tx /\ Unstored

ReadClock(r) ==
  /\ pc[r] = "now"
  /\ loc' = [loc EXCEPT ![r].now = clock, ![r].cursor = 1]
  /\ Goto(r, IF NumGroups = 0 THEN "commit" ELSE "fill")
  /\ UNCHANGED tx /\ Unstored

(* fillAnswerData, one turn of its loop for the group at the cursor.  A    *)
(* group left without TeamInfo opens at the deadline the turn before has   *)
(* just enforced.                                                          *)
InfoAtCursor(r) ==
  LET read == loc[r].read[loc[r].cursor]
  IN  IF read = None /\ loc[r].next # None
      THEN [opening |-> loc[r].next, closing |-> None] ELSE read

NotGated(r) == ~Linear \/ loc[r].cursor \in Sticky

OverdueAgain(r) ==  \* mutant: closed groups meet their deadline too
  LET info == InfoAtCursor(r)
  IN  /\ ~NotGated(r)
      /\ info # None
      /\ Expired(loc[r].cursor, info, loc[r].now)

Overdue(r) ==
  LET info == InfoAtCursor(r)
  IN  /\ ~NotGated(r)
      /\ info # None
      /\ info.closing = None
      /\ Expired(loc[r].cursor, info, loc[r].now)

(* Groups that are sticky, closed, or closed here because their deadline   *)
(* has passed are followed by the next one; the first open group ends the  *)
(* loop.  A group with a limit and no TeamInfo would be a nil dereference. *)
FillGroup(r) ==
  LET g == loc[r].cursor
      info == InfoAtCursor(r)
      deadline == info.opening + TimeLimit[g]
      \* on to the next group, with the start it may inherit
      Advance(next) ==
        IF g = NumGroups THEN Goto(r, "commit") /\ Forget(r)
        ELSE /\ Goto(r, "fill")
             /\ loc' = [loc EXCEPT ![r].cursor = g + 1, ![r].next = next]
  IN  /\ pc[r] = "fill"
      /\ \/ /\ NotGated(r) \/ (info # None /\ info.closing # None)
            /\ Advance(loc[r].next) /\ UNCHANGED tx
         \/ /\ Overdue(r)
            /\ UpsertTeamInfo(r, g, [opening |-> info.opening,
                                     closing |-> deadline])
            /\ Advance(deadline)
         \/ /\ ~NotGated(r) /\ info = None
            /\ Goto(r, IF TimeLimit[g] = None THEN "commit" ELSE "panic")
            /\ Forget(r) /\ UNCHANGED tx
         \/ /\ ~NotGated(r) /\ ~Overdue(r) /\ info # None /\ info.closing = None
            /\ Goto(r, "commit") /\ Forget(r) /\ UNCHANGED tx
      /\ Unstored

(* The groups the answer holds: fillAnswerData cuts them after the last    *)
(* one its loop has reached.                                               *)
UncutGroups(r) == Groups  \* mutant: the groups are not cut
AnsweredGroups(r) == {g \in Groups : g <= loc[r].cursor}

(* CreateAnswerTry inserts: what was stored before stays.                  *)
StoreAnswer(t, row) == [answers EXCEPT ![t] = Append(@, row)]

(* The transaction commits and the answer is sent.                         *)
Commit(r) ==
  LET t == input[r].task
      w == tx[r]
  IN  /\ pc[r] = "commit"
      /\ teamInfo' = Visible(r)
      /\ answers' = IF w.answer = None THEN answers
                    ELSE StoreAnswer(t, w.answer)
      /\ rejected' = IF w.rejected THEN rejected \cup {t} ELSE rejected
      /\ hintTakes' = IF w.hint = None THEN hintTakes
                      ELSE [hintTakes EXCEPT ![t] = @ \cup {w.hint}]
      /\ shown' = shown \cup AnsweredGroups(r)
      /\ End(r)
      /\ UNCHANGED <<clock, finished>>

Rollback(r) ==
  /\ End(r)
  /\ UNCHANGED <<clock, finished, teamInfo, answers, rejected, hintTakes, shown>>

(* The handler returns an error, or panics, and its deferred tx.Rollback() *)
(* runs.                                                                   *)
PanicOnly(r) == pc[r] = "panic" /\ Rollback(r)  \* mutant: no deferred rollback

ReturnError(r) == pc[r] \in {"refused", "panic", "failed"} /\ Rollback(r)

(* The client goes away, a statement fails or the replica dies.            *)
Fail(r) == pc[r] # "idle" /\ Rollback(r)

(* A statement that fails aborts its transaction: Postgres undoes it and   *)
(* lets its rows go at once.  fillAnswerData only logs the failure of its  *)
(* upsert, as the deadline branches do, and goes on; but each statement    *)
(* that follows fails too, and the commit is the error that is answered.   *)
Abort(r) ==
  /\ tx' = [tx EXCEPT ![r] = NoWrites]
  /\ loc' = [loc EXCEPT ![r] = NoLocals]
  /\ Goto(r, "failed")
  /\ Unstored

FailUpsert(r) ==
  /\ pc[r] = "deadline" \/ (pc[r] = "fill" /\ Overdue(r))
  /\ Abort(r)

(* Who waits for a row that q has written and not committed.               *)
WaitsFor(r, q) ==
  /\ q # r
  /\ \/ pc[r] = "close" /\ HoldsGroup(q, GroupOf[input[r].task])
     \/ pc[r] = "deadline" /\ HoldsGroup(q, GroupOf[input[r].task])
     \/ pc[r] = "take" /\ HoldsHint(q, input[r].task, input[r].hint)
     \/ pc[r] = "fill" /\ Overdue(r) /\ HoldsGroup(q, loc[r].cursor)

InCycle(r) ==
  \E S \in SUBSET Requests :
    /\ r \in S
    /\ \A p \in S : (\E q \in S : WaitsFor(p, q)) /\ (\E q \in S : WaitsFor(q, p))

(* Postgres ends a transaction that waits in a cycle.                      *)
DeadlockVictim(r) == InCycle(r) /\ Abort(r)

(* HandleFinish: one statement of its own.                                 *)
FinishQuest ==
  /\ ~finished
  /\ finished' = TRUE
  /\ UNCHANGED <<clock, teamInfo, answers, rejected, hintTakes, shown, pc,
                 input, loc, tx>>

Tick ==
  /\ clock < MaxTime
  /\ clock' = clock + 1
  /\ UNCHANGED <<finished, teamInfo, answers, rejected, hintTakes, shown, pc,
                 input, loc, tx>>

(* The next statement of a request that is being handled.                  *)
Statement(r) ==
  \/ ReadAccepted(r) \/ ReadGroup(r) \/ CheckAnswer(r) \/ ScoreAnswer(r)
  \/ CloseGroup(r) \/ CheckHint(r) \/ StoreDeadline(r) \/ CheckUnsolved(r)
  \/ TakeHint(r)
  \/ ReadGroups(r) \/ ReadClock(r) \/ FillGroup(r) \/ Commit(r)
  \/ ReturnError(r)

Next ==
  \/ \E r \in Requests :
       \/ HandleGet(r) \/ HandleTakeHint(r) \/ HandleTryAnswer(r)
       \/ Statement(r) \/ Fail(r) \/ FailUpsert(r) \/ DeadlockVictim(r)
  \/ FinishQuest
  \/ Tick

Spec == Init /\ [][Next]_vars

(* Postgres and the Go scheduler run the statements of a transaction; its  *)
(* lock waiters are served in order, so that none is passed over for ever; *)
(* and its deadlock detector finds every cycle.                            *)
FairSpec ==
  /\ Spec
  /\ \A r \in Requests : SF_vars(Statement(r)) /\ WF_vars(DeadlockVictim(r))

-----------------------------------------------------------------------------
(* The types of the tables and of the requests in progress.                *)
Labels == {"idle", "accepted", "group", "check", "score", "close", "unsolved",
           "take", "groups", "now", "fill", "commit", "refused", "deadline",
           "panic", "failed"}
Inputs == [op : {"none", "get", "hint", "answer"}, task : Tasks \cup {None},
           right : BOOLEAN, hint : Int \cup {None}]
Locals == [read : [Groups -> TeamInfoRead \cup {None}], now : Nat,
           known : SUBSET Tasks, next : Nat \cup {None}, cursor : Nat,
           seen : Arrival]
Writes == [info : [Groups -> TeamInfoRow \cup {None}],
           answer : AnswerRow \cup {None}, rejected : BOOLEAN,
           hint : Int \cup {None}]

(* What a request's label says of its input, its locals and its writes.    *)
Coherent(r) ==
  /\ pc[r] = "idle" => /\ input[r] = NoInput /\ loc[r] = NoLocals
                       /\ tx[r] = NoWrites
  /\ pc[r] \in {"accepted", "score", "close"} => input[r].op = "answer"
  /\ pc[r] \in {"unsolved", "take"} => input[r].op = "hint"
  /\ pc[r] \in {"group", "check", "deadline"} => input[r].op \in {"answer", "hint"}
  /\ pc[r] = "deadline" =>
       LET g == GroupOf[input[r].task]
       IN  TimeLimit[g] # None /\ loc[r].read[g] # None
  /\ pc[r] = "close" => loc[r].read[GroupOf[input[r].task]] # None
  /\ pc[r] = "fill" => loc[r].cursor \in Groups
  /\ input[r].op \in {"answer", "hint"} => input[r].task \in Tasks
  /\ input[r].op = "hint" => input[r].hint \in Int
  /\ pc[r] = "take" => input[r].hint < NumHints[input[r].task]
  /\ tx[r].answer # None \/ tx[r].rejected => input[r].op = "answer"
  /\ tx[r].hint # None => /\ input[r].op = "hint" /\ tx[r].hint = input[r].hint
                          /\ pc[r] \in {"commit", "refused"}
  /\ tx[r].hint # None /\ pc[r] = "commit" => tx[r].hint \in Hints(input[r].task)

TypeOK ==
  /\ clock \in Nat
  /\ finished \in BOOLEAN
  /\ teamInfo \in [Groups -> TeamInfoRow \cup {None}]
  /\ answers \in [Tasks -> Seq(AnswerRow)]
  /\ rejected \subseteq Tasks
  /\ hintTakes \in [Tasks -> SUBSET Nat]
  /\ \A t \in Tasks : hintTakes[t] \subseteq Hints(t)
  /\ shown \subseteq Groups
  /\ pc \in [Requests -> Labels]
  /\ input \in [Requests -> Inputs]
  /\ loc \in [Requests -> Locals]
  /\ tx \in [Requests -> Writes]
  /\ \A r \in Requests : Coherent(r)

(* Score: TryAnswer reads the hints long after the request began and the   *)
(* transaction sees other members' commits in between.  An accepted row    *)
(* is the reward less the penalties of hints the team really took, among   *)
(* them every hint that was taken before the request arrived.              *)
RowIsFair(t, row) ==
  /\ row.charged \subseteq hintTakes[t]
  /\ row.score = Reward[t] - Charge(t, row.charged)
HintsAreCharged ==
  /\ \A t \in Tasks : \A i \in DOMAIN answers[t] : RowIsFair(t, answers[t][i])
  /\ \A r \in Requests : tx[r].answer # None =>
       /\ RowIsFair(input[r].task, tx[r].answer)
       /\ loc[r].seen.hints \subseteq tx[r].answer.charged

(* A request that arrives when an accepted answer to its task, or in a     *)
(* linear quest the closing of its group, is already committed brings      *)
(* neither an accepted answer nor a hint; and no request, the page's       *)
(* included, writes the times of a group it found closed on its arrival:   *)
(* whatever runs at the same time, a retry or a late request is harmless.  *)
LateRequestsChangeNothing ==
  \A r \in Requests :
    LET t == input[r].task
    IN  /\ tx[r].answer # None \/ tx[r].hint # None =>
             /\ t \notin loc[r].seen.accepted
             /\ Linear /\ GroupOf[t] \notin Sticky =>
                  GroupOf[t] \notin loc[r].seen.closed
        /\ Linear => \A g \in loc[r].seen.closed : tx[r].info[g] = None

(* Times: a group closes neither before it opens nor in the future, and in *)
(* a linear quest no later than its limit allows, whichever request closed *)
(* it: the opening may be the quest's start, the closing of another group, *)
(* read by whoever closes this one, or a deadline handed on by the page;   *)
(* the closing is a clock read before the row was waited for, or a         *)
(* deadline.                                                               *)
TimesFit(g, row) ==
  /\ StartTime <= row.opening /\ row.opening <= row.closing
  /\ Linear /\ TimeLimit[g] # None => row.closing <= row.opening + TimeLimit[g]
TimesAreOrdered ==
  \A g \in ClosedGroups : TimesFit(g, teamInfo[g]) /\ teamInfo[g].closing <= clock

(* The answer that completes a group closes it in the same commit, unless  *)
(* an answer to another of its tasks was committed while the request was   *)
(* handled: TryAnswer counts the answers it read at its start, and that it *)
(* may miss those is the one way a solved group stays open.                *)
LastAnswerCloses ==
  \A r \in Requests :
    pc[r] = "commit" /\ tx[r].answer # None =>
      LET t == input[r].task
          g == GroupOf[t]
      IN  g \notin Sticky /\ TasksOf(g) \subseteq AcceptedTasks \cup {t}
          => \/ tx[r].info[g] # None
             \/ AcceptedTasks \cap TasksOf(g) # loc[r].seen.accepted

(* A linear quest advances group by group: a group is closed, or has an    *)
(* accepted answer, only when every group before it is closed.             *)
ProgressInOrder ==
  Linear => \A g \in Groups \ Sticky :
    teamInfo[g] # None \/ TasksOf(g) \cap AcceptedTasks # {}
    => \A h \in Groups \ Sticky : h < g => teamInfo[h] # None

(* The quest of a team that has solved a group moves on: when no request   *)
(* is in progress, a group whose tasks are all accepted is closed.         *)
SolvedGroupsClose ==
  (\A r \in Requests : pc[r] = "idle") =>
    \A g \in Groups \ Sticky :
      TasksOf(g) # {} /\ TasksOf(g) \subseteq AcceptedTasks => teamInfo[g] # None

(* A task is accepted once; GetAcceptedTasks keeps one of its rows.        *)
AcceptedOnce == \A t \in Tasks : Len(answers[t]) <= 1

(* The time a group closed, which the next one's deadline is counted from, *)
(* is not overwritten.                                                     *)
ClosingIsFinal ==
  [][\A g \in Groups : teamInfo[g] # None => teamInfo'[g] = teamInfo[g]]_teamInfo

(* The page never meets a group without TeamInfo, and no answer does but   *)
(* the one that completes a sticky group.                                  *)
OnlyStickyPanics ==
  \A r \in Requests : pc[r] = "panic" =>
    LET g == GroupOf[input[r].task]
    IN  /\ input[r].op = "answer" /\ g \in Sticky
        /\ TasksOf(g) \subseteq loc[r].known \cup {input[r].task}

(* A closed group is read with its own closing time.                       *)
ClosingTimesAreOwn ==
  \A r \in Requests : pc[r] = "now" => \A g \in Groups :
    teamInfo[g] # None /\ loc[r].read[g] # None =>
      loc[r].read[g].closing = Visible(r)[g].closing

(* Whatever rows requests wait for, each of them is answered.              *)
RequestsEnd == \A r \in Requests : pc[r] # "idle" ~> pc[r] = "idle"

(* Seen through what is committed, play mode is the game of LinearGame.    *)
Game == INSTANCE LinearGame WITH
  solved <- AcceptedTasks, closed <- ClosedGroups
PlaysTheGame == Game!Spec
=============================================================================
