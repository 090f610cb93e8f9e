------------------------------ MODULE Results -------------------------------
(***************************************************************************)
(* The results of a quest and the penalties its creator gives:             *)
(*   table        GET  /quest/{id}/table        HandleTableResults         *)
(*   leaderboard  GET  /quest/{id}/leaderboard  HandleLeaderboard          *)
(*   penalty      POST /quest/{id}/penalty      HandleAddPenalty           *)
(* The first two read scores and penalties in separate statements outside  *)
(* a transaction; the last runs in a READ COMMITTED one, which deletes the *)
(* penalties of the team it sees and inserts the new one.                  *)
(*                                                                         *)
(* The creator and the quest are checked as in the code; requests that are *)
(* refused for them change nothing and are left out.  Accepted teams and   *)
(* tasks stay as they are.                                                 *)
(***************************************************************************)
EXTENDS Integers, FiniteSets, FiniteSetsExt, SequencesExt

CONSTANTS
  None,
  Requests,   \* requests that can be in progress at the same time
  Teams,      \* the accepted teams
  Name,       \* their names, in the order of strings
  Score,      \* what each task may bring, whatever hints were taken
  Values,     \* the penalties given
  Penalized,  \* bound: the teams that are given penalties
  MaxTime,    \* bound: the times of answers
  MaxAnswers, \* bound: the number of accepted answers
  MaxLate     \* bound: the answers in progress when the quest is finished

Tasks == DOMAIN Score

ASSUME ResultsAssumption ==
  /\ IsFiniteSet(Teams)
  /\ Name \in [Teams -> Nat]
  /\ Score \in [Tasks -> SUBSET Int]
  /\ Values \subseteq Int
  /\ Penalized \subseteq Teams
  /\ {MaxTime, MaxAnswers, MaxLate} \subseteq Nat

VARIABLES
  answers,   \* answer_try: the accepted answers
  penalty,   \* team_penalty; by, its writer, stands for the serial id
  finished,  \* quest.finished
  late,      \* answers in progress since before the quest was finished
  loc        \* per request: where it is, what it has read and written

vars == <<answers, penalty, finished, late, loc>>

NoTotals == [t \in Teams |-> {}]

(* seen, deleted: rows a DELETE waits for and has deleted.  alone: no      *)
(* other penalty of the team was in progress meanwhile.  totals: what each *)
(* team's total may have been meanwhile.  joined: the teams whose late answer   *)
(* was committed meanwhile.  rows: what is served.                         *)
Idle == [pc |-> "idle", op |-> "none", team |-> None, value |-> 0,
         seen |-> {}, deleted |-> {}, alone |-> TRUE,
         scores |-> {}, totals |-> NoTotals, joined |-> {}, rows |-> <<>>]

Init ==
  /\ answers = {}
  /\ penalty = {}
  /\ finished = FALSE
  /\ late = {}
  /\ loc = [r \in Requests |-> Idle]

-----------------------------------------------------------------------------
ScoreResults(scores, team) == {a \in scores : a.team = team}
Penalties(rows, team) == {p \in rows : p.team = team}

(* Tries that overlap can both be accepted.  The map of results has one    *)
(* score of each task, that of the row read last.                          *)
SameTask(a, b) == a.team = b.team /\ a.task = b.task
OneEach(tries) ==
  {S \in SUBSET tries : /\ \A a, b \in S : SameTask(a, b) => a = b
                        /\ \A a \in tries : \E b \in S : SameTask(a, b)}

Sum(scores) == MapThenSumSet(LAMBDA a : a.score, scores)

TaskScore(scores, team) == Sum(ScoreResults(scores, team))
Penalty(rows, team) == MapThenSumSet(LAMBDA p : p.value, Penalties(rows, team))

LastCorrect(scores, team) ==
  LET times == {a.time : a \in ScoreResults(scores, team)}
  IN  IF times = {} THEN None ELSE Max(times)

Row(scores, rows, team) ==
  [team |-> team,
   total |-> TaskScore(scores, team) - Penalty(rows, team),
   last |-> LastCorrect(scores, team)]

\* mutant: the time before the score
TimeFirst(x, y) ==
  IF x.last # None /\ y.last # None THEN x.last < y.last ELSE x.total >= y.total

(* The comparator given to sort.Slice.                                     *)
Before(x, y) ==
  CASE x.total # y.total -> x.total >= y.total
    [] x.total = y.total /\ x.last # None /\ y.last # None -> x.last < y.last
    [] OTHER -> Name[x.team] >= Name[y.team]

(* sort.Slice inserts one element after another when there are at most 12. *)
Insert(sorted, x) ==
  LET stops == {i \in DOMAIN sorted : ~Before(x, sorted[i])}
  IN  InsertAt(sorted, Max(stops \cup {0}) + 1, x)
SortRows(rows) == FoldLeft(Insert, <<>>, rows)

(* The totals a team may be shown: more than one if tries overlapped.      *)
Totals(team) ==
  {Sum(S) - Penalty(penalty, team) : S \in OneEach(ScoreResults(answers, team))}

Step(r, change) == loc' = [loc EXCEPT ![r] = change]

(* The totals a request in progress might show become known.               *)
Noted(l) ==
  IF l.op # "leaderboard" THEN l
  ELSE [l EXCEPT !.totals = [t \in Teams |-> @[t] \cup Totals(t)']]

-----------------------------------------------------------------------------
(* TryAnswer, see PlayMode: it accepts an answer only if the quest was not *)
(* finished when it looked, which was before its transaction; other tries  *)
(* of the team at the task may be late, too.                               *)
CreateAnswerTry(team, task, time, score) ==
  /\ finished => <<team, task>> \in late
  /\ Cardinality(answers) < MaxAnswers
  /\ answers' = answers \cup {[team |-> team, task |-> task, time |-> time, score |-> score]}
  /\ late' \in {late, late \ {<<team, task>>}}
  /\ UNCHANGED <<penalty, finished>>
  /\ loc' = [r \in Requests |->
       [Noted(loc[r]) EXCEPT !.joined =
          IF finished /\ loc[r].op = "leaderboard" THEN @ \cup {team} ELSE @]]

FinishQuest ==
  /\ ~finished
  /\ finished' = TRUE
  /\ late' \in {S \in SUBSET (Teams \X Tasks) : Cardinality(S) <= MaxLate}
  /\ UNCHANGED <<answers, penalty, loc>>

-----------------------------------------------------------------------------
HandleTableResults(r) ==
  /\ loc[r].pc = "idle"
  /\ Step(r, [Idle EXCEPT !.pc = "scores", !.op = "table"])
  /\ UNCHANGED <<answers, penalty, finished, late>>

\* mutant: a leaderboard at any time
LeaderboardAtOnce(r) ==
  /\ loc[r].pc = "idle"
  /\ Step(r, [Idle EXCEPT !.pc = "scores", !.op = "leaderboard",
                          !.totals = [t \in Teams |-> Totals(t)]])
  /\ UNCHANGED <<answers, penalty, finished, late>>

HandleLeaderboard(r) ==
  /\ loc[r].pc = "idle"
  /\ finished
  /\ Step(r, [Idle EXCEPT !.pc = "scores", !.op = "leaderboard",
                          !.totals = [t \in Teams |-> Totals(t)]])
  /\ UNCHANGED <<answers, penalty, finished, late>>

GetScoreResults(r) ==
  /\ loc[r].pc = "scores"
  /\ \E scores \in OneEach(answers) :
       Step(r, [loc[r] EXCEPT !.pc = "penalties", !.scores = scores])
  /\ UNCHANGED <<answers, penalty, finished, late>>

(* GetTeams returned the teams in any order.                               *)
GetPenalties(r) ==
  /\ loc[r].pc = "penalties"
  /\ \E teams \in SetToSeqs(Teams) :
       LET rows == [i \in DOMAIN teams |-> Row(loc[r].scores, penalty, teams[i])]
       IN  Step(r, [loc[r] EXCEPT !.pc = "served", !.scores = {}, !.rows = SortRows(rows)])
  /\ UNCHANGED <<answers, penalty, finished, late>>

Serve(r) ==
  /\ loc[r].pc = "served"
  /\ Step(r, Idle)
  /\ UNCHANGED <<answers, penalty, finished, late>>

-----------------------------------------------------------------------------
Penalizes(r, team) == loc[r].op = "penalty" /\ loc[r].team = team

HandleAddPenalty(r, team, value) ==
  /\ loc[r].pc = "idle"
  /\ loc' = [q \in Requests |->
       IF q = r THEN [Idle EXCEPT !.pc = "delete", !.op = "penalty", !.team = team, !.value = value,
                                  !.alone = ~\E s \in Requests : Penalizes(s, team)]
       ELSE [loc[q] EXCEPT !.alone = @ /\ ~Penalizes(q, team)]]
  /\ UNCHANGED <<answers, penalty, finished, late>>

\* mutant: a DELETE waits for nobody
NobodyLocks(r, rows) == FALSE

Locked(r, rows) == \E q \in Requests \ {r} : loc[q].deleted \cap rows # {}

\* mutant: only the penalties given by the same request are replaced
OwnPenalties(r) == {p \in Penalties(penalty, loc[r].team) : p.by = r}

Replaced(r) == Penalties(penalty, loc[r].team)

(* DELETE: it waits for rows another transaction deletes.                  *)
DeletePenalties(r) ==
  /\ loc[r].pc = "delete"
  /\ Step(r, IF Locked(r, Replaced(r))
             THEN [loc[r] EXCEPT !.pc = "wait", !.seen = Replaced(r)]
             ELSE [loc[r] EXCEPT !.pc = "insert", !.deleted = Replaced(r)])
  /\ UNCHANGED <<answers, penalty, finished, late>>

(* They were deleted, or their transaction was rolled back: the statement  *)
(* goes on with the rows it saw, without those inserted since.             *)
DeleteSeen(r) ==
  /\ loc[r].pc = "wait"
  /\ ~Locked(r, loc[r].seen)
  /\ Step(r, [loc[r] EXCEPT !.pc = "insert", !.deleted = loc[r].seen, !.seen = {}])
  /\ UNCHANGED <<answers, penalty, finished, late>>

(* INSERT and COMMIT; a deleted row is gone for those that wait for it.    *)
CommitPenalty(r) ==
  /\ loc[r].pc = "insert"
  /\ penalty' = (penalty \ loc[r].deleted)
                  \cup {[by |-> r, team |-> loc[r].team, value |-> loc[r].value]}
  /\ UNCHANGED <<answers, finished, late>>
  /\ loc' = [q \in Requests |->
       IF q = r THEN Idle
       ELSE Noted([loc[q] EXCEPT !.seen = @ \ loc[r].deleted])]

(* A statement fails or the client goes away.                              *)
Fail(r) ==
  /\ loc[r].pc \in {"scores", "penalties", "delete", "wait", "insert"}
  /\ Step(r, Idle)
  /\ UNCHANGED <<answers, penalty, finished, late>>

Request(r) ==
  \/ HandleTableResults(r) \/ HandleLeaderboard(r)
  \/ \E team \in Penalized, value \in Values : HandleAddPenalty(r, team, value)
  \/ GetScoreResults(r) \/ GetPenalties(r) \/ Serve(r)
  \/ DeletePenalties(r) \/ DeleteSeen(r) \/ CommitPenalty(r) \/ Fail(r)

Next ==
  \/ \E team \in Teams, task \in Tasks, time \in 0 .. MaxTime :
       \E score \in Score[task] : CreateAnswerTry(team, task, time, score)
  \/ FinishQuest
  \/ \E r \in Requests : Request(r)

Spec == Init /\ [][Next]_vars

-----------------------------------------------------------------------------
(* Every variable has its type, a writer has one penalty of a team at most *)
(* and only deletes penalties that are still there.                        *)
TypeOK ==
  /\ answers \subseteq [team : Teams, task : Tasks, time : 0 .. MaxTime, score : Int]
  /\ penalty \subseteq [by : Requests, team : Penalized, value : Values]
  /\ \A p, q \in penalty : p.by = q.by /\ p.team = q.team => p = q
  /\ finished \in BOOLEAN
  /\ late \subseteq Teams \X Tasks
  /\ \A r \in Requests :
       /\ loc[r].pc \in {"idle", "scores", "penalties", "served", "delete", "wait", "insert"}
       /\ loc[r].seen \cup loc[r].deleted \subseteq Penalties(penalty, loc[r].team)
       /\ loc[r].scores \subseteq answers

Tied(rows, i) == {j \in DOMAIN rows : rows[j].total = rows[i].total}

(* Whatever order the teams are read in, both tables (game.go:289 and 351) *)
(* are sorted by total, and teams of one total which all have an accepted  *)
(* answer by the time of the last one: the comparator is not an order once *)
(* one of them has none.                                                   *)
RanksAreFair ==
  \A r \in Requests : \A i, j \in DOMAIN loc[r].rows :
    LET rows == loc[r].rows IN
    i < j =>
      /\ rows[i].total >= rows[j].total
      /\ rows[i].total = rows[j].total /\ (\A k \in Tied(rows, i) : rows[k].last # None)
           => rows[i].last <= rows[j].last

(* Scores and penalties are read one after the other (game.go:322, 326):   *)
(* yet every total on the leaderboard is one the team had meanwhile (with  *)
(* one of their scores, if tries overlapped), but for a team whose answer  *)
(* was in progress when the quest was finished and is committed while the  *)
(* leaderboard is read.                                                    *)
LeaderboardShowsTotals ==
  \A r \in Requests : loc[r].op = "leaderboard" =>
    \A i \in DOMAIN loc[r].rows :
      LET row == loc[r].rows[i]
      IN  row.total \in loc[r].totals[row.team] \/ row.team \in loc[r].joined

(* A penalty given while no other one of the team is in progress replaces  *)
(* all penalties of the team (answer_hint.go:396).                         *)
LonePenaltyReplaces ==
  [][\A r \in Requests :
       loc[r].pc = "insert" /\ loc[r].alone /\ penalty' # penalty /\ loc'[r] = Idle
         => Cardinality(Penalties(penalty', loc[r].team)) = 1]_vars
=============================================================================
