---------------------------- MODULE ResultsProofs ---------------------------
(***************************************************************************)
(* Proofs about Results, for any number of teams, requests and penalties:  *)
(* its type invariant; that a penalty given alone replaces all others of   *)
(* its team; that both tables rank teams fairly; and that a leaderboard    *)
(* shows totals the teams had.                                             *)
(*                                                                         *)
(* SortRows and the sums are folds.  SortSteps and SumsExist prove, by     *)
(* induction over indexes and over sizes of sets, that the functions the   *)
(* folds choose exist; what they compute follows from their equations.     *)
(***************************************************************************)
EXTENDS Results, FiniteSetTheorems, SequenceTheorems, WellFoundedInduction, TLAPS

Labels == {"idle", "scores", "penalties", "served", "delete", "wait", "insert"}
Penalizing == {"delete", "wait", "insert"}

(* A request is a record with these fields, over what the tables hold.     *)
Over(scores, rows, l) ==
  l \in [pc : Labels, op : {"none", "table", "leaderboard", "penalty"},
         team : Penalized \cup {None}, value : {l.value},
         seen : SUBSET rows, deleted : SUBSET rows, alone : BOOLEAN,
         scores : SUBSET scores, totals : {l.totals}, joined : {l.joined}, rows : {l.rows}]
IsRequest(l) == Over(answers, penalty, l)

(* What a request that penalizes has seen and deleted: all penalties of    *)
(* its team that were there, hence all of its own, which nobody else adds; *)
(* and, while it is alone, still all there are.                            *)
Deletes(r, l) ==
  /\ l.op = "penalty" <=> l.pc \in Penalizing
  /\ l.pc \in Penalizing => l.team \in Penalized /\ l.value \in Values
  /\ l.seen # {} => l.pc = "wait"
  /\ l.deleted # {} => l.pc = "insert"
  /\ l.seen \cup l.deleted \subseteq Penalties(penalty, l.team)
  /\ l.pc \in {"wait", "insert"} =>
       /\ \A p \in Penalties(penalty, l.team) : p.by = r => p \in l.seen \cup l.deleted
       /\ l.alone => l.seen \cup l.deleted = Penalties(penalty, l.team)

(* Nobody else penalizes the team of a request that is alone, and nobody   *)
(* deletes what another has deleted.                                       *)
Apart(q, r) ==
  /\ loc[r].op = "penalty" /\ loc[r].alone => ~Penalizes(q, loc[r].team)
  /\ loc[q].deleted \cap loc[r].deleted = {}

Stored ==
  /\ answers \subseteq [team : Teams, task : Tasks, time : 0 .. MaxTime, score : Int]
  /\ penalty \subseteq [by : Requests, team : Penalized, value : Values]
  /\ \A p, q \in penalty : p.by = q.by /\ p.team = q.team => p = q
  /\ finished \in BOOLEAN
  /\ late \subseteq Teams \X Tasks

IInv ==
  /\ Stored
  /\ DOMAIN loc = Requests /\ loc = [r \in Requests |-> loc[r]]
  /\ \A r \in Requests : IsRequest(loc[r]) /\ Deletes(r, loc[r])
  /\ \A r \in Requests : \A q \in Requests \ {r} : Apart(q, r)

LEMMA IInvImpliesTypes == IInv => TypeOK
  BY DEF IInv, Stored, IsRequest, Over, Deletes, TypeOK, Labels

LEMMA Knows ==
  ASSUME IInv, NEW r \in Requests
  PROVE  IsRequest(loc[r]) /\ Deletes(r, loc[r])
  BY DEF IInv

-----------------------------------------------------------------------------
LEMMA IdleIsSound ==
  ASSUME NEW r \in Requests
  PROVE  /\ IsRequest(Idle) /\ Deletes(r, Idle)
         /\ Idle.op = "none" /\ Idle.deleted = {}
  BY DEF IsRequest, Over, Deletes, Idle, Labels, Penalizing

LEMMA InitIsSound == Init => IInv
  <1> SUFFICES ASSUME Init PROVE IInv
    OBVIOUS
  <1>1. Stored
    BY DEF Init, Stored
  <1>2. loc = [r \in Requests |-> Idle]
    BY DEF Init
  <1>3. \A r \in Requests : loc[r] = Idle
    BY <1>2
  <1>4. loc = [r \in Requests |-> loc[r]] /\ DOMAIN loc = Requests
    BY <1>2
  <1>5. \A r \in Requests : \A q \in Requests \ {r} : Apart(q, r)
    BY <1>3, IdleIsSound DEF Apart
  <1> QED
    BY <1>1, <1>3, <1>4, <1>5, IdleIsSound DEF IInv

(* One request goes on and no table changes.                               *)
LEMMA GoesOn ==
  ASSUME IInv, NEW r \in Requests, NEW l, Step(r, l),
         UNCHANGED <<answers, penalty, finished, late>>,
         IsRequest(l), Deletes(r, l),
         l.op = "penalty" => /\ loc[r].op = "penalty" /\ l.team = loc[r].team
                             /\ l.alone = loc[r].alone,
         \A q \in Requests \ {r} : loc[q].deleted \cap l.deleted = {}
  PROVE  IInv'
  <1> USE DEF IInv
  <1>1. Stored'
    BY DEF Stored
  <1>2. \A q \in Requests : loc'[q] = IF q = r THEN l ELSE loc[q]
    BY DEF Step
  <1>3. DOMAIN loc' = Requests /\ loc' = [q \in Requests |-> loc'[q]]
    BY DEF Step
  <1>4. \A q \in Requests : IsRequest(loc[q])'
    BY <1>2 DEF IsRequest
  <1>5. \A q \in Requests : Deletes(q, loc[q])'
    BY <1>2 DEF Deletes, Penalties
  <1>6. \A p \in Requests : \A q \in Requests \ {p} : Apart(q, p)'
    BY <1>2 DEF Apart, Penalizes
  <1> QED
    BY <1>1, <1>3, <1>4, <1>5, <1>6

LEMMA EndsIdle ==
  ASSUME IInv, NEW r \in Requests, Step(r, Idle), UNCHANGED <<answers, penalty, finished, late>>
  PROVE  IInv'
  BY IdleIsSound, GoesOn

(* What only a leaderboard looks at can change without a penalty noticing. *)
Alike(m, l) ==
  /\ m.pc = l.pc /\ m.op = l.op /\ m.team = l.team /\ m.value = l.value
  /\ m.seen = l.seen /\ m.deleted = l.deleted /\ m.alone = l.alone

LEMMA Joins ==
  ASSUME NEW A, NEW P, NEW l, Over(A, P, l), NEW x
  PROVE  Over(A, P, [l EXCEPT !.joined = x]) /\ Alike([l EXCEPT !.joined = x], l)
  BY DEF Over, Alike

LEMMA Counts ==
  ASSUME NEW A, NEW P, NEW l, Over(A, P, l), NEW x
  PROVE  Over(A, P, [l EXCEPT !.totals = x]) /\ Alike([l EXCEPT !.totals = x], l)
  BY DEF Over, Alike

LEMMA NotedIsAlike ==
  ASSUME NEW A, NEW P, NEW l, Over(A, P, l)
  PROVE  Over(A, P, Noted(l)) /\ Alike(Noted(l), l)
  <1>1. CASE l.op # "leaderboard"
    BY <1>1 DEF Noted, Alike
  <1>2. CASE l.op = "leaderboard"
    <2> DEFINE x == [t \in Teams |-> l.totals[t] \cup Totals(t)']
    <2>1. Noted(l) = [l EXCEPT !.totals = x]
      BY <1>2 DEF Noted
    <2> HIDE DEF x
    <2> QED
      BY <2>1, Counts
  <1> QED
    BY <1>1, <1>2

LEMMA OverGrows ==
  ASSUME NEW A, NEW P, NEW B, NEW Q, A \subseteq B, P \subseteq Q, NEW l, Over(A, P, l)
  PROVE  Over(B, Q, l)
  BY DEF Over

(* What a request reads leaves its penalty, if any, alone.                 *)
LEMMA ReadsKeep ==
  ASSUME IInv, NEW r \in Requests,
         \/ HandleTableResults(r) \/ HandleLeaderboard(r) \/ GetScoreResults(r)
         \/ GetPenalties(r) \/ Serve(r) \/ Fail(r)
  PROVE  IInv'
  <1>1. CASE HandleTableResults(r) \/ HandleLeaderboard(r)
    <2>1. PICK totals : Step(r, [Idle EXCEPT !.pc = "scores", !.op = "leaderboard", !.totals = totals])
                        \/ Step(r, [Idle EXCEPT !.pc = "scores", !.op = "table"])
      BY <1>1 DEF HandleTableResults, HandleLeaderboard
    <2>2. CASE Step(r, [Idle EXCEPT !.pc = "scores", !.op = "leaderboard", !.totals = totals])
      <3> DEFINE l == [Idle EXCEPT !.pc = "scores", !.op = "leaderboard", !.totals = totals]
      <3>1. IsRequest(l) /\ Deletes(r, l) /\ l.op = "leaderboard" /\ l.deleted = {}
        BY DEF IsRequest, Over, Deletes, Idle, Labels, Penalizing
      <3> HIDE DEF l
      <3> QED
        BY <1>1, <2>2, <3>1, GoesOn DEF HandleTableResults, HandleLeaderboard, l
    <2>3. CASE Step(r, [Idle EXCEPT !.pc = "scores", !.op = "table"])
      <3> DEFINE l == [Idle EXCEPT !.pc = "scores", !.op = "table"]
      <3>1. IsRequest(l) /\ Deletes(r, l) /\ l.op = "table" /\ l.deleted = {}
        BY DEF IsRequest, Over, Deletes, Idle, Labels, Penalizing
      <3> HIDE DEF l
      <3> QED
        BY <1>1, <2>3, <3>1, GoesOn DEF HandleTableResults, HandleLeaderboard, l
    <2> QED
      BY <2>1, <2>2, <2>3
  <1>2. CASE GetScoreResults(r)
    <2>1. PICK scores \in OneEach(answers) :
            Step(r, [loc[r] EXCEPT !.pc = "penalties", !.scores = scores])
      BY <1>2 DEF GetScoreResults
    <2>2. scores \subseteq answers
      BY DEF OneEach
    <2> DEFINE l == [loc[r] EXCEPT !.pc = "penalties", !.scores = scores]
    <2>3. IsRequest(l) /\ Deletes(r, l) /\ l.op # "penalty" /\ l.deleted = {}
      BY <1>2, <2>2, Knows DEF GetScoreResults, IsRequest, Over, Deletes, Labels, Penalizing
    <2> HIDE DEF l
    <2>4. UNCHANGED <<answers, penalty, finished, late>>
      BY <1>2 DEF GetScoreResults
    <2>5. Step(r, l)
      BY <2>1 DEF l
    <2> QED
      BY <2>3, <2>4, <2>5, GoesOn
  <1>3. CASE GetPenalties(r)
    <2>1. PICK rows : Step(r, [loc[r] EXCEPT !.pc = "served", !.scores = {}, !.rows = rows])
      BY <1>3 DEF GetPenalties
    <2> DEFINE l == [loc[r] EXCEPT !.pc = "served", !.scores = {}, !.rows = rows]
    <2>2. IsRequest(l) /\ Deletes(r, l) /\ l.op # "penalty" /\ l.deleted = {}
      BY <1>3, Knows DEF GetPenalties, IsRequest, Over, Deletes, Labels, Penalizing
    <2> HIDE DEF l
    <2> QED
      BY <1>3, <2>1, <2>2, GoesOn DEF GetPenalties, l
  <1>4. CASE Serve(r) \/ Fail(r)
    BY <1>4, EndsIdle DEF Serve, Fail
  <1> QED
    BY <1>1, <1>2, <1>3, <1>4

(* Tables grow by an answer; requests only note the new totals.            *)
LEMMA AnswerKeeps ==
  ASSUME IInv, NEW team \in Teams, NEW task \in Tasks, NEW time \in 0 .. MaxTime,
         NEW score \in Score[task], CreateAnswerTry(team, task, time, score)
  PROVE  IInv'
  <1>1. /\ answers' = answers \cup {[team |-> team, task |-> task, time |-> time, score |-> score]}
        /\ late' \subseteq late /\ UNCHANGED <<penalty, finished>>
    BY DEF CreateAnswerTry
  <1>2. Stored'
    <2>1. score \in Int
      BY ResultsAssumption
    <2> QED
      BY <1>1, <2>1 DEF IInv, Stored
  <1>3. DOMAIN loc' = Requests /\ loc' = [r \in Requests |-> loc'[r]]
    BY DEF CreateAnswerTry
  <1>4. ASSUME NEW r \in Requests
        PROVE  IsRequest(loc[r])' /\ Alike(loc'[r], loc[r])
    <2>1. PICK joined : loc'[r] = [Noted(loc[r]) EXCEPT !.joined = joined]
      BY DEF CreateAnswerTry
    <2>2. Over(answers, penalty, Noted(loc[r])) /\ Alike(Noted(loc[r]), loc[r])
      BY Knows, NotedIsAlike DEF IsRequest
    <2>3. Over(answers, penalty, loc'[r]) /\ Alike(loc'[r], Noted(loc[r]))
      BY <2>1, <2>2, Joins
    <2>4. Over(answers', penalty', loc'[r])
      BY <1>1, <2>3, OverGrows
    <2> QED
      BY <2>2, <2>3, <2>4 DEF IsRequest, Alike
  <1>5. \A r \in Requests : Deletes(r, loc[r])'
    BY <1>1, <1>4, Knows DEF Deletes, Penalties, Alike
  <1>6. \A r \in Requests : \A q \in Requests \ {r} : Apart(q, r)'
    BY <1>4 DEF IInv, Apart, Penalizes, Alike
  <1> QED
    BY <1>2, <1>3, <1>4, <1>5, <1>6 DEF IInv

LEMMA FinishKeeps ==
  ASSUME IInv, FinishQuest
  PROVE  IInv'
  BY DEF FinishQuest, IInv, Stored, IsRequest, Deletes, Penalties, Apart, Penalizes

-----------------------------------------------------------------------------
(* A penalty arrives, and the others of its team are not alone any more.   *)
LEMMA HandleAddPenaltyKeeps ==
  ASSUME IInv, NEW r \in Requests, NEW team \in Penalized, NEW value \in Values,
         HandleAddPenalty(r, team, value)
  PROVE  IInv'
  <1> DEFINE free == ~\E s \in Requests : Penalizes(s, team)
             l == [Idle EXCEPT !.pc = "delete", !.op = "penalty", !.team = team,
                               !.value = value, !.alone = free]
  <1>1. /\ loc[r].pc = "idle" /\ UNCHANGED <<answers, penalty, finished, late>>
        /\ loc' = [q \in Requests |-> IF q = r THEN l
                     ELSE [loc[q] EXCEPT !.alone = @ /\ ~Penalizes(q, team)]]
    BY DEF HandleAddPenalty
  <1>2. /\ IsRequest(l) /\ Deletes(r, l) /\ l.op = "penalty" /\ l.team = team
        /\ l.alone = free /\ l.deleted = {}
    BY DEF IsRequest, Over, Deletes, Idle, Labels, Penalizing
  <1> HIDE DEF l, free
  <1>3. ASSUME NEW q \in Requests \ {r}
        PROVE  /\ IsRequest(loc[q])'
               /\ loc'[q].pc = loc[q].pc /\ loc'[q].op = loc[q].op /\ loc'[q].team = loc[q].team
               /\ loc'[q].value = loc[q].value
               /\ loc'[q].seen = loc[q].seen /\ loc'[q].deleted = loc[q].deleted
               /\ loc'[q].alone <=> loc[q].alone /\ ~Penalizes(q, team)
    <2>1. loc'[q] = [loc[q] EXCEPT !.alone = loc[q].alone /\ ~Penalizes(q, team)]
      BY <1>1
    <2>2. Over(answers, penalty, loc[q])
      BY Knows DEF IsRequest
    <2>3. UNCHANGED <<answers, penalty>>
      BY <1>1
    <2> QED
      BY <2>1, <2>2, <2>3 DEF Over, IsRequest
  <1>4. loc'[r] = l
    BY <1>1
  <1>5. DOMAIN loc' = Requests /\ loc' = [q \in Requests |-> loc'[q]]
    BY <1>1
  <1>6. Stored'
    BY <1>1 DEF IInv, Stored
  <1>7. ASSUME NEW q \in Requests \ {r} PROVE Deletes(q, loc[q])'
    BY <1>1, <1>3, Knows DEF Deletes, Penalties
  <1>8. IsRequest(loc[r])' /\ Deletes(r, loc[r])'
    <2>1. IsRequest(loc[r])'
      BY <1>1, <1>2, <1>4 DEF IsRequest
    <2>2. Deletes(r, loc[r])'
      BY <1>1, <1>2, <1>4 DEF Deletes, Penalties
    <2> QED
      BY <2>1, <2>2
  <1>9. \A q \in Requests \ {r} : Penalizes(q, team)' <=> Penalizes(q, team)
    BY <1>3 DEF Penalizes
  <1>10. ASSUME NEW q \in Requests \ {r} PROVE Apart(q, r)' /\ Apart(r, q)'
    <2>1. Apart(q, r)'
      BY <1>2, <1>3, <1>4, <1>9 DEF Apart, Penalizes, free
    <2>2. Apart(r, q)'
      BY <1>2, <1>3, <1>4, <1>9 DEF Apart, Penalizes
    <2> QED
      BY <2>1, <2>2
  <1>11. ASSUME NEW p \in Requests \ {r}, NEW q \in Requests \ {r}, p # q
         PROVE  Apart(q, p)'
    <2>1. Apart(q, p)
      BY <1>11 DEF IInv
    <2>2. loc'[p].alone => loc[p].alone
      BY <1>3
    <2>3. Penalizes(q, loc[p].team)' <=> Penalizes(q, loc[p].team)
      BY <1>3 DEF Penalizes
    <2> QED
      BY <1>3, <2>1, <2>2, <2>3 DEF Apart
  <1> QED
    BY <1>3, <1>5, <1>6, <1>7, <1>8, <1>10, <1>11 DEF IInv

LEMMA DeletePenaltiesKeeps ==
  ASSUME IInv, NEW r \in Requests, DeletePenalties(r)
  PROVE  IInv'
  <1>1. /\ loc[r].pc = "delete" /\ loc[r].op = "penalty" /\ loc[r].seen = {} /\ loc[r].deleted = {}
        /\ Replaced(r) \subseteq penalty /\ UNCHANGED <<answers, penalty, finished, late>>
    BY Knows DEF DeletePenalties, Deletes, Penalizing, Replaced, Penalties
  <1>2. CASE Locked(r, Replaced(r))
    <2> DEFINE l == [loc[r] EXCEPT !.pc = "wait", !.seen = Replaced(r)]
    <2>1. /\ IsRequest(l) /\ Deletes(r, l) /\ l.deleted = {}
          /\ l.team = loc[r].team /\ l.alone = loc[r].alone
      BY <1>1, Knows DEF IsRequest, Over, Deletes, Labels, Penalizing, Replaced
    <2> HIDE DEF l
    <2> QED
      BY <1>1, <1>2, <2>1, GoesOn DEF DeletePenalties, l
  <1>3. CASE ~Locked(r, Replaced(r))
    <2> DEFINE l == [loc[r] EXCEPT !.pc = "insert", !.deleted = Replaced(r)]
    <2>1. /\ IsRequest(l) /\ Deletes(r, l) /\ l.deleted = Replaced(r)
          /\ l.team = loc[r].team /\ l.alone = loc[r].alone
      BY <1>1, Knows DEF IsRequest, Over, Deletes, Labels, Penalizing, Replaced
    <2>2. \A q \in Requests \ {r} : loc[q].deleted \cap l.deleted = {}
      BY <1>3, <2>1 DEF Locked
    <2> HIDE DEF l
    <2> QED
      BY <1>1, <1>3, <2>1, <2>2, GoesOn DEF DeletePenalties, l
  <1> QED
    BY <1>2, <1>3

LEMMA DeleteSeenKeeps ==
  ASSUME IInv, NEW r \in Requests, DeleteSeen(r)
  PROVE  IInv'
  <1> DEFINE l == [loc[r] EXCEPT !.pc = "insert", !.deleted = loc[r].seen, !.seen = {}]
  <1>1. /\ loc[r].pc = "wait" /\ loc[r].op = "penalty" /\ loc[r].deleted = {}
        /\ ~Locked(r, loc[r].seen) /\ UNCHANGED <<answers, penalty, finished, late>>
    BY Knows DEF DeleteSeen, Deletes, Penalizing
  <1>2. /\ IsRequest(l) /\ Deletes(r, l) /\ l.deleted = loc[r].seen
        /\ l.team = loc[r].team /\ l.alone = loc[r].alone
    BY <1>1, Knows DEF IsRequest, Over, Deletes, Labels, Penalizing
  <1>3. \A q \in Requests \ {r} : loc[q].deleted \cap l.deleted = {}
    BY <1>1, <1>2 DEF Locked
  <1> HIDE DEF l
  <1> QED
    BY <1>1, <1>2, <1>3, GoesOn DEF DeleteSeen, l

(* A penalty takes the place of those its request has deleted; requests    *)
(* that are alone are about another team.                                  *)
LEMMA CommitPenaltyKeeps ==
  ASSUME IInv, NEW r \in Requests, CommitPenalty(r)
  PROVE  IInv'
  <1> DEFINE new == [by |-> r, team |-> loc[r].team, value |-> loc[r].value]
             gone == loc[r].deleted
  <1>1. /\ loc[r].pc = "insert" /\ loc[r].op = "penalty" /\ loc[r].seen = {}
        /\ loc[r].team \in Penalized /\ loc[r].value \in Values
        /\ gone \subseteq Penalties(penalty, loc[r].team)
        /\ \A p \in Penalties(penalty, loc[r].team) : p.by = r => p \in gone
    BY DEF IInv, CommitPenalty, Deletes, Penalizing
  <1>2. penalty' = (penalty \ gone) \cup {new} /\ UNCHANGED <<answers, finished, late>>
    BY DEF CommitPenalty
  <1>3. new \in [by : Requests, team : Penalized, value : Values]
        /\ new.by = r /\ new.team = loc[r].team
    BY <1>1
  <1> HIDE DEF new, gone
  <1>4. Stored'
    <2>1. \A p \in penalty \ gone : p.by = r => p.team # loc[r].team
      BY <1>1 DEF Penalties
    <2> QED
      BY <1>2, <1>3, <2>1 DEF IInv, Stored
  <1>5. DOMAIN loc' = Requests /\ loc' = [q \in Requests |-> loc'[q]]
    BY DEF CommitPenalty
  <1>6. loc'[r] = Idle
    BY DEF CommitPenalty
  <1>7. ASSUME NEW q \in Requests \ {r}
        PROVE  /\ IsRequest(loc[q])'
               /\ loc'[q].pc = loc[q].pc /\ loc'[q].op = loc[q].op /\ loc'[q].team = loc[q].team
               /\ loc'[q].value = loc[q].value /\ loc'[q].alone = loc[q].alone
               /\ loc'[q].seen = loc[q].seen \ gone /\ loc'[q].deleted = loc[q].deleted
    <2> DEFINE l == [loc[q] EXCEPT !.seen = @ \ gone]
    <2>1. loc'[q] = Noted(l)
      BY DEF CommitPenalty, gone
    <2>2. loc[q].deleted \cap gone = {}
      BY DEF IInv, Apart, gone
    <2>3. Over(answers, penalty, loc[q])
      BY Knows DEF IsRequest
    <2>4. loc[q].deleted \subseteq penalty' /\ loc[q].seen \ gone \subseteq penalty'
      BY <1>2, <2>2, <2>3 DEF Over
    <2>5. /\ l.pc = loc[q].pc /\ l.op = loc[q].op /\ l.team = loc[q].team
          /\ l.value = loc[q].value /\ l.alone = loc[q].alone
          /\ l.seen = loc[q].seen \ gone /\ l.deleted = loc[q].deleted
          /\ Over(answers, penalty', l)
      BY <2>3, <2>4 DEF Over
    <2> HIDE DEF l
    <2>6. Over(answers, penalty', Noted(l)) /\ Alike(Noted(l), l)
      BY <2>5, NotedIsAlike
    <2> QED
      BY <1>2, <2>1, <2>5, <2>6 DEF IsRequest, Alike
  <1>8. ASSUME NEW q \in Requests \ {r} PROVE Deletes(q, loc[q])'
    <2>1. loc[q].deleted \cap gone = {}
      BY DEF IInv, Apart, gone
    <2>2. CASE loc[q].pc \in Penalizing /\ loc[q].alone
      <3>1. loc[q].team # loc[r].team
        BY <1>1, <2>2 DEF IInv, Apart, Penalizes, Deletes
      <3>2. Penalties(penalty', loc[q].team) = Penalties(penalty, loc[q].team)
            /\ loc[q].seen \cap gone = {}
        BY <1>1, <1>2, <1>3, <3>1 DEF IInv, Penalties, Deletes
      <3> QED
        BY <1>7, <3>2 DEF IInv, Deletes
    <2>3. CASE ~(loc[q].pc \in Penalizing /\ loc[q].alone)
      <3>1. Penalties(penalty', loc[q].team) \subseteq
              (Penalties(penalty, loc[q].team) \ gone) \cup {new}
        BY <1>2 DEF Penalties
      <3>2. (loc[q].seen \ gone) \cup loc[q].deleted \subseteq Penalties(penalty', loc[q].team)
        BY <1>2, <2>1 DEF IInv, Penalties, Deletes
      <3> QED
        BY <1>3, <1>7, <2>3, <3>1, <3>2 DEF IInv, Deletes, Penalizing
    <2> QED
      BY <2>2, <2>3
  <1>9. IsRequest(loc[r])' /\ Deletes(r, loc[r])'
    BY <1>6 DEF IsRequest, Over, Deletes, Idle, Labels, Penalizing
  <1>10. \A p \in Requests : \A q \in Requests \ {p} : Apart(q, p)'
    BY <1>6, <1>7, IdleIsSound DEF IInv, Apart, Penalizes
  <1> QED
    BY <1>4, <1>5, <1>7, <1>8, <1>9, <1>10 DEF IInv

LEMMA NextKeeps == IInv /\ [Next]_vars => IInv'
  <1> SUFFICES ASSUME IInv, [Next]_vars PROVE IInv'
    OBVIOUS
  <1>1. CASE UNCHANGED vars
    BY <1>1 DEF vars, IInv, Stored, IsRequest, Deletes, Penalties, Apart, Penalizes
  <1>2. CASE Next
    BY <1>2, ReadsKeep, AnswerKeeps, FinishKeeps, HandleAddPenaltyKeeps,
       DeletePenaltiesKeeps, DeleteSeenKeeps, CommitPenaltyKeeps DEF Next, Request
  <1> QED
    BY <1>1, <1>2

THEOREM AlwaysSound == Spec => []IInv
  BY InitIsSound, NextKeeps, PTL DEF Spec

(* Tables and requests have their types; a writer has one penalty of a     *)
(* team at most, and what a request has deleted is still there to delete   *)
(* when it commits (TypeOK).                                               *)
THEOREM TypeCorrect == Spec => []TypeOK
  BY IInvImpliesTypes, AlwaysSound, PTL

-----------------------------------------------------------------------------
Replaces ==
  \A r \in Requests :
    loc[r].pc = "insert" /\ loc[r].alone /\ penalty' # penalty /\ loc'[r] = Idle
      => Cardinality(Penalties(penalty', loc[r].team)) = 1

LEMMA LoneCommit ==
  ASSUME IInv, [Next]_vars
  PROVE  Replaces
  <1> SUFFICES ASSUME NEW r \in Requests, loc[r].pc = "insert", loc[r].alone,
                      penalty' # penalty, loc'[r] = Idle
               PROVE  Cardinality(Penalties(penalty', loc[r].team)) = 1
    BY DEF Replaces
  <1>1. PICK q \in Requests : CommitPenalty(q)
    BY DEF Next, Request, vars, CreateAnswerTry, FinishQuest, HandleTableResults,
       HandleLeaderboard, GetScoreResults, GetPenalties, Serve, HandleAddPenalty,
       DeletePenalties, DeleteSeen, Fail
  <1>2. q = r
    <2> SUFFICES ASSUME q # r PROVE FALSE
      OBVIOUS
    <2>1. loc'[r] = Noted([loc[r] EXCEPT !.seen = @ \ loc[q].deleted])
      BY <1>1 DEF CommitPenalty
    <2>2. Noted([loc[r] EXCEPT !.seen = @ \ loc[q].deleted]).pc = "insert"
      BY DEF Noted, IInv, IsRequest
    <2> QED
      BY <2>1, <2>2 DEF Idle
  <1>3. loc[r].deleted = Penalties(penalty, loc[r].team)
    BY DEF IInv, Deletes
  <1> DEFINE new == [by |-> r, team |-> loc[r].team, value |-> loc[r].value]
  <1>4. penalty' = (penalty \ loc[r].deleted) \cup {new}
    BY <1>1, <1>2 DEF CommitPenalty
  <1>5. Penalties(penalty', loc[r].team) = {new}
    BY <1>3, <1>4 DEF Penalties
  <1> QED
    BY <1>5, FS_Singleton

(* A penalty that nobody else gives the team meanwhile replaces all others *)
(* of the team, whatever other penalties came before and overlapped.       *)
THEOREM LoneReplaces == Spec => LonePenaltyReplaces
  <1>1. IInv /\ [Next]_vars => [Replaces]_vars
    BY LoneCommit
  <1>2. Spec => [][Replaces]_vars
    BY <1>1, AlwaysSound, PTL DEF Spec
  <1> QED
    BY <1>2 DEF LonePenaltyReplaces, Replaces

-----------------------------------------------------------------------------
(* Induction over the numbers in a set.                                    *)
LEMMA Induction ==
  ASSUME NEW P, 0 \in P, \A n \in Nat : n \in P => n + 1 \in P
  PROVE  Nat \subseteq P
  <1> SUFFICES ASSUME Nat \ P # {} PROVE FALSE
    OBVIOUS
  <1>1. \E m \in Nat \ P : \A y \in Nat \ P : ~ (<<y, m>> \in OpToRel(<, Nat))
    <2>1. Nat \ P \subseteq Nat
      OBVIOUS
    <2> QED
      BY <2>1, NatLessThanWellFounded, WFMin, Zenon
  <1>2. PICK m \in Nat \ P : \A y \in Nat \ P : ~(y < m)
    BY <1>1 DEF OpToRel
  <1>3. m - 1 \in Nat /\ m - 1 \in P
    BY <1>2
  <1> QED
    BY <1>3

(* What FoldLeft folds: a step for the largest index.                      *)
Folded(rows, f, s) ==
  IF s = {} THEN <<>> ELSE Insert(f[s \ {Max(s)}], rows[Max(s)])
Folds(rows, m, f) == f = [s \in SUBSET (1 .. m) |-> Folded(rows, f, s)]

LEMMA LastIsMax ==
  ASSUME NEW m \in Nat, NEW s \in SUBSET (1 .. m), m \in s
  PROVE  Max(s) = m
  <1>1. \A x \in s : m >= x
    OBVIOUS
  <1>2. \A x \in s : (\A y \in s : x >= y) => x = m
    OBVIOUS
  <1> QED
    BY <1>1, <1>2 DEF Max

LEMMA FoldsExist ==
  ASSUME NEW rows, NEW n \in Nat
  PROVE  \E f : Folds(rows, n, f)
  <1> DEFINE P == {m \in Nat : \E f : Folds(rows, m, f)}
  <1>1. 0 \in P
    <2> DEFINE f == [s \in SUBSET (1 .. 0) |-> <<>>]
    <2>1. 1 .. 0 = {}
      OBVIOUS
    <2>2. Folds(rows, 0, f)
      BY <2>1 DEF Folds, Folded
    <2> QED
      BY <2>2
  <1>2. ASSUME NEW m \in Nat, m \in P PROVE m + 1 \in P
    <2>1. PICK f : Folds(rows, m, f)
      BY <1>2
    <2> DEFINE g == [s \in SUBSET (1 .. m + 1) |->
                       IF m + 1 \in s THEN Insert(f[s \ {m + 1}], rows[m + 1]) ELSE f[s]]
    <2>2. ASSUME NEW s \in SUBSET (1 .. m + 1) PROVE g[s] = Folded(rows, g, s)
      <3>1. CASE m + 1 \in s
        <4>1. Max(s) = m + 1
          BY <3>1, LastIsMax
        <4>2. s \ {m + 1} \in SUBSET (1 .. m) /\ s \ {m + 1} \in SUBSET (1 .. m + 1)
          OBVIOUS
        <4>3. g[s \ {m + 1}] = f[s \ {m + 1}]
          BY <4>2
        <4>4. g[s] = Insert(f[s \ {m + 1}], rows[m + 1])
          BY <3>1
        <4> HIDE DEF g
        <4> QED
          BY <3>1, <4>1, <4>3, <4>4 DEF Folded
      <3>2. CASE m + 1 \notin s
        <4>1. s \in SUBSET (1 .. m)
          BY <3>2
        <4>2. g[s] = Folded(rows, f, s)
          BY <2>1, <3>2, <4>1 DEF Folds
        <4>3. s # {} => g[s \ {Max(s)}] = f[s \ {Max(s)}]
          <5>1. s \ {Max(s)} \in SUBSET (1 .. m + 1) /\ m + 1 \notin s \ {Max(s)}
            BY <3>2
          <5> QED
            BY <5>1
        <4> HIDE DEF g
        <4> QED
          BY <4>2, <4>3 DEF Folded
      <3> QED
        BY <3>1, <3>2
    <2>3. Folds(rows, m + 1, g)
      <3>1. DOMAIN g = SUBSET (1 .. m + 1) /\ g = [s \in SUBSET (1 .. m + 1) |-> g[s]]
        OBVIOUS
      <3> HIDE DEF g
      <3> QED
        BY <2>2, <3>1 DEF Folds
    <2> HIDE DEF g
    <2> QED
      BY <2>3
  <1> HIDE DEF P
  <1>3. n \in P
    BY <1>1, <1>2, Induction
  <1> QED
    BY <1>3 DEF P

(* Sorting inserts one row after another.                                  *)
LEMMA SortSteps ==
  ASSUME NEW n \in Nat, NEW rows, DOMAIN rows = 1 .. n
  PROVE  \E sorted : /\ sorted[0] = <<>> /\ sorted[n] = SortRows(rows)
                     /\ \A k \in 1 .. n : sorted[k] = Insert(sorted[k - 1], rows[k])
  <1>1. PICK f : /\ f = CHOOSE g : Folds(rows, n, g)
                 /\ SortRows(rows) = f[1 .. n]
    BY Zenon DEF SortRows, FoldLeft, MapThenFoldSet, Folds, Folded
  <1>2. Folds(rows, n, f)
    BY <1>1, FoldsExist
  <1> DEFINE sorted == [k \in 0 .. n |-> f[1 .. k]]
  <1>3. sorted[0] = <<>>
    <2>1. 1 .. 0 = {} /\ {} \in SUBSET (1 .. n)
      OBVIOUS
    <2> QED
      BY <1>2, <2>1 DEF Folds, Folded
  <1>4. ASSUME NEW k \in 1 .. n PROVE sorted[k] = Insert(sorted[k - 1], rows[k])
    <2>1. 1 .. k \in SUBSET (1 .. n) /\ (1 .. k) \ {k} = 1 .. k - 1 /\ 1 .. k # {}
      OBVIOUS
    <2>2. Max(1 .. k) = k
      BY LastIsMax
    <2>3. f[1 .. k] = Folded(rows, f, 1 .. k)
      BY <1>2, <2>1 DEF Folds
    <2>4. f[1 .. k] = Insert(f[1 .. k - 1], rows[k])
      BY <2>1, <2>2, <2>3 DEF Folded
    <2> QED
      BY <2>4
  <1>5. sorted[n] = SortRows(rows)
    BY <1>1
  <1> QED
    BY <1>3, <1>4, <1>5

LEMMA MaxIs ==
  ASSUME NEW m \in Nat, NEW s \in SUBSET (0 .. m), s # {}
  PROVE  Max(s) \in s /\ \A y \in s : Max(s) >= y
  <1> DEFINE P == {b \in Nat : \A u \in SUBSET (0 .. b) : u # {} => \E x \in u : \A y \in u : x >= y}
  <1>1. 0 \in P
    <2>1. \A u \in SUBSET (0 .. 0) : u # {} => u = {0}
      <3>1. 0 .. 0 = {0}
        OBVIOUS
      <3> QED
        BY <3>1
    <2> QED
      BY <2>1
  <1>2. ASSUME NEW b \in Nat, b \in P PROVE b + 1 \in P
    <2>1. ASSUME NEW u \in SUBSET (0 .. b + 1), u # {} PROVE \E x \in u : \A y \in u : x >= y
      <3>1. CASE b + 1 \in u
        <4>1. \A y \in u : b + 1 >= y
          OBVIOUS
        <4> QED
          BY <3>1, <4>1
      <3>2. CASE b + 1 \notin u
        <4>1. u \in SUBSET (0 .. b)
          BY <3>2
        <4> QED
          BY <1>2, <2>1, <4>1
      <3> QED
        BY <3>1, <3>2
    <2> QED
      BY <2>1
  <1>3. m \in P
    <2> HIDE DEF P
    <2> QED
      BY <1>1, <1>2, Induction
  <1>4. \E x \in s : \A y \in s : x >= y
    BY <1>3
  <1> HIDE DEF P
  <1> QED
    BY <1>4 DEF Max

TableRows == [team : Teams, total : Int, last : (0 .. MaxTime) \cup {None}]

(* All rows of a total have a last answer.                                 *)
Timed(rows, total) == \A i \in DOMAIN rows : rows[i].total = total => rows[i].last # None

Fair(rows) ==
  \A i, j \in DOMAIN rows : i < j =>
    /\ rows[i].total >= rows[j].total
    /\ rows[i].total = rows[j].total /\ Timed(rows, rows[i].total) => rows[i].last <= rows[j].last

LEMMA InsertAtElements ==
  ASSUME NEW s \in Seq(TableRows), NEW x \in TableRows, NEW k \in 0 .. Len(s)
  PROVE  /\ InsertAt(s, k + 1, x) \in Seq(TableRows)
         /\ Len(InsertAt(s, k + 1, x)) = Len(s) + 1
         /\ \A i \in 1 .. k : InsertAt(s, k + 1, x)[i] = s[i]
         /\ InsertAt(s, k + 1, x)[k + 1] = x
         /\ \A i \in k + 2 .. Len(s) + 1 : InsertAt(s, k + 1, x)[i] = s[i - 1]
  <1> DEFINE a == SubSeq(s, 1, k)
             b == SubSeq(s, k + 1, Len(s))
  <1>1. a \in Seq(TableRows) /\ Len(a) = k /\ \A i \in 1 .. k : a[i] = s[i]
    OBVIOUS
  <1>2. b \in Seq(TableRows) /\ Len(b) = Len(s) - k /\ \A i \in 1 .. Len(s) - k : b[i] = s[k + i]
    OBVIOUS
  <1>3. InsertAt(s, k + 1, x) = (a \o <<x>>) \o b
    <2>1. (k + 1) - 1 = k
      OBVIOUS
    <2> QED
      BY <2>1, Zenon DEF InsertAt
  <1> HIDE DEF a, b
  <1>4. /\ a \o <<x>> \in Seq(TableRows) /\ Len(a \o <<x>>) = k + 1
        /\ \A i \in 1 .. k : (a \o <<x>>)[i] = s[i]
        /\ (a \o <<x>>)[k + 1] = x
    BY <1>1
  <1> DEFINE c == a \o <<x>>
  <1> HIDE DEF c
  <1>5. /\ c \in Seq(TableRows) /\ Len(c) = k + 1 /\ c[k + 1] = x
        /\ \A i \in 1 .. k : c[i] = s[i]
    BY <1>4 DEF c
  <1>6. /\ c \o b \in Seq(TableRows) /\ Len(c \o b) = Len(s) + 1
        /\ \A i \in 1 .. k + 1 : (c \o b)[i] = c[i]
        /\ \A i \in k + 2 .. Len(s) + 1 : (c \o b)[i] = b[i - k - 1]
    BY <1>2, <1>5
  <1>7. \A i \in k + 2 .. Len(s) + 1 : b[i - k - 1] = s[i - 1]
    BY <1>2
  <1> QED
    <2>1. InsertAt(s, k + 1, x) = c \o b
      BY <1>3 DEF c
    <2> DEFINE d == c \o b
    <2>2. InsertAt(s, k + 1, x) = d
      BY <2>1
    <2>3. /\ d \in Seq(TableRows) /\ Len(d) = Len(s) + 1
          /\ \A i \in 1 .. k + 1 : d[i] = c[i]
          /\ \A i \in k + 2 .. Len(s) + 1 : d[i] = b[i - k - 1]
      BY <1>6
    <2> HIDE DEF d
    <2>4. /\ \A i \in 1 .. k : d[i] = s[i]
          /\ d[k + 1] = x
          /\ \A i \in k + 2 .. Len(s) + 1 : d[i] = s[i - 1]
      BY <1>5, <1>7, <2>3
    <2> QED
      BY <2>2, <2>3, <2>4, Zenon

LEMMA MaxTimeIsNat == MaxTime \in Nat
  BY ResultsAssumption

LEMMA InsertPlaces ==
  ASSUME NEW s \in Seq(TableRows), NEW x \in TableRows
  PROVE  \E k \in 0 .. Len(s) :
           /\ Insert(s, x) = InsertAt(s, k + 1, x)
           /\ k # 0 => ~Before(x, s[k])
           /\ \A i \in k + 1 .. Len(s) : Before(x, s[i])
  <1> DEFINE stops == {i \in DOMAIN s : ~Before(x, s[i])}
             k == Max(stops \cup {0})
  <1>1. Len(s) \in Nat /\ DOMAIN s = 1 .. Len(s)
    OBVIOUS
  <1>2. Insert(s, x) = InsertAt(s, k + 1, x)
    BY DEF Insert
  <1>3. stops \cup {0} \in SUBSET (0 .. Len(s)) /\ stops \cup {0} # {}
    BY <1>1
  <1>4. k \in stops \cup {0} /\ \A y \in stops \cup {0} : k >= y
    <2> HIDE DEF stops
    <2> QED
      BY <1>1, <1>3, MaxIs
  <1> HIDE DEF k
  <1>5. k \in 0 .. Len(s) /\ (k # 0 => ~Before(x, s[k]))
    BY <1>1, <1>4
  <1>6. ASSUME NEW i \in k + 1 .. Len(s) PROVE Before(x, s[i])
    <2>1. i \in DOMAIN s /\ ~(k >= i)
      BY <1>1, <1>5
    <2> QED
      BY <1>4, <2>1
  <1> QED
    BY <1>2, <1>5, <1>6

LEMMA InsertKeepsFair ==
  ASSUME NEW s \in Seq(TableRows), NEW x \in TableRows
  PROVE  /\ Insert(s, x) \in Seq(TableRows)
         /\ \A i \in DOMAIN Insert(s, x) :
              Insert(s, x)[i] = x \/ \E j \in DOMAIN s : Insert(s, x)[i] = s[j]
         /\ Fair(s) => Fair(Insert(s, x))
  <1>1. PICK k \in 0 .. Len(s) :
           /\ Insert(s, x) = InsertAt(s, k + 1, x)
           /\ k # 0 => ~Before(x, s[k])
           /\ \A i \in k + 1 .. Len(s) : Before(x, s[i])
    BY InsertPlaces
  <1> DEFINE n == Len(s)
             u == InsertAt(s, k + 1, x)
  <1>2. n \in Nat /\ n = Len(s)
    OBVIOUS
  <1>3. u = Insert(s, x)
    BY <1>1
  <1>4. /\ u \in Seq(TableRows) /\ Len(u) = n + 1
        /\ \A i \in 1 .. k : u[i] = s[i]
        /\ u[k + 1] = x
        /\ \A i \in k + 2 .. n + 1 : u[i] = s[i - 1]
    BY InsertAtElements, Zenon
  <1> HIDE DEF n, u
  <1>5. /\ n \in Nat /\ k \in 0 .. n /\ DOMAIN s = 1 .. n /\ DOMAIN u = 1 .. n + 1
        /\ \A i \in 1 .. n : s[i] \in TableRows
    BY <1>2, <1>4
  <1>6. \A i \in DOMAIN u : u[i] = x \/ \E j \in DOMAIN s : u[i] = s[j]
    <2> SUFFICES ASSUME NEW i \in 1 .. n + 1 PROVE u[i] = x \/ \E j \in 1 .. n : u[i] = s[j]
      BY <1>5
    <2>1. i \in 1 .. k \/ i = k + 1 \/ (i \in k + 2 .. n + 1 /\ i - 1 \in 1 .. n)
      BY <1>5
    <2>2. 1 .. k \subseteq 1 .. n
      BY <1>5
    <2> QED
      BY <1>4, <2>1, <2>2
  <1>7. ASSUME Fair(s), NEW i \in 1 .. n + 1, NEW j \in 1 .. n + 1, i < j
        PROVE  /\ u[i].total >= u[j].total
               /\ u[i].total = u[j].total /\ Timed(u, u[i].total) => u[i].last <= u[j].last
    <2>1. ASSUME NEW total, Timed(u, total)
          PROVE  Timed(s, total) /\ (x.total = total => x.last # None)
      <3>1. ASSUME NEW m \in 1 .. n PROVE \E l \in 1 .. n + 1 : s[m] = u[l]
        <4>1. CASE m <= k
          BY <1>4, <1>5, <4>1
        <4>2. CASE ~(m <= k)
          <5>1. m + 1 \in k + 2 .. n + 1 /\ m + 1 \in 1 .. n + 1 /\ (m + 1) - 1 = m
            BY <1>5, <4>2
          <5> QED
            BY <1>4, <5>1
        <4> QED
          BY <4>1, <4>2
      <3>2. Timed(s, total)
        BY <1>5, <2>1, <3>1 DEF Timed
      <3>3. k + 1 \in DOMAIN u
        BY <1>5
      <3> QED
        BY <1>4, <2>1, <3>2, <3>3 DEF Timed
    <2>2. ASSUME NEW p \in 1 .. n, NEW q \in 1 .. n, p < q, u[i] = s[p], u[j] = s[q]
          PROVE  /\ u[i].total >= u[j].total
                 /\ u[i].total = u[j].total /\ Timed(u, u[i].total) => u[i].last <= u[j].last
      BY <1>5, <1>7, <2>1, <2>2 DEF Fair
    <2>3. ASSUME NEW p \in 1 .. n, p <= k, u[i] = s[p], u[j] = x
          PROVE  /\ u[i].total >= u[j].total
                 /\ u[i].total = u[j].total /\ Timed(u, u[i].total) => u[i].last <= u[j].last
      <3>1. k \in 1 .. n /\ s[k] \in TableRows /\ s[p] \in TableRows
        BY <1>5, <2>3
      <3>2. ~Before(x, s[k])
        BY <1>1, <3>1
      <3>3. /\ s[k].total >= x.total
            /\ s[k].total = x.total /\ x.last # None /\ s[k].last # None => ~(x.last < s[k].last)
        BY <3>1, <3>2 DEF Before, TableRows
      <3>4. p = k \/ (/\ s[p].total >= s[k].total
                      /\ s[p].total = s[k].total /\ Timed(s, s[p].total) => s[p].last <= s[k].last)
        BY <1>5, <1>7, <2>3, <3>1 DEF Fair
      <3>5. u[i].total >= u[j].total
        BY <2>3, <3>1, <3>3, <3>4 DEF TableRows
      <3>6. ASSUME u[i].total = u[j].total, Timed(u, u[i].total)
            PROVE  u[i].last <= u[j].last
        <4>1. s[p].total = x.total /\ s[k].total = x.total
          BY <2>3, <3>1, <3>3, <3>4, <3>6 DEF TableRows
        <4>2. Timed(s, s[p].total) /\ x.last # None
          BY <2>1, <2>3, <3>6, <4>1
        <4>3. s[k].last # None /\ s[p].last # None
          BY <1>5, <3>1, <4>1, <4>2 DEF Timed
        <4>4. {x.last, s[k].last, s[p].last} \subseteq Int
          BY MaxTimeIsNat, <3>1, <4>2, <4>3 DEF TableRows
        <4>5. x.last >= s[k].last
          BY <3>3, <4>1, <4>2, <4>3, <4>4
        <4>6. s[k].last >= s[p].last
          BY <3>4, <4>1, <4>2, <4>4
        <4> QED
          BY <2>3, <4>4, <4>5, <4>6
      <3> QED
        BY <3>5, <3>6
    <2>4. ASSUME NEW q \in 1 .. n, q > k, u[i] = x, u[j] = s[q]
          PROVE  /\ u[i].total >= u[j].total
                 /\ u[i].total = u[j].total /\ Timed(u, u[i].total) => u[i].last <= u[j].last
      <3>1. s[q] \in TableRows /\ Before(x, s[q])
        BY <1>1, <1>2, <1>5, <2>4
      <3>2. /\ x.total >= s[q].total
            /\ x.total = s[q].total /\ x.last # None /\ s[q].last # None => x.last < s[q].last
        BY <3>1 DEF Before, TableRows
      <3>3. ASSUME u[i].total = u[j].total, Timed(u, u[i].total)
            PROVE  x.last # None /\ s[q].last # None
        BY <1>5, <2>1, <2>4, <3>3 DEF Timed
      <3> QED
        BY MaxTimeIsNat, <2>4, <3>1, <3>2, <3>3 DEF TableRows
    <2>5. i \in 1 .. k \/ i = k + 1 \/ i \in k + 2 .. n + 1
      BY <1>5
    <2>6. j \in 1 .. k \/ j = k + 1 \/ j \in k + 2 .. n + 1
      BY <1>5
    <2>7. CASE i \in 1 .. k
      <3>1. i \in 1 .. n /\ u[i] = s[i] /\ i <= k
        BY <1>4, <1>5, <2>7
      <3>2. CASE j \in 1 .. k
        <4>1. j \in 1 .. n /\ u[j] = s[j]
          BY <1>4, <1>5, <3>2
        <4> QED
          BY <1>7, <2>2, <3>1, <4>1
      <3>3. CASE j = k + 1
        BY <1>4, <2>3, <3>1, <3>3
      <3>4. CASE j \in k + 2 .. n + 1
        <4>1. j - 1 \in 1 .. n /\ u[j] = s[j - 1] /\ i < j - 1
          BY <1>4, <1>5, <2>7, <3>4
        <4> QED
          BY <2>2, <3>1, <4>1
      <3> QED
        BY <2>6, <3>2, <3>3, <3>4
    <2>8. CASE i = k + 1
      <3>1. j \in k + 2 .. n + 1 /\ j - 1 \in 1 .. n /\ j - 1 > k
        BY <1>5, <1>7, <2>8
      <3> QED
        BY <1>4, <2>4, <2>8, <3>1
    <2>9. CASE i \in k + 2 .. n + 1
      <3>1. /\ j \in k + 2 .. n + 1 /\ j - 1 \in 1 .. n /\ i - 1 \in 1 .. n /\ i - 1 < j - 1
        BY <1>5, <1>7, <2>9
      <3> QED
        BY <1>4, <2>2, <2>9, <3>1
    <2> QED
      BY <2>5, <2>7, <2>8, <2>9
  <1>8. Fair(s) => Fair(u)
    BY <1>5, <1>7 DEF Fair
  <1> QED
    BY <1>3, <1>4, <1>6, <1>8

LEMMA SortedIsFair ==
  ASSUME NEW n \in Nat, NEW rows \in [1 .. n -> TableRows]
  PROVE  /\ Fair(SortRows(rows))
         /\ \A i \in DOMAIN SortRows(rows) : \E j \in 1 .. n : SortRows(rows)[i] = rows[j]
  <1> DEFINE Good(s) == /\ s \in Seq(TableRows) /\ Fair(s)
                        /\ \A i \in DOMAIN s : \E j \in 1 .. n : s[i] = rows[j]
  <1>1. PICK sorted : /\ sorted[0] = <<>> /\ sorted[n] = SortRows(rows)
                      /\ \A k \in 1 .. n : sorted[k] = Insert(sorted[k - 1], rows[k])
    <2>1. DOMAIN rows = 1 .. n
      OBVIOUS
    <2> QED
      BY <2>1, SortSteps, Zenon
  <1> DEFINE P == {k \in Nat : k <= n => Good(sorted[k])}
  <1>2. 0 \in P
    <2>1. Good(<<>>)
      BY DEF Fair
    <2> QED
      BY <1>1, <2>1
  <1>3. ASSUME NEW k \in Nat, k \in P PROVE k + 1 \in P
    <2> SUFFICES ASSUME k + 1 <= n PROVE Good(sorted[k + 1])
      OBVIOUS
    <2>1. Good(sorted[k])
      BY <1>3
    <2>2. k + 1 \in 1 .. n /\ (k + 1) - 1 = k /\ rows[k + 1] \in TableRows
      OBVIOUS
    <2>3. sorted[k + 1] = Insert(sorted[k], rows[k + 1])
      BY <1>1, <2>2
    <2> DEFINE u == Insert(sorted[k], rows[k + 1])
    <2>4. /\ u \in Seq(TableRows) /\ Fair(u)
          /\ \A i \in DOMAIN u : u[i] = rows[k + 1] \/ \E j \in DOMAIN sorted[k] : u[i] = sorted[k][j]
      BY <2>1, <2>2, InsertKeepsFair
    <2> HIDE DEF u
    <2>5. Good(u)
      BY <2>1, <2>2, <2>4
    <2> QED
      BY <2>3, <2>5 DEF u
  <1> HIDE DEF P
  <1>4. n \in P
    BY <1>2, <1>3, Induction
  <1>5. Good(sorted[n])
    BY <1>4 DEF P
  <1> QED
    BY <1>1, <1>5

-----------------------------------------------------------------------------
(* What MapThenSumSet adds up: one element after another, in any order.    *)
Summed(value, f, s) ==
  IF s = {} THEN 0 ELSE value[CHOOSE x \in s : TRUE] + f[s \ {CHOOSE x \in s : TRUE}]
Sums(value, D, f) == f = [s \in D |-> Summed(value, f, s)]

Within(S, m) == {s \in SUBSET S : Cardinality(s) <= m}

LEMMA OneLess ==
  ASSUME NEW S, IsFiniteSet(S), NEW m \in Nat, NEW s \in Within(S, m + 1), s # {}
  PROVE  s \ {CHOOSE x \in s : TRUE} \in Within(S, m) /\ (CHOOSE x \in s : TRUE) \in s
  <1> DEFINE c == CHOOSE x \in s : TRUE
  <1>1. c \in s
    OBVIOUS
  <1> HIDE DEF c
  <1>2. s \in SUBSET S /\ IsFiniteSet(s) /\ Cardinality(s) <= m + 1
    BY FS_Subset DEF Within
  <1>3. Cardinality(s \ {c}) = Cardinality(s) - 1 /\ Cardinality(s) \in Nat
    BY <1>1, <1>2, FS_RemoveElement, FS_CardinalityType
  <1>4. s \ {c} \in Within(S, m)
    BY <1>2, <1>3 DEF Within
  <1> QED
    BY <1>1, <1>4 DEF c

LEMMA AllWithin ==
  ASSUME NEW S, IsFiniteSet(S)
  PROVE  Within(S, Cardinality(S)) = SUBSET S /\ Cardinality(S) \in Nat
  BY FS_Subset, FS_CardinalityType DEF Within

LEMMA NoneWithin ==
  ASSUME NEW S, IsFiniteSet(S), NEW s \in Within(S, 0)
  PROVE  s = {}
  <1>1. IsFiniteSet(s) /\ Cardinality(s) <= 0
    BY FS_Subset DEF Within
  <1> QED
    BY <1>1, FS_EmptySet, FS_CardinalityType

LEMMA SumsExist ==
  ASSUME NEW value, NEW S, IsFiniteSet(S)
  PROVE  \E f : Sums(value, SUBSET S, f)
  <1> DEFINE P == {m \in Nat : \E f : Sums(value, Within(S, m), f)}
  <1>1. 0 \in P
    <2> DEFINE f == [s \in Within(S, 0) |-> 0]
    <2>1. Sums(value, Within(S, 0), f)
      BY NoneWithin DEF Sums, Summed
    <2> QED
      BY <2>1
  <1>2. ASSUME NEW m \in Nat, m \in P PROVE m + 1 \in P
    <2>1. PICK f : Sums(value, Within(S, m), f)
      BY <1>2
    <2> DEFINE g == [s \in Within(S, m + 1) |-> Summed(value, f, s)]
    <2>2. ASSUME NEW s \in Within(S, m) PROVE g[s] = f[s]
      <3>1. s \in Within(S, m + 1)
        <4>1. Cardinality(s) \in Nat
          BY FS_Subset, FS_CardinalityType DEF Within
        <4> QED
          BY <4>1 DEF Within
      <3> QED
        BY <2>1, <3>1 DEF Sums
    <2>3. ASSUME NEW s \in Within(S, m + 1) PROVE g[s] = Summed(value, g, s)
      <3>1. g[s] = Summed(value, f, s)
        OBVIOUS
      <3> HIDE DEF g
      <3> QED
        BY <2>2, <3>1, OneLess DEF Summed
    <2>4. DOMAIN g = Within(S, m + 1) /\ g = [s \in Within(S, m + 1) |-> g[s]]
      OBVIOUS
    <2> HIDE DEF g
    <2>5. Sums(value, Within(S, m + 1), g)
      BY <2>3, <2>4 DEF Sums
    <2> QED
      BY <2>5
  <1> HIDE DEF P
  <1>3. Cardinality(S) \in P
    BY <1>1, <1>2, Induction, AllWithin
  <1> QED
    BY <1>3, AllWithin DEF P

LEMMA SumIsInt ==
  ASSUME NEW value, NEW S, IsFiniteSet(S), \A x \in S : value[x] \in Int,
         NEW f, Sums(value, SUBSET S, f)
  PROVE  f[S] \in Int
  <1> DEFINE P == {m \in Nat : \A s \in Within(S, m) : f[s] \in Int}
  <1>1. 0 \in P
    <2>1. f[{}] = 0
      BY DEF Sums, Summed
    <2>2. ASSUME NEW s \in Within(S, 0) PROVE f[s] \in Int
      <3>1. s = {}
        BY NoneWithin
      <3>2. f[s] = 0
        BY <2>1, <3>1, Zenon
      <3> QED
        BY <3>2
    <2> QED
      BY <2>2
  <1>2. ASSUME NEW m \in Nat, m \in P PROVE m + 1 \in P
    <2>1. ASSUME NEW s \in Within(S, m + 1) PROVE f[s] \in Int
      <3>1. s \in SUBSET S /\ f[s] = Summed(value, f, s)
        BY DEF Within, Sums
      <3>2. CASE s = {}
        BY <3>1, <3>2 DEF Summed
      <3>3. CASE s # {}
        <4> DEFINE c == CHOOSE x \in s : TRUE
        <4>1. c \in s /\ s \ {c} \in Within(S, m)
          BY <3>3, OneLess
        <4>2. f[s] = value[c] + f[s \ {c}]
          BY <3>1, <3>3 DEF Summed
        <4> HIDE DEF c
        <4> QED
          BY <1>2, <3>1, <4>1, <4>2
      <3> QED
        BY <3>2, <3>3
    <2> QED
      BY <2>1
  <1> HIDE DEF P
  <1>3. Cardinality(S) \in P
    BY <1>1, <1>2, Induction, AllWithin
  <1>4. S \in Within(S, Cardinality(S))
    BY AllWithin
  <1> QED
    BY <1>3, <1>4 DEF P

LEMMA TaskScoreIsInt ==
  ASSUME NEW scores, IsFiniteSet(scores), \A a \in scores : a.score \in Int, NEW t
  PROVE  TaskScore(scores, t) \in Int
  <1> DEFINE S == ScoreResults(scores, t)
             value == [a \in S |-> a.score]
             Fold(g) == g = [s \in SUBSET S |-> IF s = {} THEN 0
                               ELSE (CHOOSE x \in s : TRUE).score + g[s \ {CHOOSE x \in s : TRUE}]]
  <1>1. IsFiniteSet(S) /\ \A x \in S : value[x] \in Int
    BY FS_Subset DEF ScoreResults
  <1>2. PICK f : f = (CHOOSE g : Fold(g)) /\ TaskScore(scores, t) = f[S]
    BY DEF TaskScore, Sum, MapThenSumSet, MapThenFoldSet
  <1>3. \A g : Fold(g) <=> Sums(value, SUBSET S, g)
    <2>1. \A s \in SUBSET S : s # {} => value[CHOOSE x \in s : TRUE] = (CHOOSE x \in s : TRUE).score
      OBVIOUS
    <2> HIDE DEF S, value
    <2> QED
      BY <2>1 DEF Sums, Summed
  <1> HIDE DEF S, value, Fold
  <1>4. Sums(value, SUBSET S, f)
    BY <1>1, <1>2, <1>3, SumsExist
  <1> QED
    BY <1>1, <1>2, <1>4, SumIsInt

LEMMA PenaltyIsInt ==
  ASSUME NEW rows, IsFiniteSet(rows), \A p \in rows : p.value \in Values, NEW t
  PROVE  Penalty(rows, t) \in Int
  <1> DEFINE S == Penalties(rows, t)
             value == [p \in S |-> p.value]
             Fold(g) == g = [s \in SUBSET S |-> IF s = {} THEN 0
                               ELSE (CHOOSE x \in s : TRUE).value + g[s \ {CHOOSE x \in s : TRUE}]]
  <1>1. IsFiniteSet(S) /\ \A x \in S : value[x] \in Int
    BY FS_Subset, ResultsAssumption DEF Penalties
  <1>2. PICK f : f = (CHOOSE g : Fold(g)) /\ Penalty(rows, t) = f[S]
    BY DEF Penalty, MapThenSumSet, MapThenFoldSet
  <1>3. \A g : Fold(g) <=> Sums(value, SUBSET S, g)
    <2>1. \A s \in SUBSET S : s # {} => value[CHOOSE x \in s : TRUE] = (CHOOSE x \in s : TRUE).value
      OBVIOUS
    <2> HIDE DEF S, value
    <2> QED
      BY <2>1 DEF Sums, Summed
  <1> HIDE DEF S, value, Fold
  <1>4. Sums(value, SUBSET S, f)
    BY <1>1, <1>2, <1>3, SumsExist
  <1> QED
    BY <1>1, <1>2, <1>4, SumIsInt

LEMMA RowsAreTyped ==
  ASSUME NEW scores, IsFiniteSet(scores),
         scores \subseteq [team : Teams, task : Tasks, time : 0 .. MaxTime, score : Int],
         NEW rows, IsFiniteSet(rows), \A p \in rows : p.value \in Values, NEW t \in Teams
  PROVE  Row(scores, rows, t) \in TableRows
  <1> DEFINE times == {a.time : a \in ScoreResults(scores, t)}
  <1>1. times \in SUBSET (0 .. MaxTime)
    BY DEF ScoreResults
  <1>2. LastCorrect(scores, t) = IF times = {} THEN None ELSE Max(times)
    BY DEF LastCorrect
  <1> HIDE DEF times
  <1>3. LastCorrect(scores, t) \in (0 .. MaxTime) \cup {None}
    BY <1>1, <1>2, MaxIs, MaxTimeIsNat
  <1>4. TaskScore(scores, t) \in Int
    BY TaskScoreIsInt
  <1>5. Penalty(rows, t) \in Int
    BY PenaltyIsInt
  <1> QED
    BY <1>3, <1>4, <1>5 DEF Row, TableRows

(* What GetPenalties serves, in whatever order the teams come.             *)
LEMMA ServedIsFair ==
  ASSUME NEW scores, IsFiniteSet(scores),
         scores \subseteq [team : Teams, task : Tasks, time : 0 .. MaxTime, score : Int],
         NEW penalties, IsFiniteSet(penalties), \A p \in penalties : p.value \in Values,
         NEW teams \in SetToSeqs(Teams), NEW rows,
         rows = [i \in DOMAIN teams |-> Row(scores, penalties, teams[i])]
  PROVE  /\ Fair(SortRows(rows))
         /\ \A i \in DOMAIN SortRows(rows) :
              \E t \in Teams : SortRows(rows)[i] = Row(scores, penalties, t)
  <1> DEFINE n == Cardinality(Teams)
  <1>1. n \in Nat
    BY ResultsAssumption, FS_CardinalityType
  <1>2. teams \in [1 .. n -> Teams]
    BY DEF SetToSeqs
  <1> HIDE DEF n
  <1>3. \A i \in 1 .. n : Row(scores, penalties, teams[i]) \in TableRows
    BY <1>2, RowsAreTyped
  <1>4. rows \in [1 .. n -> TableRows]
    BY <1>2, <1>3
  <1> QED
    BY <1>1, <1>2, <1>4, SortedIsFair

-----------------------------------------------------------------------------
(* What is shown is fair; a leaderboard in progress knows the totals there *)
(* are, and, for teams without a late answer, one score of each task.      *)
Shown(l) ==
  \A i \in DOMAIN l.rows :
    /\ l.rows[i].team \in Teams
    /\ l.rows[i].total \in l.totals[l.rows[i].team] \/ l.rows[i].team \in l.joined

Leads(l) ==
  l.op = "leaderboard" =>
    /\ finished
    /\ l.totals = [t \in Teams |-> l.totals[t]]
    /\ \A t \in Teams : Totals(t) \subseteq l.totals[t]
    /\ l.pc = "penalties" =>
         \A t \in Teams \ l.joined : ScoreResults(l.scores, t) \in OneEach(ScoreResults(answers, t))
    /\ Shown(l)

Finite == IsFiniteSet(answers) /\ IsFiniteSet(penalty)

ShowInv ==
  /\ Finite
  /\ \A r \in Requests : Fair(loc[r].rows) /\ Leads(loc[r])

LEMMA FiniteKeeps ==
  ASSUME Finite, [Next]_vars
  PROVE  Finite'
  <1>1. CASE \E team \in Teams, task \in Tasks, time \in 0 .. MaxTime :
               \E score \in Score[task] : CreateAnswerTry(team, task, time, score)
    <2>1. PICK a : answers' = answers \cup {a} /\ UNCHANGED penalty
      BY <1>1 DEF CreateAnswerTry
    <2> QED
      BY <2>1, FS_AddElement DEF Finite
  <1>2. CASE \E r \in Requests : CommitPenalty(r)
    <2>1. PICK r \in Requests : CommitPenalty(r)
      BY <1>2
    <2>2. /\ penalty' = (penalty \ loc[r].deleted) \cup {[by |-> r, team |-> loc[r].team, value |-> loc[r].value]}
          /\ UNCHANGED answers
      BY <2>1 DEF CommitPenalty
    <2>3. IsFiniteSet(penalty \ loc[r].deleted)
      BY FS_Subset DEF Finite
    <2> QED
      BY <2>2, <2>3, FS_AddElement DEF Finite
  <1>3. CASE UNCHANGED <<answers, penalty>>
    BY <1>3 DEF Finite
  <1> QED
    BY <1>1, <1>2, <1>3 DEF Next, Request, vars, FinishQuest, HandleTableResults,
       HandleLeaderboard, GetScoreResults, GetPenalties, Serve, HandleAddPenalty,
       DeletePenalties, DeleteSeen, Fail

(* One row of each task read gives one row of each task of a team.         *)
LEMMA OneEachOfTeam ==
  ASSUME NEW A, NEW S \in OneEach(A), NEW t
  PROVE  ScoreResults(S, t) \in OneEach(ScoreResults(A, t))
  <1>1. /\ S \subseteq A
        /\ \A a, b \in S : SameTask(a, b) => a = b
        /\ \A a \in A : \E b \in S : SameTask(a, b)
    BY DEF OneEach
  <1>2. \A a \in ScoreResults(A, t) : \E b \in ScoreResults(S, t) : SameTask(a, b)
    <2> SUFFICES ASSUME NEW a \in A, a.team = t
                 PROVE  \E b \in ScoreResults(S, t) : SameTask(a, b)
      BY DEF ScoreResults
    <2>1. PICK b \in S : SameTask(a, b)
      BY <1>1
    <2> QED
      BY <2>1 DEF SameTask, ScoreResults
  <1> QED
    BY <1>1, <1>2 DEF OneEach, ScoreResults

LEMMA IdleShows == Fair(Idle.rows) /\ Leads(Idle)
  BY DEF Idle, Fair, Leads

(* A request that shows and has read the same as before, over tables that  *)
(* have not changed.                                                       *)
Same(m, l) == /\ m.pc = l.pc /\ m.op = l.op /\ m.scores = l.scores /\ m.rows = l.rows
              /\ m.totals = l.totals /\ m.joined = l.joined

LEMMA SameShows ==
  ASSUME NEW r \in Requests, NEW l, Fair(l.rows), Leads(l), Same(loc'[r], l),
         UNCHANGED <<answers, penalty>>, finished => finished'
  PROVE  Fair(loc[r].rows)' /\ Leads(loc[r])'
  <1>1. \A t \in Teams : Totals(t)' = Totals(t)
    BY DEF Totals
  <1>2. Fair(loc[r].rows)'
    BY DEF Same
  <1>3. Leads(loc[r])'
    BY <1>1 DEF Leads, Same, Shown
  <1> QED
    BY <1>2, <1>3

(* New totals are noted, with the teams whose late answers they contain.   *)
LEMMA NotedShows ==
  ASSUME IInv, NEW r \in Requests, NEW joined, NEW m,
         Fair(loc[r].rows), Leads(loc[r]),
         m.pc = loc[r].pc, m.op = loc[r].op, m.scores = loc[r].scores, m.rows = loc[r].rows,
         m.joined = joined, loc[r].joined \subseteq joined,
         m.op = "leaderboard" =>
           m.totals = [t \in Teams |-> loc[r].totals[t] \cup Totals(t)'],
         loc'[r] = m, finished => finished',
         m.op = "leaderboard" =>
           \A t \in Teams \ joined : ScoreResults(answers', t) = ScoreResults(answers, t)
  PROVE  Fair(loc[r].rows)' /\ Leads(loc[r])'
  <1>1. Fair(loc[r].rows)'
    OBVIOUS
  <1>2. ASSUME m.op = "leaderboard"
        PROVE  /\ finished'
               /\ m.totals = [t \in Teams |-> m.totals[t]]
               /\ \A t \in Teams : Totals(t)' \subseteq m.totals[t]
               /\ m.pc = "penalties" =>
                    \A t \in Teams \ m.joined : ScoreResults(m.scores, t) \in OneEach(ScoreResults(answers', t))
               /\ Shown(m)
    <2>1. \A t \in Teams : loc[r].totals[t] \subseteq m.totals[t] /\ Totals(t)' \subseteq m.totals[t]
      BY <1>2
    <2>2. m.totals = [t \in Teams |-> m.totals[t]]
      BY <1>2
    <2>3. Shown(m)
      BY <1>2, <2>1 DEF Leads, Shown
    <2>4. finished'
      BY <1>2 DEF Leads
    <2>5. m.pc = "penalties" =>
            \A t \in Teams \ m.joined : ScoreResults(m.scores, t) \in OneEach(ScoreResults(answers', t))
      BY <1>2 DEF Leads
    <2> QED
      BY <2>1, <2>2, <2>3, <2>4, <2>5
  <1>3. Leads(loc[r])'
    BY <1>2 DEF Leads, Shown
  <1> QED
    BY <1>1, <1>3

LEMMA AnswerShows ==
  ASSUME IInv, NEW team \in Teams, NEW task \in Tasks, NEW time \in 0 .. MaxTime,
         NEW score \in Score[task], CreateAnswerTry(team, task, time, score), NEW r \in Requests,
         Fair(loc[r].rows), Leads(loc[r])
  PROVE  Fair(loc[r].rows)' /\ Leads(loc[r])'
  <1> DEFINE joined == IF finished /\ loc[r].op = "leaderboard"
                       THEN loc[r].joined \cup {team} ELSE loc[r].joined
             m == [Noted(loc[r]) EXCEPT !.joined = joined]
  <1>1. loc'[r] = m /\ UNCHANGED <<penalty, finished>>
    <2>1. Noted(loc[r]).joined = loc[r].joined
      BY Knows DEF Noted, IsRequest, Over
    <2> QED
      BY <2>1 DEF CreateAnswerTry
  <1>2. /\ m.pc = loc[r].pc /\ m.op = loc[r].op /\ m.scores = loc[r].scores
        /\ m.rows = loc[r].rows /\ m.joined = joined
        /\ m.op = "leaderboard" =>
             m.totals = [t \in Teams |-> loc[r].totals[t] \cup Totals(t)']
    BY Knows DEF Noted, IsRequest, Over
  <1>3. ASSUME m.op = "leaderboard", NEW t \in Teams \ joined
        PROVE  ScoreResults(answers', t) = ScoreResults(answers, t)
    <2>1. t # team
      BY <1>2, <1>3 DEF Leads
    <2> QED
      BY <2>1 DEF CreateAnswerTry, ScoreResults
  <1>4. loc[r].joined \subseteq joined
    OBVIOUS
  <1> HIDE DEF m, joined
  <1> QED
    BY <1>1, <1>2, <1>3, <1>4, NotedShows

LEMMA CommitShows ==
  ASSUME IInv, NEW q \in Requests, CommitPenalty(q), NEW r \in Requests,
         Fair(loc[r].rows), Leads(loc[r])
  PROVE  Fair(loc[r].rows)' /\ Leads(loc[r])'
  <1>1. UNCHANGED <<answers, finished>>
    BY DEF CommitPenalty
  <1>2. CASE q = r
    <2>1. loc'[r] = Idle
      BY <1>2 DEF CommitPenalty
    <2> QED
      BY <2>1 DEF Idle, Fair, Leads
  <1>3. CASE q # r
    <2> DEFINE l == [loc[r] EXCEPT !.seen = @ \ loc[q].deleted]
               m == Noted(l)
    <2>1. loc'[r] = m
      BY <1>3 DEF CommitPenalty
    <2>2. /\ l.pc = loc[r].pc /\ l.op = loc[r].op /\ l.scores = loc[r].scores
          /\ l.rows = loc[r].rows /\ l.joined = loc[r].joined /\ l.totals = loc[r].totals
          /\ l = [l EXCEPT !.totals = l.totals]
      BY Knows DEF IsRequest, Over
    <2>3. /\ m.pc = loc[r].pc /\ m.op = loc[r].op /\ m.scores = loc[r].scores
          /\ m.rows = loc[r].rows /\ m.joined = loc[r].joined
          /\ m.op = "leaderboard" =>
               m.totals = [t \in Teams |-> loc[r].totals[t] \cup Totals(t)']
      BY Knows DEF Noted, IsRequest, Over
    <2> HIDE DEF m, l
    <2> QED
      BY <1>1, <2>1, <2>3, NotedShows
  <1> QED
    BY <1>2, <1>3

LEMMA OwnReads ==
  ASSUME IInv, Finite, NEW r \in Requests, Fair(loc[r].rows), Leads(loc[r]),
         HandleTableResults(r) \/ HandleLeaderboard(r) \/ GetScoreResults(r) \/ GetPenalties(r)
  PROVE  Fair(loc[r].rows)' /\ Leads(loc[r])'
  <1>1. CASE HandleTableResults(r)
    <2> DEFINE l == [Idle EXCEPT !.pc = "scores", !.op = "table"]
    <2>1. loc'[r] = l
      BY <1>1 DEF HandleTableResults, Step, IInv
    <2>2. l.op = "table" /\ l.rows = <<>>
      BY DEF Idle
    <2> HIDE DEF l
    <2> QED
      BY <2>1, <2>2 DEF Fair, Leads
  <1>2. CASE HandleLeaderboard(r)
    <2> DEFINE totals == [t \in Teams |-> Totals(t)]
               l == [Idle EXCEPT !.pc = "scores", !.op = "leaderboard", !.totals = totals]
    <2>1. loc'[r] = l /\ UNCHANGED <<answers, penalty, finished, late>> /\ finished
      BY <1>2 DEF HandleLeaderboard, Step, IInv
    <2>2. \A t \in Teams : Totals(t) \subseteq totals[t]
      OBVIOUS
    <2>3. totals = [t \in Teams |-> totals[t]]
      OBVIOUS
    <2> HIDE DEF totals
    <2>4. l.pc = "scores" /\ l.totals = totals /\ l.rows = <<>>
      BY DEF Idle
    <2>5. Fair(l.rows) /\ Leads(l)
      BY <2>1, <2>2, <2>3, <2>4 DEF Fair, Leads, Shown
    <2> HIDE DEF l
    <2> QED
      BY <2>1, <2>5, SameShows DEF Same
  <1>3. CASE GetScoreResults(r)
    <2>0. PICK scores \in OneEach(answers) :
            Step(r, [loc[r] EXCEPT !.pc = "penalties", !.scores = scores])
      BY <1>3 DEF GetScoreResults
    <2> DEFINE l == [loc[r] EXCEPT !.pc = "penalties", !.scores = scores]
    <2>1. loc'[r] = l /\ UNCHANGED <<answers, penalty, finished, late>>
      BY <1>3, <2>0 DEF GetScoreResults, Step, IInv
    <2>2. /\ l.scores = scores /\ l.op = loc[r].op /\ l.rows = loc[r].rows
          /\ l.totals = loc[r].totals /\ l.joined = loc[r].joined
      BY Knows DEF IsRequest, Over
    <2> HIDE DEF l
    <2>3. Fair(l.rows) /\ Leads(l)
      BY <2>2, OneEachOfTeam DEF Leads, Shown
    <2> QED
      BY <2>1, <2>3, SameShows DEF Same
  <1>4. CASE GetPenalties(r)
    <2>1. PICK teams \in SetToSeqs(Teams) :
            Step(r, [loc[r] EXCEPT !.pc = "served", !.scores = {},
                       !.rows = SortRows([i \in DOMAIN teams |-> Row(loc[r].scores, penalty, teams[i])])])
      BY <1>4 DEF GetPenalties
    <2> DEFINE rows == [i \in DOMAIN teams |-> Row(loc[r].scores, penalty, teams[i])]
               sorted == SortRows(rows)
               l == [loc[r] EXCEPT !.pc = "served", !.scores = {}, !.rows = sorted]
    <2>2. /\ loc[r].pc = "penalties" /\ loc'[r] = l
          /\ UNCHANGED <<answers, penalty, finished, late>>
      BY <1>4, <2>1 DEF GetPenalties, Step, IInv
    <2>3. /\ IsFiniteSet(loc[r].scores)
          /\ loc[r].scores \subseteq [team : Teams, task : Tasks, time : 0 .. MaxTime, score : Int]
          /\ \A p \in penalty : p.value \in Values
      <3>1. loc[r].scores \in SUBSET answers
        BY Knows DEF IsRequest, Over
      <3> QED
        BY <3>1, FS_Subset DEF Finite, IInv, Stored
    <2>4. Fair(sorted) /\ \A i \in DOMAIN sorted :
                            \E t \in Teams : sorted[i] = Row(loc[r].scores, penalty, t)
      BY <2>3, ServedIsFair DEF Finite
    <2> HIDE DEF sorted
    <2>5. /\ l.pc = "served" /\ l.rows = sorted /\ l.op = loc[r].op
          /\ l.totals = loc[r].totals /\ l.joined = loc[r].joined
      BY Knows DEF IsRequest, Over
    <2> HIDE DEF l
    <2>6. ASSUME l.op = "leaderboard", NEW i \in DOMAIN sorted
          PROVE  /\ sorted[i].team \in Teams
                 /\ sorted[i].total \in l.totals[sorted[i].team] \/ sorted[i].team \in l.joined
      <3>1. PICK t \in Teams : sorted[i] = Row(loc[r].scores, penalty, t)
        BY <2>4
      <3>2. sorted[i].team = t /\ sorted[i].total = TaskScore(loc[r].scores, t) - Penalty(penalty, t)
        BY <3>1 DEF Row
      <3>3. CASE t \in loc[r].joined
        BY <2>5, <3>2, <3>3
      <3>4. CASE t \notin loc[r].joined
        <4>1. ScoreResults(loc[r].scores, t) \in OneEach(ScoreResults(answers, t))
          BY <2>2, <2>5, <2>6, <3>4 DEF Leads
        <4>2. TaskScore(loc[r].scores, t) - Penalty(penalty, t) \in Totals(t)
          BY <4>1, Zenon DEF Totals, TaskScore
        <4>3. Totals(t) \subseteq loc[r].totals[t]
          BY <2>5, <2>6 DEF Leads
        <4> QED
          BY <2>5, <3>2, <4>2, <4>3
      <3> QED
        BY <3>3, <3>4
    <2>7. Leads(l)
      BY <2>5, <2>6 DEF Leads, Shown
    <2> QED
      BY <2>2, <2>4, <2>5, <2>7, SameShows DEF Same
  <1> QED
    BY <1>1, <1>2, <1>3, <1>4

(* What a penalty does to itself and to others, short of its commit, and   *)
(* what ends a request.                                                    *)
LEMMA OthersShow ==
  ASSUME IInv, NEW q \in Requests, NEW r \in Requests, Fair(loc[r].rows), Leads(loc[r]),
         \/ UNCHANGED vars
         \/ FinishQuest
         \/ \E team \in Penalized, value \in Values : HandleAddPenalty(q, team, value)
         \/ Serve(q) \/ DeletePenalties(q) \/ DeleteSeen(q) \/ Fail(q)
         \/ /\ q # r
            /\ (HandleTableResults(q) \/ HandleLeaderboard(q) \/ GetScoreResults(q) \/ GetPenalties(q))
  PROVE  Fair(loc[r].rows)' /\ Leads(loc[r])'
  <1>1. UNCHANGED <<answers, penalty>> /\ (finished => finished')
    <2>1. CASE UNCHANGED vars \/ FinishQuest
      BY <2>1 DEF vars, FinishQuest
    <2>2. CASE \E team \in Penalized, value \in Values : HandleAddPenalty(q, team, value)
      <3>1. PICK team \in Penalized, value \in Values : HandleAddPenalty(q, team, value)
        BY <2>2
      <3> QED
        BY <3>1 DEF HandleAddPenalty
    <2>3. CASE Serve(q) \/ DeletePenalties(q) \/ DeleteSeen(q) \/ Fail(q)
      BY <2>3 DEF Serve, DeletePenalties, DeleteSeen, Fail
    <2>4. CASE HandleTableResults(q) \/ HandleLeaderboard(q) \/ GetScoreResults(q) \/ GetPenalties(q)
      <3>1. CASE HandleTableResults(q) \/ HandleLeaderboard(q)
        BY <3>1 DEF HandleTableResults, HandleLeaderboard
      <3>2. CASE GetScoreResults(q) \/ GetPenalties(q)
        <4>1. UNCHANGED <<answers, penalty, finished, late>>
          BY <3>2, Zenon DEF GetScoreResults, GetPenalties
        <4> QED
          BY <4>1
      <3> QED
        BY <2>4, <3>1, <3>2
    <2> QED
      BY <2>1, <2>2, <2>3, <2>4
  <1>2. \/ loc'[r] = Idle
        \/ Same(loc'[r], loc[r])
        \/ loc'[r].op = "penalty" /\ Fair(loc'[r].rows)
    <2>1. CASE \E team \in Penalized, value \in Values : HandleAddPenalty(q, team, value)
      <3>1. PICK team \in Penalized, value \in Values : HandleAddPenalty(q, team, value)
        BY <2>1
      <3>2. CASE q = r
        <4>1. PICK x, y, z : loc'[r] = [Idle EXCEPT !.pc = "delete", !.op = "penalty", !.team = x,
                                                    !.value = y, !.alone = z]
          BY <3>1, <3>2 DEF HandleAddPenalty
        <4> QED
          BY <4>1 DEF Idle, Fair
      <3>3. CASE q # r
        <4>1. PICK z : loc'[r] = [loc[r] EXCEPT !.alone = z]
          BY <3>1, <3>3 DEF HandleAddPenalty
        <4> QED
          BY <4>1, Knows DEF Same, IsRequest, Over
      <3> QED
        BY <3>2, <3>3
    <2>2. CASE Serve(q) \/ Fail(q)
      BY <2>2 DEF Serve, Fail, Step, IInv, Same
    <2>3. CASE DeletePenalties(q) \/ DeleteSeen(q)
      <3>1. CASE q # r
        BY <2>3, <3>1 DEF DeletePenalties, DeleteSeen, Step, IInv, Same
      <3>2. CASE q = r
        <4>1. loc[r].op = "penalty"
          BY <2>3, <3>2, Knows DEF Deletes, DeletePenalties, DeleteSeen, Penalizing
        <4>2. loc'[r].op = loc[r].op /\ loc'[r].rows = loc[r].rows
          <5>1. CASE DeleteSeen(q)
            <6> DEFINE m == [loc[r] EXCEPT !.pc = "insert", !.deleted = loc[r].seen, !.seen = {}]
            <6>1. loc'[r] = m
              BY <3>2, <5>1 DEF DeleteSeen, Step, IInv
            <6> QED
              BY <6>1, Knows DEF IsRequest, Over
          <5>2. CASE DeletePenalties(q) /\ Locked(q, Replaced(q))
            <6> DEFINE m == [loc[r] EXCEPT !.pc = "wait", !.seen = Replaced(r)]
            <6>1. loc'[r] = m
              BY <3>2, <5>2 DEF DeletePenalties, Step, IInv
            <6> QED
              BY <6>1, Knows DEF IsRequest, Over
          <5>3. CASE DeletePenalties(q) /\ ~Locked(q, Replaced(q))
            <6> DEFINE m == [loc[r] EXCEPT !.pc = "insert", !.deleted = Replaced(r)]
            <6>1. loc'[r] = m
              BY <3>2, <5>3 DEF DeletePenalties, Step, IInv
            <6> QED
              BY <6>1, Knows DEF IsRequest, Over
          <5> QED
            BY <2>3, <5>1, <5>2, <5>3
        <4> QED
          BY <4>1, <4>2
      <3> QED
        BY <3>1, <3>2
    <2>5. CASE UNCHANGED vars \/ FinishQuest
      BY <2>5 DEF vars, FinishQuest, Same
    <2>6. CASE /\ q # r
               /\ HandleTableResults(q) \/ HandleLeaderboard(q) \/ GetScoreResults(q) \/ GetPenalties(q)
      BY <2>6 DEF HandleTableResults, HandleLeaderboard, GetScoreResults, GetPenalties, Step, IInv, Same
    <2> QED
      BY <2>1, <2>2, <2>3, <2>5, <2>6
  <1>3. CASE loc'[r] = Idle \/ (loc'[r].op = "penalty" /\ Fair(loc'[r].rows))
    BY <1>3 DEF Idle, Fair, Leads
  <1>4. CASE Same(loc'[r], loc[r])
    BY <1>1, <1>4, SameShows
  <1> QED
    BY <1>2, <1>3, <1>4

LEMMA ShowKeeps == IInv /\ ShowInv /\ [Next]_vars => ShowInv'
  <1> SUFFICES ASSUME IInv, ShowInv, [Next]_vars PROVE ShowInv'
    OBVIOUS
  <1>1. Finite'
    BY FiniteKeeps DEF ShowInv
  <1>2. ASSUME NEW r \in Requests PROVE Fair(loc[r].rows)' /\ Leads(loc[r])'
    <2>1. Finite /\ Fair(loc[r].rows) /\ Leads(loc[r])
      BY DEF ShowInv
    <2>2. CASE UNCHANGED vars \/ FinishQuest
      BY <2>1, <2>2, OthersShow
    <2>3. CASE \E team \in Teams, task \in Tasks, time \in 0 .. MaxTime :
                 \E score \in Score[task] : CreateAnswerTry(team, task, time, score)
      BY <2>1, <2>3, AnswerShows
    <2>4. CASE \E q \in Requests : Request(q)
      <3>1. PICK q \in Requests : Request(q)
        BY <2>4
      <3>2. CASE CommitPenalty(q)
        BY <2>1, <3>2, CommitShows
      <3>3. CASE q = r /\ (HandleTableResults(q) \/ HandleLeaderboard(q) \/ GetScoreResults(q) \/ GetPenalties(q))
        BY <2>1, <3>3, OwnReads
      <3> QED
        BY <2>1, <3>1, <3>2, <3>3, OthersShow DEF Request
    <2> QED
      BY <2>2, <2>3, <2>4 DEF Next
  <1> QED
    BY <1>1, <1>2 DEF ShowInv

THEOREM AlwaysShows == Spec => []ShowInv
  <1>1. Init => ShowInv
    BY FS_EmptySet, IdleShows DEF Init, ShowInv, Finite
  <1> QED
    BY <1>1, ShowKeeps, AlwaysSound, PTL DEF Spec

(* HandleTableResults and HandleLeaderboard: whatever order the teams come *)
(* in, both tables are sorted by total, and within a total by the time of  *)
(* the last answer if all its teams have one.                              *)
THEOREM RanksStayFair == Spec => []RanksAreFair
  <1>1. ShowInv => RanksAreFair
    BY DEF ShowInv, Fair, Timed, RanksAreFair, Tied
  <1> QED
    BY <1>1, AlwaysShows, PTL

(* A leaderboard shows totals the teams had while it was computed, for all *)
(* but those whose late answer was committed meanwhile.                    *)
THEOREM LeaderboardsShowTotals == Spec => []LeaderboardShowsTotals
  <1>1. ShowInv => LeaderboardShowsTotals
    BY DEF ShowInv, Leads, Shown, LeaderboardShowsTotals
  <1> QED
    BY <1>1, AlwaysShows, PTL
=============================================================================
