------------------------------- MODULE Quests -------------------------------
(***************************************************************************)
(* A quest's own life:                                                     *)
(*   create    POST   /quest               HandleCreate                    *)
(*   get       GET    /quest/{id}          HandleGet                       *)
(*   update    POST   /quest/{id}          HandleUpdate                    *)
(*   delete    DELETE /quest/{id}          HandleDelete                    *)
(*   finish    POST   /quest/{id}/finish   HandleFinish                    *)
(*   moderate  the creator's requests of Results, AnswerLog and BulkEdit   *)
(* and DELETE /user/{id}, which leaves the user's quests without creator.  *)
(* One action is one statement.  HandleUpdate writes first, in a READ      *)
(* COMMITTED transaction, and looks who the creator is afterwards; delete  *)
(* and finish look first and write outside a transaction.                  *)
(*                                                                         *)
(* Of a quest's columns those of its status are modelled.  An update sets  *)
(* some of them and can clear none.  Tokens outlive their users, so the    *)
(* user of a request may have been deleted.                                *)
(***************************************************************************)
EXTENDS Integers

CONSTANTS
  None, Gone,
  Requests,  \* requests that can be in progress at the same time
  Users,
  Creators,  \* those with a row in permissions, while they exist
  Quests,    \* bound: the quests that are ever created
  Plans,     \* what quests are created with: [deadline, start, finish]
  Changes,   \* what updates set: functions of some of these fields
  MaxTime    \* bound: the clock

Row == [deadline : Int \cup {None}, start : Int, finish : Int \cup {None},
        finished : BOOLEAN, creator : Users \cup {None}]
Fields == {"deadline", "start", "finish"}

ASSUME QuestsAssumption ==
  /\ None # Gone
  /\ \A x \in {None, Gone} : x \notin Requests \cup Users \cup Int \cup Row
  /\ Creators \subseteq Users
  /\ Plans \subseteq [deadline : Int \cup {None}, start : Int, finish : Int \cup {None}]
  /\ \A c \in Changes : DOMAIN c \in (SUBSET Fields) \ {{}} /\ \A f \in DOMAIN c : c[f] \in Int
  /\ MaxTime \in Nat

VARIABLES
  now,     \* qtime.Now
  user,    \* the users that exist
  quest,   \* the row of a quest: None before it is created, then Gone
  loc      \* per request: where it is, what it asks, reads, and has written

vars == <<now, user, quest, loc>>

(* row: what was read, or what the transaction has written.                *)
Idle == [pc |-> "idle", op |-> "none", user |-> None, quest |-> None, change |-> None,
         row |-> None, status |-> "none"]

Init ==
  /\ now = 0
  /\ user = Users
  /\ quest = [q \in Quests |-> None]
  /\ loc = [r \in Requests |-> Idle]

-----------------------------------------------------------------------------
Exists(q) == quest[q] \notin {None, Gone}

\* mutant: the deadline compared the wrong way round
RegisteringAfter(row) ==
  IF row.deadline # None THEN row.deadline <= now ELSE row.start > now

(* SetStatus: the first that applies.                                      *)
Registering(row) == IF row.deadline # None THEN row.deadline > now ELSE row.start > now
Status(row) ==
  IF row.finished THEN "FINISHED"
  ELSE IF Registering(row) THEN "ON_REGISTRATION"
  ELSE IF row.start > now THEN "REGISTRATION_DONE"
  ELSE IF row.finish = None \/ row.finish > now THEN "RUNNING"
  ELSE "WAIT_RESULTS"

\* mutant: the whole row is written, with finished as in a new quest
ChangedAnew(row, change) ==
  [f \in DOMAIN row |-> IF f \in DOMAIN change THEN change[f]
                        ELSE IF f = "finished" THEN FALSE ELSE row[f]]

Changed(row, change) == [f \in DOMAIN row |-> IF f \in DOMAIN change THEN change[f] ELSE row[f]]

Begin(r, op, u, q, change, pc) ==
  /\ loc[r].pc = "idle"
  /\ loc' = [loc EXCEPT ![r] = [Idle EXCEPT !.pc = pc, !.op = op, !.user = u, !.quest = q,
                                            !.change = change]]
  /\ UNCHANGED <<now, user, quest>>

Goto(r, l) == loc' = [loc EXCEPT ![r] = l] /\ UNCHANGED <<now, user, quest>>
End(r) == loc' = [loc EXCEPT ![r] = Idle]

\* mutant: nobody waits for a row
NotLocked(r, q) == FALSE

(* The row of a quest that a transaction has written cannot be written.    *)
Locked(r, q) == \E p \in Requests \ {r} : loc[p].pc = "written" /\ loc[p].quest = q

-----------------------------------------------------------------------------
(* accesscontrol.Check comes in a statement before the INSERT, which the   *)
(* foreign key of a creator deleted since refuses.                         *)
HandleCreate(r, u, plan) == Begin(r, "create", u, None, plan, "access")

CheckAccess(r) ==
  /\ loc[r].pc = "access"
  /\ Goto(r, IF loc[r].user \in user \cap Creators THEN [loc[r] EXCEPT !.pc = "insert"] ELSE Idle)

InsertQuest(r) ==
  \E q \in Quests :
    /\ quest[q] = None
    /\ quest' = [quest EXCEPT ![q] =
         [deadline |-> loc[r].change.deadline, start |-> loc[r].change.start,
          finish |-> loc[r].change.finish, finished |-> FALSE, creator |-> loc[r].user]]

\* mutant: no foreign key
CreateForAnyone(r) ==
  /\ loc[r].pc = "insert"
  /\ InsertQuest(r)
  /\ End(r)
  /\ UNCHANGED <<now, user>>

CreateQuest(r) ==
  /\ loc[r].pc = "insert"
  /\ IF loc[r].user \in user THEN InsertQuest(r) ELSE UNCHANGED quest
  /\ End(r)
  /\ UNCHANGED <<now, user>>

-----------------------------------------------------------------------------
HandleGet(r, q) == Begin(r, "get", None, q, None, "read")
HandleModerate(r, u, q) == Begin(r, "moderate", u, q, None, "read")
HandleDelete(r, u, q) == Begin(r, "delete", u, q, None, "read")
HandleFinish(r, u, q) == Begin(r, "finish", u, q, None, "read")

\* mutant: a quest that has not been finished by its creator has results too
AwaitedResults(status) == status \in {"WAIT_RESULTS", "FINISHED"}

HasLeaderboard(status) == status = "FINISHED"

(* The creator is checked; play.go and task_groups.go do not look whether  *)
(* there is one, and panic.  HandleGet reads teams next, and a leaderboard.*)
Checked(l) ==
  CASE l.op = "get" -> [l EXCEPT !.pc = "serve", !.status = Status(l.row)]
    [] l.op # "get" /\ l.row.creator = l.user -> [l EXCEPT !.pc = "write"]
    [] l.op = "moderate" /\ l.row.creator = None -> [l EXCEPT !.pc = "panic"]
    [] OTHER -> Idle

GetQuest(r) ==
  /\ loc[r].pc = "read"
  /\ Goto(r, IF Exists(loc[r].quest) THEN Checked([loc[r] EXCEPT !.row = quest[loc[r].quest]])
             ELSE Idle)

DeleteQuest(r) ==
  /\ loc[r].pc = "write" /\ loc[r].op = "delete"
  /\ ~Locked(r, loc[r].quest)
  /\ quest' = [quest EXCEPT ![loc[r].quest] = Gone]
  /\ End(r)
  /\ UNCHANGED <<now, user>>

FinishQuest(r) ==
  /\ loc[r].pc = "write" /\ loc[r].op = "finish"
  /\ ~Locked(r, loc[r].quest)
  /\ quest' = IF Exists(loc[r].quest) THEN [quest EXCEPT ![loc[r].quest].finished = TRUE] ELSE quest
  /\ End(r)
  /\ UNCHANGED <<now, user>>

-----------------------------------------------------------------------------
HandleUpdate(r, u, q, change) == Begin(r, "update", u, q, change, "update")

(* UPDATE ... RETURNING                                                    *)
UpdateQuest(r) ==
  /\ loc[r].pc = "update"
  /\ ~Locked(r, loc[r].quest)
  /\ Goto(r, IF Exists(loc[r].quest)
             THEN [loc[r] EXCEPT !.pc = "written",
                                 !.row = Changed(quest[loc[r].quest], loc[r].change)]
             ELSE Idle)

\* mutant: whoever updates
AnyoneMayCommit(r) == TRUE

MayCommit(r) == loc[r].row.creator # None /\ loc[r].row.creator = loc[r].user

CommitUpdate(r) ==
  /\ loc[r].pc = "written"
  /\ quest' = IF MayCommit(r) THEN [quest EXCEPT ![loc[r].quest] = loc[r].row] ELSE quest
  /\ End(r)
  /\ UNCHANGED <<now, user>>

-----------------------------------------------------------------------------
(* The response is written, a panic is recovered, or something fails: a    *)
(* transaction is rolled back.                                             *)
Serve(r) ==
  /\ loc[r].pc # "idle"
  /\ \/ loc[r].pc \in {"serve", "panic"}
     \/ loc[r].pc = "write" /\ loc[r].op = "moderate"
  /\ Goto(r, Idle)
Fail(r) ==
  /\ loc[r].pc \in {"access", "insert", "read", "write", "update", "written"}
  /\ Goto(r, Idle)

(* HandleDelete of a user: creator_id becomes NULL.                        *)
DeleteUser(u) ==
  LET owned == {q \in Quests : Exists(q) /\ quest[q].creator = u} IN
  /\ u \in user
  /\ \A q \in owned : ~Locked(None, q)
  /\ user' = user \ {u}
  /\ quest' = [q \in Quests |-> IF q \in owned THEN [quest[q] EXCEPT !.creator = None] ELSE quest[q]]
  /\ UNCHANGED <<now, loc>>

Tick == now < MaxTime /\ now' = now + 1 /\ UNCHANGED <<user, quest, loc>>

Request(r) ==
  \/ \E u \in Users, plan \in Plans : HandleCreate(r, u, plan)
  \/ \E u \in Users, q \in Quests :
       \/ HandleModerate(r, u, q) \/ HandleDelete(r, u, q) \/ HandleFinish(r, u, q)
       \/ \E change \in Changes : HandleUpdate(r, u, q, change)
  \/ \E q \in Quests : HandleGet(r, q)
  \/ CheckAccess(r) \/ CreateQuest(r)
  \/ GetQuest(r) \/ DeleteQuest(r) \/ FinishQuest(r)
  \/ UpdateQuest(r) \/ CommitUpdate(r)
  \/ Serve(r) \/ Fail(r)

Next == Tick \/ (\E u \in Users : DeleteUser(u)) \/ (\E r \in Requests : Request(r))

Spec == Init /\ [][Next]_vars

-----------------------------------------------------------------------------
Labels == {"idle", "access", "insert", "read", "write", "update", "written", "serve", "panic"}

(* Every variable has its type; a quest's creator exists; what a           *)
(* transaction has written is locked by it alone.                          *)
TypeOK ==
  /\ now \in 0 .. MaxTime
  /\ user \subseteq Users
  /\ \A q \in Quests : Exists(q) => quest[q] \in Row /\ quest[q].creator \in user \cup {None}
  /\ \A r \in Requests :
       /\ loc[r].pc \in Labels
       /\ loc[r].pc = "written" => ~Locked(r, loc[r].quest) /\ Exists(loc[r].quest)

Change(r, q) == loc[r].quest = q /\ loc'[r] = Idle

(* A quest is changed or deleted only by a request of its creator, or of   *)
(* one whose account was deleted after the check (quest.go:271, 316, 359); *)
(* an update of anyone else is written (quest.go:264), and never seen.     *)
OnlyCreatorChanges ==
  [][\A q \in Quests : Exists(q) /\ quest'[q] # quest[q] =>
       \/ user' # user /\ quest'[q] = [quest[q] EXCEPT !.creator = None]
       \/ \E r \in Requests :
            /\ Change(r, q)
            /\ \/ quest[q].creator = loc[r].user
               \/ quest[q].creator = None /\ loc[r].user \notin user]_vars

(* A finished quest stays finished until it is deleted, whatever updates   *)
(* were in progress when it was finished.                                  *)
FinishedIsFinal ==
  [][\A q \in Quests : Exists(q) /\ quest[q].finished =>
       quest'[q] = Gone \/ quest'[q].finished]_vars

Rank(s) ==
  CASE s = "ON_REGISTRATION" -> 1 [] s = "REGISTRATION_DONE" -> 2 [] s = "RUNNING" -> 3
    [] s = "WAIT_RESULTS" -> 4 [] s = "FINISHED" -> 5

(* Whatever times a quest was given, its status (status.go:8) never goes   *)
(* back, unless an update moves them.                                      *)
StatusMovesForward ==
  [][\A q \in Quests :
       Exists(q) /\ quest'[q] # Gone /\ (\A f \in Fields : quest'[q][f] = quest[q][f])
         => Rank(Status(quest[q])) <= Rank(Status(quest[q])')]_vars

(* An update changes the row as it is when it commits, and only the fields *)
(* it sets: nothing another request committed before it is lost.           *)
UpdatesCompose ==
  [][\A r \in Requests :
       loc[r].pc = "written" /\ loc'[r] = Idle /\ quest' # quest
         => quest'[loc[r].quest] = Changed(quest[loc[r].quest], loc[r].change)]_vars

(* A leaderboard goes out with a quest (quest.go:159) only when the quest  *)
(* has been finished, for good.                                            *)
LeaderboardAfterFinish ==
  \A r \in Requests : loc[r].pc = "serve" /\ HasLeaderboard(loc[r].status) =>
    quest[loc[r].quest] = Gone \/ quest[loc[r].quest].finished
=============================================================================
