# A TLA+ model of the Questspace backend

Questspace runs quests: teams register for a quest, and while it is running
their members read task groups, send answers and take hints.  The backend is a
stateless Go server (any number of replicas) over one Postgres database; every
piece of lasting state is a table and every interaction between two requests is
an interleaving of their SQL statements.  So the models here have tables as
variables, one action per statement (or per look at the clock), and the
transactions' isolation as the code asks for it.

Paths are relative to the repository root; the Go code is under `src/`.

## The system

| Component | State | Operations | What is hard |
|---|---|---|---|
| Play mode (`internal/questspace/game`, `internal/handlers/play`) | `answer_try`, `hint_take`, `task_group_team_info`, `quest.finished` | load the play page, take a hint, try an answer, finish the quest | members race; opening and closing times are derived, cached in rows and overwritten; rows are locked in different orders; errors roll back what was stored; retries |
| Teams and registration (`internal/questspace/teams`, `internal/handlers/teams`) | `team`, `registration`, a capacity trigger | create, join, leave, change captain, remove, delete, accept, rename | checks and writes in separate statements, three isolation levels, limits compared for equality |
| Results and penalties (same packages as play mode) | `team_penalty`, and the answers | table of results, leaderboard, give a penalty | two statements without a transaction, a comparator that is not an order, delete-then-insert |
| Answer log (`game.go`, `pgclient/answer_hint.go`) | the answers | a page, by token or by number | tokens in milliseconds, times in microseconds, a count and a page while answers come in |
| Quests (`internal/handlers/quest`, `internal/questspace/quests`) | `quest` | create, read, update, delete, finish | a write before its check, checks before a write, a status derived from the clock |
| Lists of quests (`pgclient/quest.go`) | `quest` | public, all, registered and owned quests by pages | a page token cut to seconds over two sort columns |
| Bulk edit of groups and tasks (`internal/questspace/taskgroups`, `.../tasks`) | `task_group`, `task`, `hint`, deferred unique order indexes | delete, reorder, update, create in one request | order slots that collide or leave the slice, edits that overlap, one step of many failing |
| Order permutations (`internal/questspace/permutations`) | none | split moves into chains and cycles | a pure algorithm with stated panics |
| Users and authentication (`internal/handlers/user`, `.../auth`, `internal/questspace/authservice`) | `user` | sign up, sign in, edit, delete | deleted users' quests and requests |
| Access control, tokens, image checks, transport, migrations, node choice, shell | little or none | wiring and I/O | - |

How they meet: play mode reads the team and its registration status written by
the registry, and the groups and tasks written by the bulk edit; results and
the answer log read what play mode stored; nearly every request reads the quest
first and decides by its status and creator; deleting a quest, team, group,
task or user cascades.

What makes each correct: play mode must never score twice, charge a hint that
was not taken, move the time of a group that was closed, open groups out of
order or leave a solved group open.  The registry must keep a user in one team
per quest, teams within their capacity, accepted teams within the quest's
number, and captains among the members.  Results must rank teams by what was
stored, and show totals teams had.  Whoever pages through a log or a list must
see every row and come to an end.  A quest must be changed by its creator only,
stay finished, and lose no update.  The bulk edit must leave a contiguous
order, the one that was asked for, or change nothing.  The code does not keep
all of this: the runs check what it does keep, under conditions that are part
of the property or of the instance, and the findings below say what it does
not.

## Modules

| Module | Role | Instances |
|---|---|---|
| `LinearGame` | abstract specification: groups of a linear quest close in order and for good, tasks are solved only in groups reached | |
| `PlayMode` | play mode of one team in one quest, statement by statement; implements `LinearGame` | `MCPlayMode` |
| `PlayModeProofs` | the properties of the `play_honest` and `play_scores` runs, proved: types, scores, late requests, times, that honest members play `LinearGame`, when a handler panics, when the last answer closes its group | |
| `TeamRegistry` | the teams of one quest, with isolation levels | `MCTeamRegistry` |
| `TeamRegistryProofs` | the properties of the `team_leaving` run, proved | |
| `Permutations` | `FindTreesAndCycles`, an operator, and what it is for | |
| `PermutationProofs` | that `FindTreesAndCycles` returns the moves it was given, proved | |
| `OrderedPack` | the slice of ordered items a bulk edit works on, used for groups and for tasks | |
| `TaskEdit` | the bulk edit of the tasks of one group, an operator | |
| `BulkEdit` | requests that edit the groups of a quest and their tasks, statement by statement; composes the three above | `MCBulkEdit` |
| `BulkEditProofs` | types, locks, tasks with their groups, the penalties of hints, unique order indexes and the moves of the bulk edit, proved | |
| `AnswerLog` | a client paging through the log of answers | `MCAnswerLog` |
| `AnswerLogProofs` | what paging through the log misses and repeats, proved | |
| `Results` | table of results, leaderboard, penalties | `MCResults` |
| `ResultsProofs` | every property of the `results` run, proved | |
| `Quests` | the life of a quest, its status and creator | `MCQuests` |
| `QuestsProofs` | every property of the `quests` run, proved | |
| `QuestList` | a client paging through a list of quests | `MCQuestList` |
| `QuestListProofs` | what paging through a list misses, proved | |

Operators marked `mutant` are never used by the specifications: each is a
plausible mistake in the operator it stands before, kept to show that the
property named for it in `PROJECT.json` would notice.

### PlayMode

| Model | Code |
|---|---|
| `teamInfo` | rows of `task_group_team_info` of the team |
| `answers`, `rejected` | accepted rows of `answer_try` per task in commit order; tasks with a rejected one |
| `hintTakes` | rows of `hint_take` |
| `clock`, `finished` | `qtime.Now()`, `quest.finished` |
| `shown` | groups some answer has shown the team (used to limit requests when `Honest`) |
| `pc`, `input`, `loc` | a request: the statement it executes next, its parameters, its Go locals |
| `tx` | what its transaction has written and not committed |
| `loc[r].seen` | history only: which groups were closed, and what was committed about the request's task, when it began |
| `HandleGet`, `HandleTakeHint`, `HandleTryAnswer` | a request arrives and finds the quest running |
| `ReadAccepted`, `ReadGroup`, `CheckAnswer`, `StoreDeadline`, `ScoreAnswer`, `CloseGroup` | `Service.TryAnswer`, in order |
| `ReadGroup`, `CheckHint`, `StoreDeadline`, `CheckUnsolved`, `TakeHint` | `Service.TakeHint`, in order; `StoreDeadline` is the upsert of an overdue group's closing time, which may wait for the row and is rolled back with the error that follows |
| `ReadGroups`, `ReadClock`, `FillGroup` | `GetTaskGroups` and the loop of `fillAnswerData`, one turn per group |
| `TeamInfos` | `fillTeamInfos`, with the shared `closingTime` variable |
| `Commit`, `ReturnError`, `Fail` | the ends of a transaction |
| `FailUpsert`, `DeadlockVictim` | a statement that fails and aborts the transaction: its rows are let go at once, and the request, which has only logged the failure, runs into an error later (`Abort`, label `failed`) |
| `FinishQuest`, `Tick` | `HandleFinish`; time passes |

Left out as data: texts of answers (`Texts` holds TRUE for a correct one),
questions, media, hint names.  Penalty points are the constant operator
`Charge`, any function of a set of hints.  The definition of the quest and the
registration do not change during play.

### TeamRegistry

| Model | Code |
|---|---|
| `team` | rows of `team`: captain, registration status |
| `member` | rows of `registration` |
| `used` | ids handed out, so that `Teams` bounds the teams ever created |
| `view`, `touched` | the snapshot of a leaving request and which rows others have committed since |
| `HandleCreate`, `HandleOther` | a request arrives |
| `ReadForCreate`, `CommitCreate` | `CreateTeam` (REPEATABLE READ): all reads come from one snapshot |
| `ReadForJoin`, `ReadExisting`, `InsertRegistration`, `CommitJoin` | `JoinTeam` (READ COMMITTED), the trigger `check_under_capacity` inside the insert |
| `ReadForLeave`, `CommitLeave`, `AbortLeave` | `LeaveTeam` (SERIALIZABLE) |
| `ReadAndCheck`, then `ChangeLeader`, `RemoveUser`, `DeleteTeam`, `AcceptTeam`, `ChangeTeamName` | handlers without a transaction: a read, a check, an UPDATE or DELETE |

### BulkEdit, TaskEdit, OrderedPack, Permutations

| Model | Code |
|---|---|
| `group` | order indexes of the rows of `task_group` |
| `task` | rows of `task` with their hints' penalties |
| `pc`, `input` | an edit: the statement it executes next, the request's body |
| `loc` | the pack (`ordered`, `byID`) and how far the loops have come |
| `tx` | rows its transaction has written; which keys it wrote while another held them |
| `HandleCreate`, `ListOldGroups`, `WipeGroup` | `POST .../task-groups`: the old groups go, one by one |
| `HandleBulkUpdate`, `GetOldTaskGroups`, `DeleteTaskGroup`, `ReorderUpdatedTaskGroups`, `UpdateTaskGroup`, `CheckCreateTaskGroups`, `CreateTaskGroup`, `StartClap`, `ClapPack`, `GetNewTaskGroups` | `Updater.BulkUpdateTaskGroups`, in order |
| `Unlink`, `Grow`, `Moves`, `Reorder`, `Put`, `Claps` | the methods of `taskGroupsPacked`, and of `tasksPacked` |
| `FindTreesAndCycles` | union-find, degrees, `topoSort`, and the panics |
| `TaskEdit!BulkUpdate` | `tasks.Updater.BulkUpdateTasks` for one group |
| `Commit`, `CommitWaits`, `OrderIsUnique` | the deferred unique index, looked at on commit |
| `Recover`, `Fail`, `DeadlockVictim` | a panic, an error and a deadlock end the transaction |

The tasks of one group are edited in one step: the group's row is locked since
the statement before, and no other handler writes its tasks.

### AnswerLog and QuestList

`tries` and `quest` are the tables, `reader` one client: what it asked for,
the token or page it will send next, and, as history, what was there when it
began and what it was sent.  `CountAnswers` and `QueryAnswers` are the two
statements of `GetAnswerLog`; `ReadQuests` is the one of `GetQuests` together
with the page id the handler computes.  Other requests change the tables
between two pages.  Time is counted in parts of the token's unit, so that what
is cut off is part of the model.

### Results

`answers`, `penalty` and `finished` are the tables; `loc` a request, the rows
it has read and the table it answers.  `GetScoreResults` and `GetPenalties` are
the two reads, `Serve` the sums and the sort, `DeletePenalties`, `DeleteSeen`
and `CommitPenalty` the transaction of a penalty.  A task may have been accepted
more than once (two tries that overlapped); the map of results keeps the row
that was read last, which `OneEach` leaves open.  `Before` is the comparator
given to `sort.Slice`; `SortRows` is insertion sort, which is what `sort.Slice`
does with at most twelve rows, and `Serve` feeds it the teams in any order.

### Quests

`quest`, `user` and `now` are the tables and the clock, `loc` a request.
`HandleCreate`/`CheckAccess`/`CreateQuest`, `HandleGet`/`GetQuest`/`Serve`,
`HandleUpdate`/`UpdateQuest`/`CommitUpdate`, `HandleDelete`/`GetQuest`/
`DeleteQuest` and `HandleFinish`/`GetQuest`/`FinishQuest` are the handlers,
statement by statement; `HandleModerate` stands for the handlers of the other
components that look who the creator is and dereference it.  `DeleteUser` sets
the creator of the user's quests to NULL.

### What is assumed of Postgres

The definitions marked external in `PROJECT.json` model Postgres from the way
the code uses it:

- READ COMMITTED (the default, play mode and joins): a statement sees what is
  committed when it starts and its own transaction's writes (`Visible`).
- A written row is locked until the transaction ends; an upsert of a row
  another transaction has written waits (`HoldsGroup`, `HoldsHint`).  A cycle
  of waits is found and one transaction of it is rolled back.
- REPEATABLE READ (creating a team): one snapshot.
- SERIALIZABLE (leaving): a leave commits only if nothing it read or writes was
  changed meanwhile in a way its isolation forbids (`Serializable`).  Conflicts
  with transactions of lower levels are found for written rows only.
- A registration's foreign key locks the team's row against deletion until the
  insert commits, and a deleted team takes its registrations with it.
- A DELETE or UPDATE that waited for a row looks at it again: what was deleted
  meanwhile is skipped (`DeletePenalties`, `Locked`).
- A deferrable unique constraint is checked on commit; a writer of a key that
  another transaction has written waits for that one's end (`CommitWaits`).
- Any statement may fail and any client or replica may go away (`Fail`): the
  transaction is rolled back.

## Runs

| Run | Asks | Instance |
|---|---|---|
| `play_honest` | `PlaysTheGame` (refinement of `LinearGame`), `OnlyStickyPanics`, `LastAnswerCloses`, `TypeOK` | a timed group, a sticky one, a timed one of two tasks; 2 requests at a time; members answer groups they were shown |
| `play_scores` | `HintsAreCharged`, `LateRequestsChangeNothing`, `TimesAreOrdered` | two timed groups of one task, the first with a hint; 2 requests at a time for any task |
| `play_sequential` | `SolvedGroupsClose`, `AcceptedOnce`, `ClosingIsFinal` | all branches of the status, sticky group, manual task; 1 request at a time |
| `play_live` | `RequestsEnd` under `FairSpec` | two groups that close at once, locked in both orders |
| `play_write_skew` | `SolvedGroupsClose`, violated | two answers of one group at once |
| `team_sequential` | `OneTeamPerUser`, `UnderCapacity`, `AcceptedWithinLimit`, `CaptainStays` | all eight operations, 1 request at a time |
| `team_leaving` | `TeamsHaveMembers`, `TypeOK` | create, join, leave and rename, 2 requests |
| `bulk_edit` | `OrdersStayDense`, `EditsAreDoneAsAsked`, `MovesAreSplit`, `PanicsAreExplained`, `PenaltiesFit`, `TypeOK` | 3 groups, 2 tasks; alone: up to two deletions, moves and creations, three deletions and two creations, three moves, creations listed by their indexes; in pairs that overlap: two groups moved to the front, a deletion, a creation, or both, lists of new groups, edits of a group's tasks |
| `answer_log` | `NothingIsMissed`, `RepeatsAreExplained`, `ReadersFinish`, `TypeOK` | up to 3 answers at 4 times in 2 milliseconds, pages of 1 and 2, tokens and numbers, both directions |
| `results` | `RanksAreFair`, `LeaderboardShowsTotals`, `LonePenaltyReplaces`, `TypeOK` | 3 teams, 2 tasks, one of which may be accepted twice with different scores, a late answer, 2 requests |
| `quest_list` | `NothingIsMissed`, `ReadersFinish`, `TypeOK` | 3 quests at 3 start times in 2 seconds, pages of 1 and 2, the public list and that of registered quests, a change of start or access while the client reads |
| `quests` | `LeaderboardAfterFinish`, `OnlyCreatorChanges`, `FinishedIsFinal`, `StatusMovesForward`, `UpdatesCompose`, `TypeOK` | one quest, 2 users, 2 requests, times in and out of order |

Deadlock is not checked in the runs of `PlayMode` and `TeamRegistry` because
these models stop by design: the clock stops at `MaxTime`, a finished quest
serves nobody, and a registry whose `Teams` are used up and deleted has no more
requests.  That no play request is stuck is `RequestsEnd`.  The other runs
check it: a new request can always be sent, or a request in progress goes on.

Why these bounds suffice to be interesting: each hazard needs two requests
that overlap, so two are in progress at once; a third only repeats the role of
one of them, since all lasting state is in the tables.

- Play mode: three groups are the least with a group that has one before and
  one after it; in `play_honest` it is the sticky one, which the page must step
  over and whose last answer panics.  There the limits are 0 and the clock goes
  to 1, so that a group is overdue at once and the next one inherits a deadline
  or opens with another's closing.  In `play_scores` both groups have a limit of
  1 and the clock goes to 2: the second opens with the quest, with the answer
  that closed the first or with its deadline, and either closes by an answer, by
  the page or at its deadline, by requests that read the clock earlier.
  `play_scores` asks for any task of the quest, as a client may; `play_honest`
  keeps to shown groups, since otherwise the order of groups is not kept (see
  the findings).  A hint's index is anything from one below to one beyond those
  there are.  `play_sequential` runs one request at a time because what it
  states is false otherwise (see `play_write_skew` and the findings); so does
  `team_sequential`.
- Bulk edit: three groups have chains of two moves, cycles of two and three,
  a chain beside a cycle once the slice grows, and slots below, at and beyond
  the end of the slice.  Ids that do not exist, ids named twice, two creations
  at one index, negative indexes and indexes out of range are among the inputs,
  and the orders with gaps that such edits leave are what later ones start
  from.  `MayOverlap` is a bound on the number of states: the edits with many
  parts are sent alone, and edits of each kind, deletions included, in pairs.
- Pages: two units of time in the unit of a token, two of those, and pages
  shorter than, as long as and longer than what shares one.  Three rows make a
  page that ends inside such a unit and one after it.
- Results: three teams are the least whose order can be inconsistent (a tie
  with a team without answers between two with some).  One team is penalized,
  by two requests at once.
- Quests: every order of two requests of all six kinds on one quest, deleted
  users between any two statements.  The clock passes every time a quest has.

Fairness.  `FairSpec` of `PlayMode`: Postgres and the Go scheduler run each
request's next statement (strong fairness, because a lock a request waits for is
released and taken again, and Postgres serves waiters in order), and the
deadlock detector ends a cycle of waiters (weak fairness).  `AnswerLog` and
`QuestList`: a client that has begun to page asks for the next page and is
answered (weak fairness of the read).  No fairness is assumed of other clients,
of the clock or of failures.

## What was found

One finding is a run, so that its counterexample is kept: **a solved group may
never close** (`play_write_skew`).  `TryAnswer` decides with the accepted tasks
it read first; the last two answers of a group miss each other, and no later
answer repeats the check.

The others are stated here with the way to see them in the models.  In play
mode (`ProgressInOrder` and `ClosingTimesAreOwn` are defined in `PlayMode` and
used by no run):

- Groups can be answered out of order: `ProgressInOrder` with `Honest = FALSE`.
  `GetTaskGroup` computes the team info of one group alone, and a group alone
  is always the first.  So the deadline enforced on a later group is counted
  from the quest's start too, not from the opening time shown.
- The last task of a sticky group cannot be solved in any quest: a nil
  dereference, game.go:577.  `OnlyStickyPanics` names it as the one exception.
- A hint taken while an answer is being scored is free: `HintsAreCharged` is
  about the hints there were when the answer arrived.
- With two requests at once a task can be accepted twice (`AcceptedOnce`), and
  a closing time may be overwritten by a request that arrived before the group
  closed (`ClosingIsFinal`); `LateRequestsChangeNothing` and `TimesAreOrdered`
  say what holds in spite of it.
- Closed groups show the closing time of the last one (`ClosingTimesAreOwn`):
  one variable is shared by all rows, team_info.go:115.

In the registry:

- With two requests instead of one, a user can be in two teams of a quest
  (`OneTeamPerUser`); later play requests of that user fail.
- With two requests, a team can exceed its capacity (`UnderCapacity`), and once
  it does the trigger lets everyone in.
- With two requests, more teams can be accepted than the quest allows
  (`AcceptedWithinLimit`), since `CreateTeam` and `AcceptTeam` count first and
  write later.
- With a single request a team can get a captain who is no member, since neither
  `ChangeLeader` nor `LeaveTeam` looks whether the one they promote is in the
  team.  `CaptainStays` names that as the exception (`NamesAMember`): every
  other way to a captain among the members, or from one, is checked.

In the bulk edit:

- An order with a gap can be committed, although the code uses order indexes as
  positions in a slice, so that a later deletion of a group indexes past it
  (updater.go:68).  A body does so by itself that moves one group twice, which
  leaves it in two slots, or that creates two groups at one index: both slots
  are looked at before either is filled (updater.go:184).  Two edits do so that
  overlap, when both delete groups or one deletes while the other, committed
  first, moves or adds some: each claps the order it has read, and the unique index
  sees no gaps.  `OrdersStayDense` says what is left of the order when none of
  this happens; its conditions (`Tidy`, `ReadStillHolds`) are these cases.
- An index beyond the slice, or a negative one, is not refused but panics
  (updater.go:165, 184), which the client sees as a server error: the first
  disjunct of `Explains` in `PanicsAreExplained`.  The others are an id moved
  twice and an order with a gap.
- `permutations.go:17-23` says two moves from one slot panic; when their
  component has a slot nothing goes to, `graph` keeps the last of them and the
  other is dropped instead.  Only a body that moves one group twice meets it,
  and `MovesAreSplit` is about the others.
- An update of a task's reward alone does not check the penalties of the hints
  it keeps, so these may cost more than the task brings: `PenaltiesFit` is about
  hints as they are given, and false of the table.  A percentage outside
  0..100 is stored, and found out when the edit reads its answer back and fails.

In pages (each is an exception named in the property of the run):

- Answer log: the token has milliseconds and the query compares microseconds.
  Oldest first, the last row of a page is sent again on the next, and a page
  full of one millisecond is sent for ever (`Crowded`); newest first, other
  answers of the millisecond in which a page ends are never sent.  By number,
  an answer that comes between the count and the page pushes others on.  A
  `page_size` of 0 divides by zero and is left out.
- Lists of quests: the page id asks for `finished` and for the start time to
  grow, each on its own, so finished quests that start no later than the last
  unfinished one shown are never sent, quests that start with the last one of a
  page are skipped, and one that does not start on a second is the last one for
  ever (`Fractional`).

In results:

- The comparator falls back to times and names in a way that is no order once a
  tied team has no accepted answer: `RanksAreFair` says what is left.
- Two penalties given at once may both stay and both count, until the next one
  replaces them: `LonePenaltyReplaces` without `alone`.
- A task accepted twice brings the score of whichever of its rows the query
  returns last.
- A leaderboard read while an answer in progress is committed may show a total
  the team never had (`joined` in `LeaderboardShowsTotals`).

In quests:

- A quest whose creator was deleted has a nil `Creator`, which the moderator's
  handlers dereference (play.go:332, 433, 487; task_groups.go:82, 145, 207;
  teams/service.go:172, 298): label `panic` of `Quests`.
- A user deleted after the check still finishes or deletes the quest: the
  second disjunct of `OnlyCreatorChanges`.
- `GetQuest` sets the creator's name only together with an avatar
  (pgclient/quest.go:157), and hint takes joined to hints that were cut since
  scan NULL into strings (answer_hint.go:49); neither is in a model.

What holds, in spite of the interleavings, is in the passing runs: scores
always charge every hint taken before the answer arrived, late requests and
retries change nothing, overwriting upserts keep the times of a group in order
and within its limit, members who answer what they see play the linear game, a
group in order is left open by its last answer only if another was committed
meanwhile, leaving members never strand a team, a tidy edit of a dense order
commits the order it was asked for, an update that was written before it was
checked is never seen unless its author is the creator, and a quest once
finished stays so.

## Proofs

`PlayModeProofs` proves `TypeCorrect == Spec => []TypeOK` for every set of
requests, every quest, every time limit and every bound.  `TypeOK` is
inductive because it includes `Coherent`, which ties a request's label to its
input, locals and writes: an answer row in a transaction belongs to an answer
request and hence to a task; a closing upsert has an opening time to copy; a
loop cursor is a group.  Without it the types of what `Commit` stores do not
follow.  The argument has one lemma per helper (the type of what
`fillTeamInfos` returns, of an updated local or write), one theorem per
action, and one step of `Next`.  It rests on `PlayModeAssumption` alone, which
TLC evaluates in every run of `MCPlayMode`.

It also proves the properties of `play_scores` and the other invariants of
`play_honest`, for every value of the constants: any quest, any number of
overlapping requests, honest or not.  Each is strengthened to something
inductive next to `TypeOK`.  All of them use that the common tables only grow
(`TablesKept`), for what a request knows about the past.

- `ScoresAreFair` (`HintsInv`): the hints a request has seen are still taken
  (`HintsSeen`), hence among those `ScoreAnswer` reads and charges; and an
  uncommitted score is as fair as a stored one (`ScoreIsFair`).
- `LateIsHarmless` (`LateInv`, `SparesInv`): what a request saw when it arrived
  still holds (`SeenHolds`); each of its guards, evaluated whenever the
  interleaving lets it, therefore still refuses it, so no late request is ever
  past the guard (`InTime`), and no group it saw closed is among its writes
  (`Spares`).  `AloneIsClosed` is the step that needs `fillTeamInfos`: a group
  with a row is read as closed even when it is read alone.
- `TimesStayOrdered` (`TimesInv`, `LimitInv`): every time a request holds or has
  written lies between the quest's start and the clock (`Stamp`,
  `WritesOrdered`), and the opening it will store is not after the clock it has
  read (`ClosesAfterOpening`).  A deadline that is enforced, or inherited by the
  next group, has passed (`DeadlineHasPassed`), and who is past the guard has
  read a clock within the limit (`ClosesWithin`).
- `OnlyStickyGroupsPanic` (`SupplyInv`): a group read by itself has a team info
  unless it is sticky; and every group in order that the page's loop has left
  was found closed, or has handed its deadline on as the opening of the next
  (`Supplied`), so that the loop never stands at a group without one.
- `LastAnswerClosesGroup` (`CountInv`, with `LateInv`): what a request counts
  includes what it saw on its arrival, so the answer it completes the group with
  is followed by the upsert, which stays among its writes whatever the page adds
  (`Counted`).  Only an answer committed since can be missing from the count.

Each of these proofs has a lemma per action (or group of actions alike) for
the request that moves, one lemma for all requests that do not
(`OthersUntouched`), and a step for the tables.  The lemmas named `...Fields`
say once what an action does to a request's locals and writes.

`QuestsProofs` proves all six properties of the `quests` run, for any number of
requests, users and quests and any plans and changes.  `IInv` adds to `TypeOK`
the shape of the variables and, for each request, what it still knows (`Sound`)
although its reads are statements ago: a row written and not committed is the
change of the row as it is, because the row is locked; who is about to finish
or delete a quest is its creator, or the account is gone and the quest has no
creator; and what is served as finished is finished or deleted.  The last two
are what makes the checks before the writes good enough without a transaction.
There is a lemma per action, three for what all requests share (one goes on,
one ends, one ends having written), and `WaysToChange`, which lists the ways a
row may change in a step and from which the action properties follow.

`TeamRegistryProofs` proves the two properties of `team_leaving` for any number
of requests, users and teams, from `TeamRegistryAssumption`, and uses no bound.
`IInv` adds to `TypeOK` what each request knows (`Knows`) and that nobody else
asks about a team that is being created (`Founds`), so that a team's row and
its first registration appear together.  `TeamsKeepMembers` assumes
`"remove" \notin Ops`: a captain who removes a member while the last other one
leaves empties a team, since removing is not serializable.  Without it, `Sees`
is the argument: a leaving request whose snapshot no commit has overtaken still
finds the snapshot's members in the team, so it commits a leave only where
others stay, and whoever is overtaken is refused.

The second part of `PlayModeProofs` proves that `PlayMode` implements `LinearGame` when members
answer only what they were shown (`Honest`) and the quest is linear
(`HonestTeamsPlayTheGame`).  The argument is `TrackInv`: a group is shown,
asked for, being closed or holding an answer only when every group before it is
closed or is closed by the same transaction, and closings go one after another
(`OnTrack`).  `ProgressInOrder` follows from the same invariant.  The
refinement has one step per action: all stutter but `Commit` and `FinishQuest`,
and a `Commit` maps to the abstract action of what it stores.

What `play_sequential` and `team_sequential` state of one request at a time is
only model-checked: it is false of two.

`ResultsProofs` proves all four properties of the `results` run.  `IInv` says
what a penalizing request has seen and deleted (`Deletes`): penalties of its
team, among them all that it wrote itself, and, while it is alone, all there
are; and that no two requests have deleted the same row (`Apart`), which is what
the row locks are for.  A commit takes away only rows that no other request has
deleted, and adds one to a team no lone request penalizes.  That is
`TypeOK` and `LonePenaltyReplaces`.  `ShowInv` is about the other two: every
table served is `Fair`, and a leaderboard in progress has noted every total
since it began, and has read the scores there are of every team without a late
answer (`Leads`), so that one read of the penalties later its sums are totals.
A task that was accepted more than once brings one of its rows: for each choice
of rows (`OneEach`) the rows of one team are such a choice for that team
(`OneEachOfTeam`), so a sum over them is one of its `Totals`.
`RanksAreFair` needs what `SortRows` computes.  A fold over a sequence is a
recursive function that is chosen, so the proof first shows that such a function
exists (`FoldsExist`, by induction over the length), then that it inserts row
after row (`SortSteps`), and that an insertion keeps a list `Fair`
(`InsertKeepsFair`): the insertion point is behind the last row the new one does
not come before, which needs no order, only that one row.  That totals are
integers is another such induction, over the size of a set (`SumsExist`,
`SumIsInt`).  The proof assumes that the accepted teams are finitely many.

`QuestListProofs` proves `TypeOK` and `NothingIsMissed` for any number of
quests and page sizes.  `Covered` is the invariant: a quest that was in the list
from the beginning and was not sent is past the page id, or one that was sent
hides it (`Hides`).  A page is a first piece of a sorted list, so a quest that
is past one page id and not past the next, and not on the page between them, is
hidden by the last quest of that page.

`AnswerLogProofs` proves `TypeOK`, `NothingIsMissed` and `RepeatsAreExplained`
for any answers, times and page sizes.  By token (`TokenInv`), what was sent is
behind the token and what was not is past it, or shares the millisecond in which
a page ended.  By number (`NumberInv`), an answer that is alone at its time and
that none has pushed on keeps its rank among those of the beginning, and the
pages so far have shown all lower ranks; the pages that were counted are enough
for all ranks.  What a client that is done was not sent has a reason that
stays (`DoneInv`).

`PermutationProofs` proves that `FindTreesAndCycles` returns the moves it was
given (`SplitReturnsTheMoves`), for any number of slots and any moves that are
one to one.  The union-find, the walk of a cycle and Kahn's algorithm are a
fold and recursive functions, which TLA+ chooses; each is first shown to exist
and to be the states it goes through.  After each union two slots have one root
exactly when the moves so far join them (`Linked`), so the components are the
least sets of slots that no move leaves or enters.  If every slot of a
component is entered, as many are left, and the walk comes back to its first
slot after all of them: a set of slots it had skipped would be closed, and the
component not the least.  If one is not, it is the only one, and the queue
holds nothing but the next slot of the trail that began there (`IsTrail`).

`BulkEditProofs` proves six things about the bulk edit, for any number of
requests, groups and tasks and any body (`Edit`: lists of any length, ids that
do not exist, any index, reward and penalty).  Its algorithms are folds over
the body, and no theorem about folds can be instantiated; so each fold is shown
to be the states it goes through (`ShiftRun`, `UnlinkRun`, `UpdateTaskRun` and
the like, by induction over the length in `Induction`), and from one step of it
follows what all of it keeps.  `BulkUpdateType` sums up what the edit of one
group's tasks returns.  `Kinds` sums up what an action of a request does:
a request starts, goes on, ends, removes or indexes a group, edits a group's
tasks, or commits.  There is a lemma per action that says of which kind it is
(`StepKinds`), and each invariant is shown kind by kind.

- `TypeCorrect` (`TypeInv`, and `AllWhole` below): stored indexes are natural
  numbers although bodies have any integers.  It needs the types of the pack,
  and that a request past `CheckCreateTaskGroups` creates within its slice
  (`InSlice`).  What a `Reorder` leaves is a slice of items whatever moves it
  was given.
- `TasksAreLockedByGroup` (`Locked`): transactions in progress write disjoint
  rows, and a task that one of them writes was and is in groups whose rows it
  has written, and so holds.  This justifies that the edit of a group's tasks is
  one action.  It is not a run's property; TLC has checked it on the instance
  of `bulk_edit` before it was proved.
- `TasksKeepTheirGroups` (`AllWhole`): what a transaction sees has no task
  without its group, be it committed or its own.  By `Locked` nobody else
  deletes the group meanwhile, so this survives every commit.  `TypeOK` has it.
- `HintsFitTheirReward` (`HintInv`): a task that a transaction has written
  carries hints that fit, or those of the table; and while it updates groups, it
  has written only tasks of groups it is done with.  This is where `NamesOnce`
  comes in: an edit that names a task twice may give hints with the first update
  and lower the reward with the second, which validates nothing.  It is a
  condition of the property, not of the theorem: the edits are any.
- `OrderIndexesAreUnique` (`KeyInv`): no two groups are ever committed with one
  order index.  A deferred unique constraint does not compare all rows at the
  commit, only the rows whose index another row seemed to have when they were
  written, and it waits for a transaction that has written that index too.  The
  invariant says why this is enough: of two rows written with one index the
  later is suspect (`Suspected`), and a row that is not suspect has an index
  that no row of the table has which its transaction leaves alone (`Live`); a
  commit keeps the latter for others because it would have waited for them.
- `MovesAreChainsAndCycles` (`OldOnce`, with `KeyInv`): the
  property `MovesAreSplit`.  The groups an edit has read have different order
  indexes, since it has updated none before it reads and no others are
  committed; if it updates each group once (a condition of the property) its
  moves are therefore one to one, and `SplitReturnsTheMoves` applies.

Assumptions on constants say what the code's types and the database give: sizes
and times are numbers, a nil is no row (`None` is not a team info, an answer row
or a quest), and tables are finite.  Each is an `ASSUME` which TLC evaluates in
the runs.

Only model-checked: in the bulk edit, `OrdersStayDense`, `EditsAreDoneAsAsked`
and `PanicsAreExplained`.  They compare what an edit leaves with definitions
that do not follow the code, for every input of the bounds; what the shifts of
chains and cycles compute, not only which types they keep, is what a proof would
have to follow through the folds.  The limits of one request at a time:
`SolvedGroupsClose`, `AcceptedOnce`, `ClosingIsFinal`, `OneTeamPerUser`,
`UnderCapacity`, `AcceptedWithinLimit`, and with them `CaptainStays`.  Liveness
and ENABLED are out of the prover's reach: `RequestsEnd` and `ReadersFinish`
stay with TLC.

## What is left

1. Proofs: `OrdersStayDense` and `PanicsAreExplained`, for which the slice has to
   be followed through the shifts.
2. Play mode beside an editing quest creator: tasks and hints that change
   between takes.

The project is kept to a dozen runs, so that it is checked in minutes: new
questions replace old ones or share a run.

## Not modelled

Signing up and in (passwords, Google) and profiles touch no state of a quest;
of users only their deletion is modelled.  Tokens, image checks, decoding and
encoding, the migration runner, CORS, logging, metrics and the choice of a
Postgres host keep no state that two requests share.  Invite
links, names, texts, media and limits are data no property reads.  Generated
documents and mocks are not code of the system.
