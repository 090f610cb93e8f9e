---------------------------- MODULE QuestsProofs ----------------------------
(***************************************************************************)
(* Proofs about Quests: its type invariant and everything its run checks,  *)
(* for any number of requests, users, quests, plans and changes.           *)
(*                                                                         *)
(* The invariant IInv adds to TypeOK what a request knows of its quest: an *)
(* update in a transaction is still the change of the row as it is, a      *)
(* writer is still the creator unless an account was deleted, and what is  *)
(* served as finished still is.                                            *)
(***************************************************************************)
EXTENDS Quests, TLAPS

Ops == {"none", "create", "get", "moderate", "delete", "finish", "update"}
Statuses == {"none", "ON_REGISTRATION", "REGISTRATION_DONE", "RUNNING", "WAIT_RESULTS", "FINISHED"}
Loc == [pc : Labels, op : Ops, user : Users \cup {None}, quest : Quests \cup {None},
        change : Changes \cup Plans \cup {None}, row : Row \cup {None}, status : Statuses]

Shaped ==
  /\ quest \in [Quests -> Row \cup {None, Gone}]
  /\ loc \in [Requests -> Loc]

Asks(l) == l.pc \in {"read", "write", "update", "written", "serve", "panic"} => l.quest \in Quests
Creates(l) == l.pc \in {"access", "insert"} => l.user \in Users /\ l.change \in Plans
Updates(l) == l.pc \in {"update", "written"} => l.change \in Changes
Writes(l) ==
  l.pc = "write" =>
    /\ quest[l.quest] # None
    /\ Exists(l.quest) =>
         \/ quest[l.quest].creator = l.user
         \/ quest[l.quest].creator = None /\ l.user \notin user
Serves(l) ==
  l.pc = "serve" =>
    /\ quest[l.quest] # None
    /\ HasLeaderboard(l.status) /\ Exists(l.quest) => quest[l.quest].finished
Written(l) ==
  l.pc = "written" =>
    /\ Exists(l.quest)
    /\ l.row = Changed(quest[l.quest], l.change)
Sound(l) == Asks(l) /\ Creates(l) /\ Updates(l) /\ Writes(l) /\ Serves(l) /\ Written(l)

IInv ==
  /\ TypeOK
  /\ Shaped
  /\ \A r \in Requests : Sound(loc[r])

-----------------------------------------------------------------------------
(* An idle request asks for nothing and satisfies everything.              *)
LEMMA IdleIsSound ==
  /\ Idle \in Loc /\ Idle.pc = "idle" /\ Sound(Idle)
  BY DEF Idle, Loc, Labels, Ops, Statuses, Sound, Asks, Creates, Updates, Writes, Serves, Written

(* What Changed leaves and what it sets.                                   *)
LEMMA ChangedRow ==
  ASSUME NEW row \in Row, NEW change \in Changes
  PROVE  /\ Changed(row, change) \in Row
         /\ Changed(row, change).creator = row.creator
         /\ Changed(row, change).finished = row.finished
  <1>1. /\ DOMAIN change \subseteq Fields
        /\ \A f \in DOMAIN change : change[f] \in Int
    BY QuestsAssumption
  <1>2. DOMAIN row = {"deadline", "start", "finish", "finished", "creator"}
    BY DEF Row
  <1>3. Changed(row, change) =
          [deadline |-> IF "deadline" \in DOMAIN change THEN change["deadline"] ELSE row.deadline,
           start |-> IF "start" \in DOMAIN change THEN change["start"] ELSE row.start,
           finish |-> IF "finish" \in DOMAIN change THEN change["finish"] ELSE row.finish,
           finished |-> row.finished, creator |-> row.creator]
    BY <1>1, <1>2 DEF Changed, Fields
  <1> QED
    BY <1>1, <1>3 DEF Row

(* Init establishes the invariant.                                         *)
LEMMA InitIsSound == Init => IInv
  <1> SUFFICES ASSUME Init PROVE IInv
    OBVIOUS
  <1>1. \A r \in Requests : loc[r] = Idle
    BY DEF Init
  <1>2. \A q \in Quests : ~Exists(q)
    BY DEF Init, Exists
  <1>3. TypeOK
    BY <1>1, <1>2, IdleIsSound, QuestsAssumption DEF TypeOK, Init, Locked, Labels
  <1>4. Shaped
    BY IdleIsSound DEF Shaped, Init
  <1> QED
    BY <1>1, <1>3, <1>4, IdleIsSound DEF IInv

(* A request goes on to l, which is sound, and nothing else changes.       *)
LEMMA GoesOn ==
  ASSUME IInv, NEW r \in Requests, NEW l \in Loc, Sound(l), l.pc # "written",
         loc' = [loc EXCEPT ![r] = l], UNCHANGED <<now, user, quest>>
  PROVE  IInv'
  <1> USE DEF IInv
  <1>1. \A p \in Requests : loc[p]' = IF p = r THEN l ELSE loc[p]
    BY DEF Shaped
  <1>2. \A q : Exists(q)' = Exists(q)
    BY DEF Exists
  <1>3. \A p \in Requests : \A q : Locked(p, q)' => Locked(p, q)
    BY <1>1 DEF Locked
  <1>4. TypeOK'
    <2>1. \A p \in Requests : loc[p].pc' \in Labels
      BY <1>1 DEF TypeOK, Loc
    <2>2. \A p \in Requests : (loc[p].pc = "written" =>
            ~Locked(p, loc[p].quest) /\ Exists(loc[p].quest))'
      BY <1>1, <1>2, <1>3 DEF TypeOK
    <2> QED
      BY <2>1, <2>2, <1>2 DEF TypeOK
  <1>5. Shaped'
    BY DEF Shaped
  <1>6. \A p \in Requests : Sound(loc[p])'
    BY <1>1, <1>2 DEF Sound, Asks, Creates, Updates, Writes, Serves, Written, HasLeaderboard
  <1> QED
    BY <1>4, <1>5, <1>6

(* A request ends and has put row in the place of a quest that it may      *)
(* write.  A writer of it stays entitled, and what was served stays true.  *)
LEMMA EndsWriting ==
  ASSUME IInv, NEW r \in Requests, NEW q \in Quests, Exists(q), ~Locked(r, q),
         NEW row \in Row \cup {Gone},
         row # Gone => row.creator = quest[q].creator /\ (quest[q].finished => row.finished),
         quest' = [quest EXCEPT ![q] = row], loc' = [loc EXCEPT ![r] = Idle],
         UNCHANGED <<now, user>>
  PROVE  IInv'
  <1> USE DEF IInv
  <1>1. \A p \in Requests : loc[p]' = IF p = r THEN Idle ELSE loc[p]
    BY DEF Shaped
  <1>2. \A s \in Quests : quest[s]' = IF s = q THEN row ELSE quest[s]
    BY DEF Shaped
  <1>3. row # None
    BY QuestsAssumption
  <1>4. \A s \in Quests : s # q \/ row # Gone => Exists(s)' = Exists(s)
    BY <1>2, <1>3 DEF Exists
  <1>5. \A p \in Requests : \A s : Locked(p, s)' => Locked(p, s)
    BY <1>1, IdleIsSound DEF Locked
  <1>6. \A p \in Requests : p # r /\ loc[p].pc = "written" => loc[p].quest # q
    BY DEF Locked
  <1>7. TypeOK'
    <2>1. \A s \in Quests : (Exists(s) => quest[s] \in Row /\ quest[s].creator \in user \cup {None})'
      BY <1>2, <1>4 DEF TypeOK, Exists
    <2>2. \A p \in Requests : loc[p].pc' \in Labels
      BY <1>1, IdleIsSound DEF TypeOK, Loc
    <2>3. \A p \in Requests : (loc[p].pc = "written" =>
            ~Locked(p, loc[p].quest) /\ Exists(loc[p].quest))'
      <3> SUFFICES ASSUME NEW p \in Requests, loc[p].pc' = "written"
                   PROVE  ~Locked(p, loc[p].quest)' /\ Exists(loc[p].quest)'
        OBVIOUS
      <3>1. p # r /\ loc[p]' = loc[p] /\ loc[p].pc = "written"
        BY <1>1, IdleIsSound
      <3>2. loc[p].quest \in Quests
        BY <3>1 DEF Sound, Asks
      <3> QED
        BY <3>1, <3>2, <1>4, <1>5, <1>6 DEF TypeOK
    <2> QED
      BY <2>1, <2>2, <2>3 DEF TypeOK
  <1>8. Shaped'
    BY IdleIsSound DEF Shaped
  <1>9. \A p \in Requests : Sound(loc[p])'
    <2> SUFFICES ASSUME NEW p \in Requests, p # r
                 PROVE  Sound(loc[p])'
      BY <1>1, IdleIsSound DEF Sound, Asks, Creates, Updates, Writes, Serves, Written
    <2>1. loc[p]' = loc[p] /\ Sound(loc[p])
      BY <1>1
    <2>2. (Asks(loc[p]) /\ Creates(loc[p]) /\ Updates(loc[p]))'
      BY <2>1 DEF Sound, Asks, Creates, Updates
    <2>3. Writes(loc[p])'
      BY <2>1, <1>2, <1>3, <1>4 DEF Sound, Asks, Writes, Exists
    <2>4. Serves(loc[p])'
      BY <2>1, <1>2, <1>3, <1>4 DEF Sound, Asks, Serves, Exists, HasLeaderboard
    <2>5. Written(loc[p])'
      BY <2>1, <1>2, <1>4, <1>6 DEF Sound, Asks, Written
    <2> QED
      BY <2>2, <2>3, <2>4, <2>5 DEF Sound
  <1> QED
    BY <1>7, <1>8, <1>9

(* Requests end without a write.                                           *)
LEMMA EndsIdle ==
  ASSUME IInv, NEW r \in Requests, loc' = [loc EXCEPT ![r] = Idle], UNCHANGED <<now, user, quest>>
  PROVE  IInv'
  BY GoesOn, IdleIsSound

LEMMA ServeFailKeep ==
  ASSUME IInv, NEW r \in Requests, Serve(r) \/ Fail(r)
  PROVE  IInv'
  BY EndsIdle DEF Serve, Fail, Goto

(* Requests arrive.                                                        *)
LEMMA BeginKeeps ==
  ASSUME IInv, NEW r \in Requests, NEW op \in Ops, NEW u \in Users \cup {None},
         NEW q \in Quests \cup {None}, NEW change \in Changes \cup Plans \cup {None},
         NEW label \in {"access", "read", "update"},
         label = "access" => u \in Users /\ change \in Plans,
         label = "update" => change \in Changes,
         label # "access" => q \in Quests,
         Begin(r, op, u, q, change, label)
  PROVE  IInv'
  <1> DEFINE l == [Idle EXCEPT !.pc = label, !.op = op, !.user = u, !.quest = q, !.change = change]
  <1>1. l \in Loc
    BY DEF Loc, Idle, Labels, Statuses
  <1>2. /\ l.pc = label /\ l.user = u /\ l.quest = q /\ l.change = change
    BY DEF Idle
  <1>3. Sound(l)
    BY <1>2 DEF Sound, Asks, Creates, Updates, Writes, Serves, Written
  <1> QED
    BY <1>1, <1>2, <1>3, GoesOn DEF Begin

LEMMA ArrivalsKeep ==
  ASSUME IInv, NEW r \in Requests, NEW u \in Users, NEW q \in Quests
  PROVE  /\ HandleGet(r, q) \/ HandleModerate(r, u, q) => IInv'
         /\ HandleDelete(r, u, q) \/ HandleFinish(r, u, q) => IInv'
         /\ \A change \in Changes : HandleUpdate(r, u, q, change) => IInv'
  BY BeginKeeps DEF HandleGet, HandleModerate, HandleDelete, HandleFinish, HandleUpdate, Ops

LEMMA HandleCreateKeeps ==
  ASSUME IInv, NEW r \in Requests, NEW u \in Users, NEW plan \in Plans, HandleCreate(r, u, plan)
  PROVE  IInv'
  BY BeginKeeps DEF HandleCreate, Ops

LEMMA CheckAccessKeeps ==
  ASSUME IInv, NEW r \in Requests, CheckAccess(r)
  PROVE  IInv'
  <1> DEFINE l == [loc[r] EXCEPT !.pc = "insert"]
  <1>1. loc[r] \in Loc /\ Sound(loc[r]) /\ loc[r].pc = "access"
    BY DEF IInv, Shaped, CheckAccess
  <1>2. l \in Loc /\ l.pc = "insert" /\ l.user = loc[r].user /\ l.change = loc[r].change
    BY <1>1 DEF Loc, Labels
  <1>3. Sound(l)
    BY <1>1, <1>2 DEF Sound, Asks, Creates, Updates, Writes, Serves, Written
  <1>4. CASE loc' = [loc EXCEPT ![r] = l]
    BY <1>2, <1>3, <1>4, GoesOn DEF CheckAccess, Goto
  <1>5. CASE loc' = [loc EXCEPT ![r] = Idle]
    BY <1>5, EndsIdle DEF CheckAccess, Goto
  <1> QED
    BY <1>4, <1>5 DEF CheckAccess, Goto

(* A created quest had no row, so no request has seen it.                  *)
LEMMA CreateQuestKeeps ==
  ASSUME IInv, NEW r \in Requests, CreateQuest(r)
  PROVE  IInv'
  <1> USE DEF IInv
  <1>1. /\ loc' = [loc EXCEPT ![r] = Idle]
        /\ UNCHANGED <<now, user>>
        /\ loc[r].change \in Plans
    BY DEF CreateQuest, End, Sound, Creates
  <1>2. CASE UNCHANGED quest
    BY <1>1, <1>2, EndsIdle
  <1>3. CASE loc[r].user \in user /\ InsertQuest(r)
    <2> DEFINE row == [deadline |-> loc[r].change.deadline, start |-> loc[r].change.start,
                       finish |-> loc[r].change.finish, finished |-> FALSE,
                       creator |-> loc[r].user]
    <2>1. PICK q \in Quests : quest[q] = None /\ quest' = [quest EXCEPT ![q] = row]
      BY <1>3 DEF InsertQuest
    <2>2. row \in Row /\ row.creator \in user
      BY <1>1, <1>3, QuestsAssumption DEF Row, TypeOK
    <2> HIDE DEF row
    <2>3. \A s \in Quests : quest[s]' = IF s = q THEN row ELSE quest[s]
      BY <2>1 DEF Shaped
    <2>4. \A p \in Requests : loc[p]' = IF p = r THEN Idle ELSE loc[p]
      BY <1>1 DEF Shaped
    <2>5. \A p \in Requests : \A s : Locked(p, s)' => Locked(p, s)
      BY <2>4, IdleIsSound DEF Locked
    <2>6. \A p \in Requests : loc[p].pc \in {"write", "serve", "written"} => loc[p].quest \in Quests \ {q}
      BY <2>1 DEF Sound, Asks, Writes, Serves, Written, Exists
    <2>7. TypeOK'
      <3>1. \A s \in Quests : (Exists(s) => quest[s] \in Row /\ quest[s].creator \in user \cup {None})'
        BY <2>2, <2>3, <1>1 DEF TypeOK, Exists
      <3>2. \A p \in Requests : loc[p].pc' \in Labels
        BY <2>4, IdleIsSound DEF TypeOK, Loc
      <3>3. \A p \in Requests : (loc[p].pc = "written" =>
              ~Locked(p, loc[p].quest) /\ Exists(loc[p].quest))'
        BY <2>3, <2>4, <2>5, <2>6, IdleIsSound DEF TypeOK, Exists
      <3> QED
        BY <1>1, <3>1, <3>2, <3>3 DEF TypeOK
    <2>8. Shaped'
      BY <1>1, <2>1, <2>2, IdleIsSound DEF Shaped
    <2>9. \A p \in Requests : Sound(loc[p])'
      <3> SUFFICES ASSUME NEW p \in Requests, p # r
                   PROVE  Sound(loc[p])'
        BY <2>4, IdleIsSound DEF Sound, Asks, Creates, Updates, Writes, Serves, Written
      <3>1. loc[p]' = loc[p] /\ Sound(loc[p])
        BY <2>4
      <3> QED
        BY <1>1, <2>3, <2>6, <3>1
        DEF Sound, Asks, Creates, Updates, Writes, Serves, Written, Exists, HasLeaderboard
    <2> QED
      BY <2>7, <2>8, <2>9
  <1> QED
    BY <1>2, <1>3 DEF CreateQuest

(* What GetQuest reads holds of the quest as it is.                        *)
LEMMA GetQuestKeeps ==
  ASSUME IInv, NEW r \in Requests, GetQuest(r)
  PROVE  IInv'
  <1> USE DEF IInv
  <1>1. loc[r] \in Loc /\ loc[r].quest \in Quests
    BY DEF Shaped, Sound, Asks, GetQuest
  <1>2. CASE ~Exists(loc[r].quest)
    BY <1>2, EndsIdle DEF GetQuest, Goto
  <1>3. CASE Exists(loc[r].quest)
    <2> DEFINE row == quest[loc[r].quest]
               read == [loc[r] EXCEPT !.row = row]
    <2>1. row \in Row /\ row # None
      BY <1>1, <1>3 DEF TypeOK, Exists
    <2>2. /\ read \in Loc /\ read.row = row
          /\ read.quest = loc[r].quest /\ read.user = loc[r].user /\ read.op = loc[r].op
      BY <1>1, <2>1 DEF Loc
    <2> HIDE DEF read
    <2>3. Checked(read) \in Loc /\ Sound(Checked(read)) /\ Checked(read).pc # "written"
      <3>1. CASE read.op = "get"
        <4> DEFINE l == [read EXCEPT !.pc = "serve", !.status = Status(row)]
        <4>1. Checked(read) = l
          BY <2>2, <3>1 DEF Checked
        <4>2. Status(row) \in Statuses /\ (Status(row) = "FINISHED" => row.finished)
          BY DEF Status, Statuses
        <4>3. l \in Loc /\ l.pc = "serve" /\ l.status = Status(row) /\ l.quest = loc[r].quest
          BY <2>2, <4>2 DEF Loc, Labels
        <4>4. Sound(l)
          BY <1>1, <2>1, <4>2, <4>3
          DEF Sound, Asks, Creates, Updates, Writes, Serves, Written, HasLeaderboard
        <4> QED
          BY <4>1, <4>3, <4>4
      <3>2. CASE read.op # "get" /\ row.creator = read.user
        <4> DEFINE l == [read EXCEPT !.pc = "write"]
        <4>1. Checked(read) = l \/ Checked(read) = [read EXCEPT !.pc = "panic"]
          BY <2>2, <3>2 DEF Checked
        <4>2. /\ l \in Loc /\ l.pc = "write" /\ l.quest = loc[r].quest /\ l.user = loc[r].user
              /\ [read EXCEPT !.pc = "panic"] \in Loc
              /\ [read EXCEPT !.pc = "panic"].pc = "panic"
              /\ [read EXCEPT !.pc = "panic"].quest = loc[r].quest
          BY <2>2 DEF Loc, Labels
        <4>3. Sound(l)
          BY <1>1, <2>1, <2>2, <3>2, <4>2
          DEF Sound, Asks, Creates, Updates, Writes, Serves, Written
        <4>4. Sound([read EXCEPT !.pc = "panic"])
          BY <1>1, <4>2 DEF Sound, Asks, Creates, Updates, Writes, Serves, Written
        <4> QED
          BY <4>1, <4>2, <4>3, <4>4
      <3>3. CASE read.op # "get" /\ row.creator # read.user
        <4> DEFINE l == [read EXCEPT !.pc = "panic"]
        <4>1. Checked(read) = l \/ Checked(read) = Idle
          BY <2>2, <3>3 DEF Checked
        <4>2. l \in Loc /\ l.pc = "panic" /\ l.quest = loc[r].quest
          BY <2>2 DEF Loc, Labels
        <4>3. Sound(l)
          BY <1>1, <4>2 DEF Sound, Asks, Creates, Updates, Writes, Serves, Written
        <4> QED
          BY <4>1, <4>2, <4>3, IdleIsSound
      <3> QED
        BY <3>1, <3>2, <3>3
    <2>4. loc' = [loc EXCEPT ![r] = Checked(read)] /\ UNCHANGED <<now, user, quest>>
      BY <1>3 DEF GetQuest, Goto, read
    <2> QED
      BY <2>3, <2>4, GoesOn
  <1> QED
    BY <1>2, <1>3

LEMMA DeleteQuestKeeps ==
  ASSUME IInv, NEW r \in Requests, DeleteQuest(r)
  PROVE  IInv'
  <1> DEFINE q == loc[r].quest
  <1>1. q \in Quests /\ quest[q] # None /\ ~Locked(r, q)
    BY DEF IInv, DeleteQuest, Sound, Asks, Writes
  <1>2. /\ quest' = [quest EXCEPT ![q] = Gone] /\ loc' = [loc EXCEPT ![r] = Idle]
        /\ UNCHANGED <<now, user>>
    BY DEF DeleteQuest, End
  <1>3. CASE Exists(q)
    BY <1>1, <1>2, <1>3, EndsWriting
  <1>4. CASE ~Exists(q)
    <2>1. quest' = quest
      BY <1>1, <1>2, <1>4 DEF Exists, IInv, Shaped
    <2> QED
      BY <1>2, <2>1, EndsIdle
  <1> QED
    BY <1>3, <1>4

LEMMA FinishQuestKeeps ==
  ASSUME IInv, NEW r \in Requests, FinishQuest(r)
  PROVE  IInv'
  <1> DEFINE q == loc[r].quest
             row == [quest[q] EXCEPT !.finished = TRUE]
  <1>1. q \in Quests /\ ~Locked(r, q)
    BY DEF IInv, FinishQuest, Sound, Asks
  <1>2. loc' = [loc EXCEPT ![r] = Idle] /\ UNCHANGED <<now, user>>
    BY DEF FinishQuest, End
  <1>3. CASE Exists(q)
    <2>1. quest[q] \in Row
      BY <1>1, <1>3 DEF IInv, TypeOK
    <2>2. row \in Row /\ row.finished /\ row.creator = quest[q].creator
      BY <2>1 DEF Row
    <2>3. quest' = [quest EXCEPT ![q] = row]
      BY <1>3 DEF FinishQuest
    <2> QED
      BY <1>1, <1>2, <1>3, <2>2, <2>3, EndsWriting
  <1>4. CASE ~Exists(q)
    BY <1>2, <1>4, EndsIdle DEF FinishQuest
  <1> QED
    BY <1>3, <1>4

(* UPDATE finds the row unlocked and locks it.                             *)
LEMMA UpdateQuestKeeps ==
  ASSUME IInv, NEW r \in Requests, UpdateQuest(r)
  PROVE  IInv'
  <1> USE DEF IInv
  <1> DEFINE q == loc[r].quest
             row == Changed(quest[q], loc[r].change)
             l == [loc[r] EXCEPT !.pc = "written", !.row = row]
  <1>1. /\ loc[r] \in Loc /\ q \in Quests /\ loc[r].change \in Changes
        /\ loc[r].pc = "update" /\ ~Locked(r, q) /\ UNCHANGED <<now, user, quest>>
    BY DEF Shaped, Sound, Asks, Updates, UpdateQuest, Goto
  <1>2. CASE ~Exists(q)
    BY <1>2, EndsIdle DEF UpdateQuest, Goto
  <1>3. CASE Exists(q)
    <2>1. row \in Row
      BY <1>1, <1>3, ChangedRow DEF TypeOK
    <2> HIDE DEF row
    <2>2. /\ l \in Loc /\ l.pc = "written" /\ l.row = row
          /\ l.quest = q /\ l.change = loc[r].change
      BY <1>1, <2>1 DEF Loc, Labels
    <2>3. Sound(l)
      BY <1>1, <1>3, <2>2 DEF Sound, Asks, Creates, Updates, Writes, Serves, Written, row
    <2> HIDE DEF l
    <2>4. \A p \in Requests : loc[p]' = IF p = r THEN l ELSE loc[p]
      BY <1>3 DEF UpdateQuest, Goto, Shaped, l, row
    <2>5. \A s : Exists(s)' = Exists(s)
      BY <1>1 DEF Exists
    <2>6. ~Locked(r, q)'
      BY <1>1, <2>2, <2>4 DEF Locked
    <2>7. \A p \in Requests \ {r} : loc[p].pc = "written" => loc[p].quest # q
      BY <1>1 DEF Locked
    <2>8. \A p \in Requests \ {r} : \A s : s # q /\ Locked(p, s)' => Locked(p, s)
      BY <2>2, <2>4 DEF Locked
    <2>9. TypeOK'
      <3>1. \A p \in Requests : (loc[p].pc = "written" =>
              ~Locked(p, loc[p].quest) /\ Exists(loc[p].quest))'
        BY <1>3, <2>2, <2>4, <2>5, <2>6, <2>7, <2>8 DEF TypeOK
      <3>2. \A p \in Requests : loc[p].pc' \in Labels
        BY <2>2, <2>4 DEF TypeOK, Loc
      <3> QED
        BY <1>1, <2>5, <3>1, <3>2 DEF TypeOK
    <2>10. Shaped'
      BY <1>1, <1>3, <2>2 DEF Shaped, UpdateQuest, Goto, l, row
    <2>11. \A p \in Requests : Sound(loc[p])'
      BY <1>1, <2>3, <2>4, <2>5
      DEF Sound, Asks, Creates, Updates, Writes, Serves, Written, HasLeaderboard
    <2> QED
      BY <2>9, <2>10, <2>11
  <1> QED
    BY <1>2, <1>3

(* What is committed is the change of the row as it is.                    *)
LEMMA CommitUpdateKeeps ==
  ASSUME IInv, NEW r \in Requests, CommitUpdate(r)
  PROVE  IInv'
  <1> DEFINE q == loc[r].quest
             row == Changed(quest[q], loc[r].change)
  <1>1. /\ q \in Quests /\ Exists(q) /\ ~Locked(r, q) /\ loc[r].row = row
        /\ quest[q] \in Row /\ loc[r].change \in Changes
    BY DEF IInv, TypeOK, Sound, Asks, Updates, Written, CommitUpdate
  <1>2. /\ row \in Row /\ row.creator = quest[q].creator /\ row.finished = quest[q].finished
    BY <1>1, ChangedRow
  <1>3. loc' = [loc EXCEPT ![r] = Idle] /\ UNCHANGED <<now, user>>
    BY DEF CommitUpdate, End
  <1>4. CASE quest' = [quest EXCEPT ![q] = row]
    BY <1>1, <1>2, <1>3, <1>4, EndsWriting
  <1>5. CASE quest' = quest
    BY <1>3, <1>5, EndsIdle
  <1> QED
    BY <1>1, <1>4, <1>5 DEF CommitUpdate

(* A deleted user's quests lose their creator; none of them is locked.     *)
LEMMA DeleteUserKeeps ==
  ASSUME IInv, NEW u \in Users, DeleteUser(u)
  PROVE  IInv'
  <1> USE DEF IInv
  <1>1. /\ user' = user \ {u} /\ UNCHANGED <<now, loc>> /\ u # None
        /\ \A q \in Quests : quest[q]' = IF Exists(q) /\ quest[q].creator = u
                                         THEN [quest[q] EXCEPT !.creator = None] ELSE quest[q]
        /\ \A q \in Quests : Exists(q) /\ quest[q].creator = u => ~Locked(None, q)
    BY QuestsAssumption DEF DeleteUser
  <1>2. \A row \in Row : LET less == [row EXCEPT !.creator = None] IN
          /\ less \in Row /\ less.creator = None /\ less.finished = row.finished
    BY DEF Row
  <1>3. \A q \in Quests : Exists(q)' = Exists(q)
    <2> SUFFICES ASSUME NEW q \in Quests PROVE Exists(q)' = Exists(q)
      OBVIOUS
    <2>1. CASE Exists(q)
      <3>1. quest[q] \in Row
        BY <2>1 DEF TypeOK
      <3>2. quest[q]' \in Row
        BY <1>1, <1>2, <3>1
      <3> QED
        BY <2>1, <3>2, QuestsAssumption DEF Exists
    <2>2. CASE ~Exists(q)
      <3>1. quest[q]' = quest[q]
        BY <1>1, <2>2
      <3> QED
        BY <3>1 DEF Exists
    <2> QED
      BY <2>1, <2>2
  <1>4. \A p \in Requests : loc[p].pc = "written" =>
          quest[loc[p].quest]' = quest[loc[p].quest]
    <2> SUFFICES ASSUME NEW p \in Requests, loc[p].pc = "written"
                 PROVE  quest[loc[p].quest]' = quest[loc[p].quest]
      OBVIOUS
    <2>1. loc[p].quest \in Quests /\ Locked(None, loc[p].quest)
      BY QuestsAssumption DEF Sound, Asks, Locked
    <2> QED
      BY <1>1, <2>1
  <1>5. TypeOK'
    <2>1. \A q \in Quests : (Exists(q) => quest[q] \in Row /\ quest[q].creator \in user \cup {None})'
      BY <1>1, <1>2, <1>3 DEF TypeOK
    <2>2. \A p \in Requests : (loc[p].pc = "written" =>
            ~Locked(p, loc[p].quest) /\ Exists(loc[p].quest))'
      BY <1>1, <1>3 DEF TypeOK, Sound, Asks, Locked
    <2> QED
      BY <1>1, <2>1, <2>2 DEF TypeOK
  <1>6. Shaped'
    <2>1. \A q \in Quests : quest[q]' \in Row \cup {None, Gone}
      BY <1>1, <1>2 DEF Shaped, TypeOK
    <2>2. quest' = [q \in Quests |-> quest[q]']
      BY DEF DeleteUser
    <2> QED
      BY <1>1, <2>1, <2>2 DEF Shaped
  <1>7. \A p \in Requests : Sound(loc[p])'
    <2> SUFFICES ASSUME NEW p \in Requests PROVE Sound(loc[p])'
      OBVIOUS
    <2>1. (Asks(loc[p]) /\ Creates(loc[p]) /\ Updates(loc[p]))'
      BY <1>1 DEF Sound, Asks, Creates, Updates
    <2>2. loc[p].pc \in {"write", "serve", "written"} => loc[p].quest \in Quests
      BY DEF Sound, Asks
    <2>3. \A q \in Quests : quest[q] # None => quest[q]' # None
      BY <1>1, <1>2, QuestsAssumption DEF TypeOK, Exists
    <2>4. \A q \in Quests : Exists(q) =>
            /\ quest[q].finished' = quest[q].finished
            /\ quest[q].creator' = IF quest[q].creator = u THEN None ELSE quest[q].creator
      <3> SUFFICES ASSUME NEW q \in Quests, Exists(q)
                   PROVE  /\ quest[q].finished' = quest[q].finished
                          /\ quest[q].creator' = IF quest[q].creator = u THEN None
                                                 ELSE quest[q].creator
        OBVIOUS
      <3>1. quest[q] \in Row
        BY DEF TypeOK
      <3>2. CASE quest[q].creator = u
        BY <1>1, <1>2, <3>1, <3>2
      <3>3. CASE quest[q].creator # u
        BY <1>1, <3>3
      <3> QED
        BY <3>2, <3>3
    <2>5. Writes(loc[p])'
      BY <1>1, <1>3, <2>2, <2>3, <2>4 DEF Sound, Writes
    <2>6. Serves(loc[p])'
      BY <1>1, <1>3, <2>2, <2>3, <2>4 DEF Sound, Serves, HasLeaderboard
    <2>7. Written(loc[p])'
      BY <1>1, <1>3, <1>4, <2>2 DEF Sound, Written
    <2> QED
      BY <2>1, <2>5, <2>6, <2>7 DEF Sound
  <1> QED
    BY <1>5, <1>6, <1>7

LEMMA TimePassing ==
  ASSUME IInv, Tick \/ UNCHANGED vars
  PROVE  IInv'
  <1>1. UNCHANGED <<user, quest, loc>>
    BY DEF Tick, vars
  <1>2. now' \in 0 .. MaxTime
    BY QuestsAssumption DEF IInv, TypeOK, Tick, vars
  <1>3. TypeOK'
    BY <1>1, <1>2 DEF IInv, TypeOK, Exists, Locked
  <1>4. Shaped'
    BY <1>1 DEF IInv, Shaped
  <1>5. \A p \in Requests : Sound(loc[p])'
    BY <1>1 DEF IInv, Sound, Asks, Creates, Updates, Writes, Serves, Written, Exists, HasLeaderboard
  <1> QED
    BY <1>3, <1>4, <1>5 DEF IInv

-----------------------------------------------------------------------------
LEMMA NextKeeps == IInv /\ [Next]_vars => IInv'
  <1> SUFFICES ASSUME IInv, [Next]_vars PROVE IInv'
    OBVIOUS
  <1>1. CASE Tick \/ UNCHANGED vars
    BY <1>1, TimePassing
  <1>2. CASE \E u \in Users : DeleteUser(u)
    BY <1>2, DeleteUserKeeps
  <1>3. ASSUME NEW r \in Requests, Request(r) PROVE IInv'
    <2>1. CASE \E u \in Users, plan \in Plans : HandleCreate(r, u, plan)
      BY <2>1, HandleCreateKeeps
    <2>2. CASE \E u \in Users, q \in Quests :
                 \/ HandleModerate(r, u, q) \/ HandleDelete(r, u, q) \/ HandleFinish(r, u, q)
                 \/ \E change \in Changes : HandleUpdate(r, u, q, change)
      BY <2>2, ArrivalsKeep
    <2>3. CASE \E q \in Quests : HandleGet(r, q)
      BY <2>3, BeginKeeps DEF HandleGet, Ops
    <2>4. CASE CheckAccess(r) \/ CreateQuest(r)
      BY <2>4, CheckAccessKeeps, CreateQuestKeeps
    <2>5. CASE GetQuest(r) \/ DeleteQuest(r) \/ FinishQuest(r)
      BY <2>5, GetQuestKeeps, DeleteQuestKeeps, FinishQuestKeeps
    <2>6. CASE UpdateQuest(r) \/ CommitUpdate(r)
      BY <2>6, UpdateQuestKeeps, CommitUpdateKeeps
    <2>7. CASE Serve(r) \/ Fail(r)
      BY <2>7, ServeFailKeep
    <2> QED
      BY <1>3, <2>1, <2>2, <2>3, <2>4, <2>5, <2>6, <2>7 DEF Request
  <1> QED
    BY <1>1, <1>2, <1>3 DEF Next

LEMMA AlwaysSound == Spec => []IInv
  BY InitIsSound, NextKeeps, PTL DEF Spec

(* Every variable has its type, a quest's creator exists, and a row that a *)
(* transaction has written is there and locked by nobody else              *)
(* (quest.go:264).                                                         *)
THEOREM TypeCorrect == Spec => []TypeOK
  <1>1. IInv => TypeOK
    BY DEF IInv
  <1> QED
    BY <1>1, AlwaysSound, PTL

(* What HandleGet has read as finished (quest.go:159) is finished while    *)
(* the leaderboard is read and served, or deleted.                         *)
THEOREM LeaderboardsWait == Spec => []LeaderboardAfterFinish
  <1>1. IInv => LeaderboardAfterFinish
    BY DEF IInv, Sound, Serves, LeaderboardAfterFinish, Exists
  <1> QED
    BY <1>1, AlwaysSound, PTL

-----------------------------------------------------------------------------
(* The four ways in which the row of a quest changes.                      *)
Orphaned(q) ==
  /\ quest[q]' = [quest[q] EXCEPT !.creator = None]
  /\ user' # user
Deleted(q, r) == DeleteQuest(r) /\ loc[r].quest = q /\ quest[q]' = Gone
Finished(q, r) ==
  FinishQuest(r) /\ loc[r].quest = q /\ quest[q]' = [quest[q] EXCEPT !.finished = TRUE]
Updated(q, r) ==
  /\ CommitUpdate(r) /\ MayCommit(r) /\ loc[r].quest = q
  /\ loc[r].row = Changed(quest[q], loc[r].change) /\ loc[r].change \in Changes
  /\ quest[q]' = loc[r].row

LEMMA WaysToChange ==
  ASSUME IInv, [Next]_vars, NEW q \in Quests, Exists(q), quest[q]' # quest[q]
  PROVE  Orphaned(q) \/ \E r \in Requests : Deleted(q, r) \/ Finished(q, r) \/ Updated(q, r)
  <1> USE DEF IInv, Shaped
  <1>1. CASE \E u \in Users : DeleteUser(u)
    BY <1>1 DEF DeleteUser, Orphaned
  <1>2. ASSUME NEW r \in Requests, Request(r)
        PROVE  \E p \in Requests : Deleted(q, p) \/ Finished(q, p) \/ Updated(q, p)
    <2>1. CASE DeleteQuest(r)
      BY <2>1 DEF DeleteQuest, Deleted
    <2>2. CASE FinishQuest(r)
      BY <2>2 DEF FinishQuest, Finished
    <2>3. CASE CommitUpdate(r)
      <3>1. loc[r].quest = q /\ MayCommit(r) /\ quest[q]' = loc[r].row
        BY <2>3 DEF CommitUpdate
      <3>2. loc[r].row = Changed(quest[q], loc[r].change) /\ loc[r].change \in Changes
        BY <2>3, <3>1 DEF CommitUpdate, Sound, Written, Updates
      <3> QED
        BY <2>3, <3>1, <3>2 DEF Updated
    <2>4. CASE CreateQuest(r)
      BY <2>4 DEF CreateQuest, InsertQuest, Exists
    <2>5. CASE UNCHANGED quest
      BY <2>5
    <2> QED
      BY <1>2, <2>1, <2>2, <2>3, <2>4, <2>5
      DEF Request, HandleCreate, HandleGet, HandleModerate, HandleDelete, HandleFinish,
          HandleUpdate, Begin, CheckAccess, GetQuest, UpdateQuest, Serve, Fail, Goto
  <1>3. CASE UNCHANGED quest
    BY <1>3
  <1> QED
    BY <1>1, <1>2, <1>3 DEF Next, Tick, vars

(* Updates, however late they commit, leave a finished quest finished: the *)
(* row they write is the row as it is, and finished is not one of their    *)
(* columns (quest.go:294).                                                 *)
THEOREM FinishedForGood == Spec => FinishedIsFinal
  <1> DEFINE A == \A q \in Quests : Exists(q) /\ quest[q].finished =>
                    quest'[q] = Gone \/ quest'[q].finished
  <1>1. IInv /\ [Next]_vars => A
    <2> SUFFICES ASSUME IInv, [Next]_vars, NEW q \in Quests, Exists(q), quest[q].finished,
                        quest[q]' # quest[q]
                 PROVE  quest'[q] = Gone \/ quest'[q].finished
      OBVIOUS
    <2>1. quest[q] \in Row
      BY DEF IInv, TypeOK
    <2>2. CASE Orphaned(q)
      BY <2>1, <2>2 DEF Orphaned, Row
    <2>3. ASSUME NEW r \in Requests, Deleted(q, r) \/ Finished(q, r)
          PROVE  quest'[q] = Gone \/ quest'[q].finished
      BY <2>1, <2>3 DEF Deleted, Finished, Row
    <2>4. ASSUME NEW r \in Requests, Updated(q, r)
          PROVE  quest'[q].finished
      BY <2>1, <2>4, ChangedRow DEF Updated
    <2> QED
      BY <2>2, <2>3, <2>4, WaysToChange
  <1> QED
    BY <1>1, AlwaysSound, PTL DEF Spec, FinishedIsFinal

(* An update that commits changes the row as it is, although it was        *)
(* written earlier (quest.go:264): the row has been locked since.          *)
THEOREM UpdatesAreKept == Spec => UpdatesCompose
  <1> DEFINE A == \A r \in Requests :
                    loc[r].pc = "written" /\ loc'[r] = Idle /\ quest' # quest
                      => quest'[loc[r].quest] = Changed(quest[loc[r].quest], loc[r].change)
  <1>1. IInv /\ [Next]_vars => A
    <2> SUFFICES ASSUME IInv, [Next]_vars, NEW r \in Requests,
                        loc[r].pc = "written", loc'[r] = Idle, quest' # quest
                 PROVE  quest'[loc[r].quest] = Changed(quest[loc[r].quest], loc[r].change)
      OBVIOUS
    <2>1. loc[r] # Idle
      BY IdleIsSound
    <2>2. \A p \in Requests : CreateQuest(p) \/ DeleteQuest(p) \/ FinishQuest(p) => p = r
      BY <2>1 DEF CreateQuest, DeleteQuest, FinishQuest, End, IInv, Shaped
    <2>3. \A p \in Requests : CommitUpdate(p) => p = r
      BY <2>1 DEF CommitUpdate, End, IInv, Shaped
    <2>4. \A u \in Users : ~DeleteUser(u)
      BY <2>1 DEF DeleteUser
    <2>5. CommitUpdate(r)
      BY <2>1, <2>2, <2>3, <2>4
      DEF Next, Tick, vars, Request, HandleCreate, HandleGet, HandleModerate, HandleDelete,
          HandleFinish, HandleUpdate, Begin, CheckAccess, GetQuest, UpdateQuest, Serve, Fail,
          Goto, CreateQuest, DeleteQuest, FinishQuest
    <2> QED
      BY <2>5 DEF CommitUpdate, IInv, Shaped, Sound, Asks, Written
  <1> QED
    BY <1>1, AlwaysSound, PTL DEF Spec, UpdatesCompose

(* Whoever writes a quest is its creator when the write takes effect, or   *)
(* was when it was checked and has been deleted since (quest.go:271, 316,  *)
(* 359): creators change only by being deleted, and never return.          *)
THEOREM CreatorsDecide == Spec => OnlyCreatorChanges
  <1> DEFINE A == \A q \in Quests : Exists(q) /\ quest'[q] # quest[q] =>
                    \/ user' # user /\ quest'[q] = [quest[q] EXCEPT !.creator = None]
                    \/ \E r \in Requests :
                         /\ Change(r, q)
                         /\ \/ quest[q].creator = loc[r].user
                            \/ quest[q].creator = None /\ loc[r].user \notin user
  <1>1. IInv /\ [Next]_vars => A
    <2> SUFFICES ASSUME IInv, [Next]_vars, NEW q \in Quests, Exists(q), quest'[q] # quest[q],
                        ~Orphaned(q)
                 PROVE  \E r \in Requests :
                          /\ Change(r, q)
                          /\ \/ quest[q].creator = loc[r].user
                             \/ quest[q].creator = None /\ loc[r].user \notin user
      BY DEF Orphaned
    <2>1. PICK r \in Requests : Deleted(q, r) \/ Finished(q, r) \/ Updated(q, r)
      BY WaysToChange
    <2>2. Change(r, q)
      BY <2>1 DEF Deleted, Finished, Updated, DeleteQuest, FinishQuest, CommitUpdate, End,
                  Change, IInv, Shaped
    <2>3. CASE Deleted(q, r) \/ Finished(q, r)
      BY <2>2, <2>3 DEF Deleted, Finished, DeleteQuest, FinishQuest, IInv, Sound, Writes
    <2>4. CASE Updated(q, r)
      <3>1. quest[q] \in Row
        BY DEF IInv, TypeOK
      <3>2. loc[r].row.creator = quest[q].creator
        BY <2>4, <3>1, ChangedRow DEF Updated
      <3> QED
        BY <2>2, <2>4, <3>2 DEF Updated, MayCommit
    <2> QED
      BY <2>1, <2>3, <2>4
  <1> QED
    BY <1>1, AlwaysSound, PTL DEF Spec, OnlyCreatorChanges

(* The status of a quest whose times stay grows with the clock and with    *)
(* being finished, whatever the order of its times (status.go:8).          *)
LEMMA StatusGrows ==
  ASSUME NEW x \in Row, NEW y \in Row, now \in Int, now' \in Int, now <= now',
         \A f \in Fields : x[f] = y[f], x.finished => y.finished
  PROVE  Rank(Status(x)) <= Rank(Status(y)')
  <1>1. /\ x.deadline = y.deadline /\ x.start = y.start /\ x.finish = y.finish
        /\ x.start \in Int
        /\ x.deadline # None => x.deadline \in Int
        /\ x.finish # None => x.finish \in Int
    BY DEF Fields, Row
  <1> QED
    BY <1>1 DEF Rank, Status, Registering

(* However a quest's times were chosen, its status never goes back unless  *)
(* an update moves them.                                                   *)
THEOREM StatusGoesForward == Spec => StatusMovesForward
  <1> DEFINE A == \A q \in Quests :
                    Exists(q) /\ quest'[q] # Gone /\ (\A f \in Fields : quest'[q][f] = quest[q][f])
                      => Rank(Status(quest[q])) <= Rank(Status(quest[q])')
  <1>1. IInv /\ [Next]_vars => A
    <2> SUFFICES ASSUME IInv, [Next]_vars, NEW q \in Quests, Exists(q), quest'[q] # Gone,
                        \A f \in Fields : quest'[q][f] = quest[q][f]
                 PROVE  Rank(Status(quest[q])) <= Rank(Status(quest[q])')
      OBVIOUS
    <2>1. now \in Int /\ now' \in Int /\ now <= now'
      <3>1. now \in Int
        BY QuestsAssumption DEF IInv, TypeOK
      <3>2. ASSUME NEW r \in Requests, Request(r) PROVE now' = now
        BY <3>2
        DEF Request, HandleCreate, HandleGet, HandleModerate, HandleDelete, HandleFinish,
            HandleUpdate, Begin, CheckAccess, GetQuest, UpdateQuest, Serve, Fail, Goto,
            CreateQuest, DeleteQuest, FinishQuest, CommitUpdate
      <3>3. now' = now \/ now' = now + 1
        BY <3>2 DEF Next, Tick, vars, DeleteUser
      <3> QED
        BY <3>1, <3>3
    <2>2. quest[q] \in Row
      BY DEF IInv, TypeOK
    <2>3. quest'[q] \in Row /\ (quest[q].finished => quest'[q].finished)
      <3>1. CASE quest'[q] = quest[q]
        BY <2>2, <3>1
      <3>2. CASE Orphaned(q)
        BY <2>2, <3>2 DEF Orphaned, Row
      <3>3. ASSUME NEW r \in Requests, Deleted(q, r) \/ Finished(q, r) \/ Updated(q, r)
            PROVE  quest'[q] \in Row /\ (quest[q].finished => quest'[q].finished)
        <4>1. CASE Finished(q, r)
          BY <2>2, <4>1 DEF Finished, Row
        <4>2. CASE Updated(q, r)
          BY <2>2, <4>2, ChangedRow DEF Updated
        <4> QED
          BY <3>3, <4>1, <4>2 DEF Deleted
      <3> QED
        BY <3>1, <3>2, <3>3, WaysToChange
    <2> QED
      BY <2>1, <2>2, <2>3, StatusGrows
  <1> QED
    BY <1>1, AlwaysSound, PTL DEF Spec, StatusMovesForward
=============================================================================
