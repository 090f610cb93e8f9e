----------------------------- MODULE QuestList ------------------------------
(***************************************************************************)
(* The lists of quests a client pages through,                             *)
(*   GET /quest?fields=...   HandleGetMany                                 *)
(* sorted by finished and start time, while quests are created, changed,   *)
(* finished and deleted (see Quests) and the client joins them (see        *)
(* TeamRegistry).  A page is one statement; its last quest is the id of    *)
(* the next page, cut to seconds.  A client goes on until a page has no    *)
(* next one, that is, is empty.                                            *)
(*                                                                         *)
(* The unit of time is a part of a second.  A request with several fields  *)
(* is one request of the first page of each list; a page id it cannot      *)
(* parse, or with several fields, is refused.                              *)
(***************************************************************************)
EXTENDS Integers, FiniteSets, SequencesExt

CONSTANTS
  None,
  Quests,     \* bound: the quests that can exist at the same time
  PageSizes,  \* the sizes clients ask for
  Lists,      \* the lists they ask for: public, all, registered, owned
  PerSecond,  \* units of time in a second
  Starts,     \* bound: the start times
  Shapes,     \* bound: access, whether the client owns and has joined it
  MaxChanges  \* bound: the changes of quests while the client reads

ASSUME QuestListAssumption ==
  /\ IsFiniteSet(Quests)
  /\ None \notin Quests \cup [finished : BOOLEAN, time : Nat]
  /\ PageSizes \subseteq Nat \ {0}
  /\ Lists \subseteq {"public", "all", "registered", "owned"}
  /\ PerSecond \in Nat \ {0}
  /\ Starts \cup {MaxChanges} \subseteq Nat
  /\ Shapes \subseteq [access : {"public", "link_only"}, own : BOOLEAN, joined : BOOLEAN]

VARIABLES
  quest,   \* a quest, as far as lists go, or None
  reader   \* a client and the request it has sent, if any

vars == <<quest, reader>>

Row == [start : Starts, finished : BOOLEAN, shape : Shapes]
Shown == [id : Quests, start : Starts, finished : BOOLEAN]
Options == [list : Lists, size : PageSizes]

(* began: the quests of the list when the client began which have not been *)
(* changed since; got: what it has been sent.                              *)
Idle == [pc |-> "idle", opts |-> None, page |-> None,
         began |-> {}, got |-> {}, changes |-> 0]

Init ==
  /\ quest = [q \in Quests |-> None]
  /\ reader = Idle

-----------------------------------------------------------------------------
Matches(list, row) ==
  CASE list = "public"     -> row.shape.access = "public"
    [] list = "all"        -> row.shape.access = "public" \/ row.shape.joined
    [] list = "registered" -> row.shape.joined
    [] list = "owned"      -> row.shape.own

Listed(list) == {q \in Quests : quest[q] # None /\ Matches(list, quest[q])}

-----------------------------------------------------------------------------
(* What else happens to quests.                                            *)
Change(q, row) ==
  /\ row # quest[q]
  /\ quest' = [quest EXCEPT ![q] = row]
  /\ \/ reader.pc = "idle" /\ UNCHANGED reader
     \/ /\ reader.pc = "page" /\ reader.changes < MaxChanges
        /\ reader' = [reader EXCEPT !.began = @ \ {q}, !.changes = @ + 1]

CreateQuest(q, row) == quest[q] = None /\ ~row.finished /\ Change(q, row)
FinishQuest(q) == quest[q] # None /\ Change(q, [quest[q] EXCEPT !.finished = TRUE])
DeleteQuest(q) == quest[q] # None /\ Change(q, None)

(* What lists look at: the start and the access, each given or not.        *)
UpdateQuest(q, start, shape) ==
  /\ quest[q] # None
  /\ shape = [quest[q].shape EXCEPT !.access = shape.access]
  /\ Change(q, [quest[q] EXCEPT !.start = start, !.shape = shape])

(* The client joins a team or leaves it.                                   *)
JoinQuest(q, shape) ==
  /\ quest[q] # None
  /\ shape = [quest[q].shape EXCEPT !.joined = ~@]
  /\ Change(q, [quest[q] EXCEPT !.shape = shape])

-----------------------------------------------------------------------------
Unix(time) == time \div PerSecond

\* mutant: rounded up to seconds
NextSecond(q) ==
  [finished |-> quest[q].finished, time |-> Unix(quest[q].start + PerSecond - 1)]

(* The page of which q is the last.                                        *)
Page(q) == [finished |-> quest[q].finished, time |-> Unix(quest[q].start)]

\* mutant: a quest in the very second of the page id is left to the next page
NotBefore(page, row) ==
  (page.finished => row.finished) /\ row.start >= page.time * PerSecond

\* mutant: the next page begins among the finished quests once there are some
FinishedLater(page, row) ==
  row.finished /\ row.start > page.time * PerSecond

(* WHERE finished >= ... AND start_time > ...                              *)
Past(page, row) ==
  (page.finished => row.finished) /\ row.start > page.time * PerSecond

(* ORDER BY finished, start_time                                           *)
Precedes(q, p) ==
  \/ ~quest[q].finished /\ quest[p].finished
  \/ quest[q].finished = quest[p].finished /\ quest[q].start < quest[p].start

Sorted(ids) == {s \in SetToSeqs(ids) : \A i, j \in DOMAIN s : i < j => ~Precedes(s[j], s[i])}

GetQuests(list, page, size) ==
  LET ids == {q \in Listed(list) : page # None => Past(page, quest[q])}
  IN  {SubSeq(s, 1, IF size < Len(s) THEN size ELSE Len(s)) : s \in Sorted(ids)}

NextPage(s) == IF s = <<>> THEN None ELSE Page(Last(s))

HandleGetMany(opts) ==
  /\ reader.pc = "idle"
  /\ reader' = [Idle EXCEPT !.pc = "page", !.opts = opts, !.began = Listed(opts.list)]
  /\ UNCHANGED quest

ReadQuests ==
  /\ reader.pc = "page"
  /\ \E s \in GetQuests(reader.opts.list, reader.page, reader.opts.size) :
       LET sent == {[id |-> q, start |-> quest[q].start, finished |-> quest[q].finished]
                      : q \in Range(s)}
       IN  reader' = [reader EXCEPT !.pc = IF NextPage(s) = None THEN "done" ELSE "page",
                                    !.page = NextPage(s),
                                    !.got = @ \cup sent]
  /\ UNCHANGED quest

Close ==
  /\ reader.pc = "done"
  /\ reader' = Idle
  /\ UNCHANGED quest

Next ==
  \/ \E q \in Quests :
       \/ \E row \in Row : CreateQuest(q, row)
       \/ \E start \in Starts, shape \in Shapes : UpdateQuest(q, start, shape)
       \/ FinishQuest(q)
       \/ DeleteQuest(q)
       \/ \E shape \in Shapes : JoinQuest(q, shape)
  \/ \E opts \in Options : HandleGetMany(opts)
  \/ ReadQuests
  \/ Close

(* A client that has begun goes on, and the database answers.              *)
Spec == Init /\ [][Next]_vars /\ WF_vars(ReadQuests)

-----------------------------------------------------------------------------
(* Every variable has its type, and a page id is that of a quest sent.     *)
TypeOK ==
  /\ quest \in [Quests -> Row \cup {None}]
  /\ reader.pc \in {"idle", "page", "done"}
  /\ reader.opts \in Options \cup {None}
  /\ reader.page # None =>
       \E g \in reader.got : reader.page = [finished |-> g.finished, time |-> Unix(g.start)]
  /\ reader.opts # None => reader.began \subseteq Listed(reader.opts.list)
  /\ reader.changes \in 0 .. MaxChanges
  /\ reader.got \subseteq Shown

(* A quest that was in the list when the client began, and was not changed *)
(* meanwhile, is missed only behind a quest that starts with it, or, if it *)
(* is finished, behind one that is not and starts no earlier               *)
(* (quest.go:213): the page id asks both columns to grow.                  *)
NothingIsMissed ==
  reader.pc = "done" =>
    \A q \in reader.began \ {g.id : g \in reader.got} :
      \E g \in reader.got :
        /\ g.id # q
        /\ \/ g.start = quest[q].start
           \/ ~g.finished /\ quest[q].finished /\ g.start >= quest[q].start

(* Some quest of the list does not start on a second.                      *)
Fractional ==
  reader.opts # None /\ \E q \in Listed(reader.opts.list) : quest[q].start % PerSecond # 0

(* A client comes to the end of the list, though quests move meanwhile,    *)
(* if all of them start on seconds: start times only grow from page to     *)
(* page (quest.go:215).  Any other quest may be the last one for ever.     *)
ReadersFinish == reader.pc = "page" ~> (reader.pc = "done" \/ Fractional)
=============================================================================
