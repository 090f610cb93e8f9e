----------------------------- MODULE AnswerLog ------------------------------
(***************************************************************************)
(* The log of answers that the creator of a quest pages through,           *)
(*   GET /quest/{id}/answer_log   HandleAnswerLog                          *)
(* while the teams go on answering.  Every page is two statements outside  *)
(* a transaction: a count, and the page.  A client follows either the      *)
(* token of each answer, until a page is not full, or page numbers, until  *)
(* it has seen total_pages.                                                *)
(*                                                                         *)
(* The unit of time is a part of a millisecond: try_time has microseconds  *)
(* and the token has milliseconds.  Of the filters only accepted_only is   *)
(* modelled; the others select rows in the same way.                       *)
(***************************************************************************)
EXTENDS Integers, FiniteSets, SequencesExt

CONSTANTS
  Users,       \* who answers
  PageSizes,   \* the sizes clients ask for
  PerMilli,    \* units of time in a millisecond
  Late,        \* how much later than a newer answer an answer may be committed
  MaxTime,     \* bound: the times of answers
  MaxTries     \* bound: the number of answers

ASSUME AnswerLogAssumption ==
  /\ PageSizes \subseteq Nat \ {0}
  /\ PerMilli \in Nat \ {0}
  /\ {Late, MaxTime, MaxTries} \subseteq Nat

VARIABLES
  tries,   \* answer_try, committed
  reader   \* a client and the request it has sent, if any

vars == <<tries, reader>>

None == [by |-> "none"]
Options == [desc : BOOLEAN, by : {"token", "number"}, accepted : BOOLEAN, size : PageSizes]
Try == [user : Users, time : 0 .. MaxTime, accepted : BOOLEAN]

(* began: the rows there were when the client began; got, again: the rows  *)
(* it has been sent, and more than once.                                   *)
Idle == [pc |-> "idle", opts |-> None, token |-> -1, page |-> 0, total |-> 0,
         began |-> {}, got |-> {}, again |-> {}]

Init == tries = {} /\ reader = Idle

-----------------------------------------------------------------------------
(* TryAnswer stores when it was called; it is committed after that.        *)
CreateAnswerTry(user, time, accepted) ==
  /\ Cardinality(tries) < MaxTries
  /\ \A t \in tries : t.time <= time + Late /\ <<t.user, t.time>> # <<user, time>>
  /\ tries' = tries \cup {[user |-> user, time |-> time, accepted |-> accepted]}
  /\ UNCHANGED reader

-----------------------------------------------------------------------------
Matching(opts) == {t \in tries : opts.accepted => t.accepted}

UnixMilli(time) == time \div PerMilli

\* mutants: no page for the rest, one page too many, >= for >, the first row's time
NoLastPage(count, size) == count \div size
OneMorePage(count, size) == count \div size + 1
PastOrAt(opts, token, time) ==
  token = -1 \/ (IF opts.desc THEN time <= token * PerMilli ELSE time >= token * PerMilli)
FirstToken(page) == IF page = <<>> THEN 0 ELSE UnixMilli(Head(page).time)

PageCount(count, size) == IF count % size > 0 THEN count \div size + 1 ELSE count \div size

(* The rows past a token: SQL compares the whole time with it.             *)
Past(opts, token, time) ==
  \/ token = -1
  \/ opts.desc /\ time < token * PerMilli
  \/ ~opts.desc /\ time > token * PerMilli

Precedes(opts, t, u) == IF opts.desc THEN t.time > u.time ELSE t.time < u.time

(* ORDER BY try_time: rows of one time come in any order.                  *)
Sorted(opts, rows) ==
  {s \in SetToSeqs(rows) : \A i, j \in DOMAIN s : i < j => ~Precedes(opts, s[j], s[i])}

Pages(opts, token, page) ==
  LET rows == {t \in Matching(opts) : opts.by = "token" => Past(opts, token, t.time)}
      skip == IF opts.by = "token" THEN 0 ELSE opts.size * page
  IN  {SubSeq(s, skip + 1, Min({skip + opts.size, Len(s)})) : s \in Sorted(opts, rows)}

NextToken(page) == IF page = <<>> THEN 0 ELSE UnixMilli(Last(page).time)

HandleAnswerLog(opts) ==
  /\ reader.pc = "idle"
  /\ reader' = [Idle EXCEPT !.pc = "count", !.opts = opts, !.began = Matching(opts)]
  /\ UNCHANGED tries

CountAnswers ==
  /\ reader.pc = "count"
  /\ reader' = [reader EXCEPT !.pc = "page",
                  !.total = PageCount(Cardinality(Matching(reader.opts)), reader.opts.size)]
  /\ UNCHANGED tries

(* The page is sent, and the client asks for the next one if there is one. *)
IsLast(page) ==
  IF reader.opts.by = "token" THEN Len(page) < reader.opts.size
  ELSE reader.page + 1 >= reader.total

QueryAnswers ==
  /\ reader.pc = "page"
  /\ \E page \in Pages(reader.opts, reader.token, reader.page) :
       reader' = [reader EXCEPT
                    !.pc = IF IsLast(page) THEN "done" ELSE "count",
                    !.token = NextToken(page),
                    !.page = IF IsLast(page) \/ reader.opts.by = "token" THEN @ ELSE @ + 1,
                    !.got = @ \cup Range(page),
                    !.again = @ \cup (reader.got \cap Range(page))]
  /\ UNCHANGED tries

Close ==
  /\ reader.pc = "done"
  /\ reader' = Idle
  /\ UNCHANGED tries

Read == CountAnswers \/ QueryAnswers

Next ==
  \/ \E user \in Users, time \in 0 .. MaxTime, accepted \in BOOLEAN :
       CreateAnswerTry(user, time, accepted)
  \/ \E opts \in Options : HandleAnswerLog(opts)
  \/ Read
  \/ Close

(* A client that has begun goes on, and the database answers.              *)
Spec == Init /\ [][Next]_vars /\ WF_vars(Read)

-----------------------------------------------------------------------------
(* Every variable has its type; no client is sent past the last page.      *)
TypeOK ==
  /\ tries \subseteq Try
  /\ reader.pc \in {"idle", "count", "page", "done"}
  /\ reader.opts \in Options \cup {None}
  /\ reader.token \in -1 .. UnixMilli(MaxTime)
  /\ {reader.began, reader.got, reader.again} \subseteq SUBSET tries
  /\ {reader.page, reader.total} \subseteq 0 .. MaxTries

SameTime(t) == \E u \in tries \ {t} : u.time = t.time
SameMilli(t) == \E u \in reader.got \ {t} : UnixMilli(u.time) = UnixMilli(t.time)
Arrived(t) ==   \* another row came while the client read, and goes before t
  \E u \in Matching(reader.opts) \ (reader.began \cup {t}) : ~Precedes(reader.opts, t, u)

(* Paging through the log (answer_hint.go:274) shows every answer that was *)
(* there when the client began, but for these: newest first by token, an   *)
(* answer of the millisecond in which a page ends; by token, oldest first, *)
(* one with the very time of another; by number, one that was pushed on by *)
(* an answer that came between the count and the page.                     *)
NothingIsMissed ==
  reader.pc = "done" =>
    \A t \in reader.began \ reader.got :
      CASE reader.opts.by = "number" -> SameTime(t) \/ Arrived(t)
        [] reader.opts.by = "token" /\ reader.opts.desc -> SameMilli(t)
        [] OTHER -> SameTime(t)

(* Newest first by token no answer is sent twice (answer_hint.go:291); by  *)
(* token, oldest first, only those of the millisecond of the token are     *)
(* (the last row of the page before, almost always); by number, only those *)
(* pushed on by another answer that came while the client read.            *)
RepeatsAreExplained ==
  [][\A t \in reader'.again \ reader.again :
       CASE reader.opts.by = "number" -> SameTime(t) \/ Arrived(t)
         [] reader.opts.by = "token" /\ reader.opts.desc -> FALSE
         [] OTHER -> UnixMilli(t.time) = reader.token]_vars

(* Oldest first by token, a page full of one millisecond is sent for ever. *)
Crowded ==
  /\ reader.opts # None
  /\ reader.opts.by = "token" /\ ~reader.opts.desc
  /\ \E ms \in 0 .. UnixMilli(MaxTime) :
       Cardinality({t \in Matching(reader.opts) : UnixMilli(t.time) = ms}) >= reader.opts.size

(* A client that follows the pages comes to the end of the log, unless it  *)
(* is stuck in a crowded millisecond: then the token it is sent is the one *)
(* it has sent (answer_hint.go:347).                                       *)
ReadersFinish == reader.pc = "count" ~> (reader.pc = "done" \/ Crowded)
=============================================================================
