-------------------------- MODULE TeamRegistryProofs ------------------------
(***************************************************************************)
(* Proofs about TeamRegistry, for any number of requests, users and teams: *)
(* its type invariant, which includes that a registration refers to a team *)
(* that exists; and, when nobody is removed by another, that every team    *)
(* has members.                                                            *)
(***************************************************************************)
EXTENDS TeamRegistry, FiniteSetTheorems, TLAPS

Labels == {"idle", "read", "create", "existing", "full", "insert", "inserted",
           "leave", "write"}
Joins == {"existing", "full", "insert", "inserted"}
Marks == {"team", "leave"} \cup Users

(* What a request is, given where it is; an insert holds its team.         *)
Knows(r) ==
  /\ pc[r] = "idle" => input[r].team = None
  /\ pc[r] # "idle" =>
       /\ input[r].op \in Ops /\ input[r].user \in Users /\ input[r].team \in Teams \cap used
       /\ input[r].op \in {"lead", "remove"} => input[r].other \in Users
  /\ pc[r] = "create" => input[r].op = "create" /\ view[r].status \in Statuses
  /\ pc[r] \in Joins => input[r].op = "join"
  /\ pc[r] = "leave" => /\ input[r].op = "leave" /\ view[r].members # {}
                        /\ Promotes(r) => input[r].other \in Users
  /\ pc[r] = "inserted" => team[input[r].team] # None

(* Nobody else asks about a team that is being created.                    *)
Founds(r) ==
  pc[r] # "idle" /\ input[r].op = "create" =>
    /\ team[input[r].team] = None
    /\ \A q \in Requests \ {r} : input[q].team # input[r].team

IInv ==
  /\ TypeOK
  /\ \A t \in Teams : team[t] # None => t \in used
  /\ \A r \in Requests : Knows(r) /\ Founds(r)

-----------------------------------------------------------------------------
LEMMA InitIsSound == Init => IInv
  BY TeamRegistryAssumption
  DEF Init, IInv, TypeOK, Knows, Founds, NoInput, NoView, Inputs, Views, Row, Joins

(* A request is answered and has changed nothing.                          *)
LEMMA AnswerKeeps ==
  ASSUME IInv, NEW r \in Requests, Answer(r)
  PROVE  IInv'
  <1> USE DEF IInv
  <1>1. /\ pc' = [pc EXCEPT ![r] = "idle"]
        /\ input' = [input EXCEPT ![r] = NoInput]
        /\ view' = [view EXCEPT ![r] = NoView]
        /\ touched' = [touched EXCEPT ![r] = {}]
        /\ UNCHANGED <<team, member, used>>
    BY DEF Answer, End, Goto, Unwritten
  <1>2. NoInput \in Inputs /\ NoInput.team = None /\ NoView \in Views
    BY DEF NoInput, Inputs, NoView, Views
  <1>3. TypeOK'
    BY <1>1, <1>2 DEF TypeOK
  <1>4. \A q \in Requests : IF q = r THEN pc[q]' = "idle" /\ input[q]' = NoInput
          ELSE pc[q]' = pc[q] /\ input[q]' = input[q] /\ view[q]' = view[q]
    BY <1>1 DEF TypeOK
  <1>5. \A q \in Requests : Knows(q)'
    BY <1>1, <1>2, <1>4 DEF Knows, Joins, Promotes
  <1>6. \A q \in Requests : Founds(q)'
    BY <1>1, <1>2, <1>4, TeamRegistryAssumption DEF Founds, Knows
  <1> QED
    BY <1>1, <1>3, <1>5, <1>6

(* A request goes on to its next statement, knowing what it should.        *)
LEMMA GoesOn ==
  ASSUME IInv, NEW r \in Requests, NEW label \in Labels \ {"idle"}, pc[r] # "idle",
         pc' = [pc EXCEPT ![r] = label], Knows(r)', view' \in [Requests -> Views],
         \A q \in Requests \ {r} : view[q]' = view[q],
         UNCHANGED <<team, member, used, input, touched>>
  PROVE  IInv'
  <1> USE DEF IInv
  <1>1. TypeOK'
    BY DEF TypeOK, Labels
  <1>2. \A q \in Requests : pc[q]' = IF q = r THEN label ELSE pc[q]
    BY DEF TypeOK
  <1>3. \A q \in Requests : Knows(q)'
    BY <1>2 DEF Knows, Joins, Promotes
  <1>4. \A q \in Requests : Founds(q)'
    BY <1>2 DEF Founds
  <1> QED
    BY <1>1, <1>3, <1>4

(* A request commits what it does to team t and is answered.               *)
LEMMA Commits ==
  ASSUME IInv, NEW r \in Requests, NEW t \in Teams, NEW S \in SUBSET Marks,
         End(r), Touch(r, t, S), UNCHANGED used, input[r].team = t, pc[r] # "idle",
         team' \in [Teams -> Row \cup {None}], member' \subseteq Users \X Teams,
         \A m \in member' : team'[m[2]] # None,
         \A x \in Teams \ {t} : team'[x] = team[x],
         team[t] = None => team'[t] = None \/ input[r].op = "create",
         Inserting(t) \ {r} # {} => team'[t] # None
  PROVE  IInv'
  <1> USE DEF IInv
  <1>1. /\ pc' = [pc EXCEPT ![r] = "idle"]
        /\ input' = [input EXCEPT ![r] = NoInput]
        /\ view' = [view EXCEPT ![r] = NoView]
    BY DEF End, Goto
  <1>2. NoInput \in Inputs /\ NoInput.team = None /\ NoView \in Views
    BY DEF NoInput, Inputs, NoView, Views
  <1>3. touched' \in [Requests -> SUBSET Marks]
    BY DEF Touch, TypeOK, Marks
  <1>4. TypeOK'
    BY <1>1, <1>2, <1>3 DEF TypeOK, Marks
  <1>5. \A q \in Requests : IF q = r THEN pc[q]' = "idle" /\ input[q]' = NoInput
          ELSE pc[q]' = pc[q] /\ input[q]' = input[q] /\ view[q]' = view[q]
    BY <1>1 DEF TypeOK
  <1>6. ASSUME NEW q \in Requests \ {r}, pc[q] = "inserted" PROVE team'[input[q].team] # None
    BY <1>6 DEF Knows, Inserting
  <1>7. \A q \in Requests : Knows(q)'
    BY <1>2, <1>5, <1>6 DEF Knows, Joins, Promotes
  <1>8. ASSUME NEW q \in Requests \ {r}, pc[q] # "idle", input[q].op = "create"
        PROVE  input[q].team # t /\ team'[input[q].team] = None
    BY <1>8 DEF Founds, Knows
  <1>9. \A q \in Requests : Founds(q)'
    BY <1>2, <1>5, <1>8, TeamRegistryAssumption DEF Founds, Knows
  <1>10. \A x \in Teams : team'[x] # None => x \in used'
    BY DEF Knows
  <1> QED
    BY <1>4, <1>7, <1>9, <1>10

-----------------------------------------------------------------------------
(* A request arrives; a new team is one that nobody asks about.            *)
LEMMA HandleCreateKeeps ==
  ASSUME IInv, NEW r \in Requests, HandleCreate(r)
  PROVE  IInv'
  <1> USE DEF IInv
  <1>1. PICK u \in Users, t \in Teams \ used :
          /\ pc[r] = "idle" /\ "create" \in Ops
          /\ input' = [input EXCEPT ![r] = [op |-> "create", user |-> u, team |-> t, other |-> None]]
          /\ pc' = [pc EXCEPT ![r] = "read"]
          /\ used' = used \cup {t}
          /\ UNCHANGED <<team, member, view, touched>>
    BY DEF HandleCreate, Arrive, Goto
  <1> DEFINE in == [op |-> "create", user |-> u, team |-> t, other |-> None]
  <1>2. in \in Inputs
    BY DEF Inputs
  <1>3. TypeOK'
    BY <1>1, <1>2 DEF TypeOK
  <1>4. \A q \in Requests : IF q = r THEN pc[q]' = "read" /\ input[q]' = in
          ELSE pc[q]' = pc[q] /\ input[q]' = input[q] /\ view[q]' = view[q]
    BY <1>1 DEF TypeOK
  <1>5. \A q \in Requests : Knows(q)'
    BY <1>1, <1>4 DEF Knows, Joins, Promotes
  <1>6. \A q \in Requests : Founds(q)'
    BY <1>1, <1>4, TeamRegistryAssumption DEF Founds, Knows
  <1> QED
    BY <1>1, <1>3, <1>5, <1>6

LEMMA HandleOtherKeeps ==
  ASSUME IInv, NEW r \in Requests, HandleOther(r)
  PROVE  IInv'
  <1> USE DEF IInv
  <1>1. PICK op \in Ops \ {"create"}, u \in Users, t \in Teams, o \in Users \cup {None} :
          /\ op \in {"lead", "remove"} => o # None
          /\ Arrive(r, [op |-> op, user |-> u, team |-> t, other |-> o])
          /\ UNCHANGED used
    BY DEF HandleOther
  <1> DEFINE in == [op |-> op, user |-> u, team |-> t, other |-> o]
  <1>2. /\ pc[r] = "idle" /\ team[t] # None
        /\ input' = [input EXCEPT ![r] = in]
        /\ pc' = [pc EXCEPT ![r] = "read"]
        /\ UNCHANGED <<team, member, view, touched>>
    BY <1>1 DEF Arrive, Goto
  <1>3. in \in Inputs
    BY TeamRegistryAssumption DEF Inputs
  <1>4. TypeOK'
    BY <1>1, <1>2, <1>3 DEF TypeOK
  <1>5. \A q \in Requests : IF q = r THEN pc[q]' = "read" /\ input[q]' = in
          ELSE pc[q]' = pc[q] /\ input[q]' = input[q] /\ view[q]' = view[q]
    BY <1>2 DEF TypeOK
  <1>6. \A q \in Requests : Knows(q)'
    BY <1>1, <1>2, <1>5 DEF Knows, Joins, Promotes
  <1>7. \A q \in Requests : Founds(q)'
    BY <1>1, <1>2, <1>5, TeamRegistryAssumption DEF Founds, Knows
  <1> QED
    BY <1>1, <1>2, <1>4, <1>6, <1>7

-----------------------------------------------------------------------------
(* The statements that read, and the insert, which commits nothing yet.    *)
LEMMA ReadForCreateKeeps ==
  ASSUME IInv, NEW r \in Requests, ReadForCreate(r)
  PROVE  IInv'
  <1> USE DEF IInv
  <1>1. CASE Answer(r)
    BY <1>1, AnswerKeeps
  <1>2. CASE /\ view' = [view EXCEPT ![r].status = RegistrationStatus]
             /\ Goto(r, "create")
             /\ UNCHANGED <<input, touched>> /\ Unwritten
    <2>1. RegistrationStatus \in Statuses
      BY DEF RegistrationStatus, Statuses
    <2>2. /\ view' \in [Requests -> Views] /\ view[r]'.status \in Statuses
          /\ \A q \in Requests \ {r} : view[q]' = view[q]
      BY <1>2, <2>1 DEF TypeOK, Views
    <2>3. pc[r] = "read" /\ input[r].op = "create" /\ pc[r]' = "create"
      BY <1>2 DEF ReadForCreate, Goto, TypeOK
    <2>4. Knows(r)'
      BY <1>2, <2>2, <2>3 DEF Knows, Joins, Unwritten
    <2> QED
      BY <1>2, <2>2, <2>3, <2>4, GoesOn DEF Goto, Unwritten, Labels
  <1> QED
    BY <1>1, <1>2 DEF ReadForCreate

(* What the statements of a join share.                                    *)
LEMMA JoinGoesOn ==
  ASSUME IInv, NEW r \in Requests, NEW label \in Joins, pc[r] # "idle",
         input[r].op = "join", label = "inserted" => team[input[r].team] # None,
         Goto(r, label), UNCHANGED <<input, view, touched>>, Unwritten
  PROVE  IInv'
  <1> USE DEF IInv
  <1>1. pc[r]' = label
    BY DEF Goto, TypeOK
  <1>2. Knows(r)'
    BY <1>1 DEF Knows, Joins, Unwritten
  <1> QED
    BY <1>2, GoesOn DEF Goto, Unwritten, Labels, Joins, TypeOK

LEMMA ReadForJoinKeeps ==
  ASSUME IInv, NEW r \in Requests, ReadForJoin(r)
  PROVE  IInv'
  <1> DEFINE label == IF HasRoom(input[r].team) THEN "existing" ELSE "full"
  <1>1. pc[r] = "read" /\ input[r].op = "join"
    BY DEF ReadForJoin
  <1>2. CASE Answer(r)
    BY <1>2, AnswerKeeps
  <1>3. CASE Goto(r, label) /\ UNCHANGED <<input, view, touched>> /\ Unwritten
    <2>1. label \in Joins /\ label # "inserted"
      BY DEF Joins
    <2> HIDE DEF label
    <2> QED
      BY <1>1, <1>3, <2>1, JoinGoesOn
  <1> QED
    BY <1>2, <1>3 DEF ReadForJoin

LEMMA ReadExistingKeeps ==
  ASSUME IInv, NEW r \in Requests, ReadExisting(r)
  PROVE  IInv'
  <1>1. pc[r] \in Joins /\ pc[r] # "idle" /\ input[r].op = "join"
    BY DEF ReadExisting, IInv, Knows, Joins
  <1>2. CASE Answer(r)
    BY <1>2, AnswerKeeps
  <1>3. CASE Goto(r, "insert") /\ UNCHANGED <<input, view, touched>> /\ Unwritten
    BY <1>1, <1>3, JoinGoesOn DEF Joins
  <1> QED
    BY <1>2, <1>3 DEF ReadExisting

LEMMA InsertRegistrationKeeps ==
  ASSUME IInv, NEW r \in Requests, InsertRegistration(r)
  PROVE  IInv'
  <1>1. pc[r] # "idle" /\ input[r].op = "join"
    BY DEF InsertRegistration, IInv, Knows, Joins
  <1>2. CASE Answer(r)
    BY <1>2, AnswerKeeps
  <1>3. CASE /\ team[input[r].team] # None
             /\ Goto(r, "inserted") /\ UNCHANGED <<input, view, touched>> /\ Unwritten
    BY <1>1, <1>3, JoinGoesOn DEF Joins
  <1> QED
    BY <1>2, <1>3 DEF InsertRegistration

(* A captain of several members has named another one.                     *)
LEMMA ReadForLeaveKeeps ==
  ASSUME IInv, NEW r \in Requests, ReadForLeave(r)
  PROVE  IInv'
  <1> USE DEF IInv
  <1> DEFINE in == input[r]
             t == in.team
             members == MembersOf(t)
  <1>1. pc[r] = "read" /\ in.op = "leave" /\ in \in Inputs /\ t \in Teams
    BY DEF ReadForLeave, Knows, TypeOK
  <1>2. CASE Answer(r)
    BY <1>2, AnswerKeeps
  <1>3. CASE /\ team[t] # None /\ members # {}
             /\ team[t].cap = in.user /\ Cardinality(members) > 1 => in.other # None
             /\ view' = [view EXCEPT ![r].cap = team[t].cap, ![r].members = members]
             /\ Goto(r, "leave")
             /\ UNCHANGED <<input, touched>> /\ Unwritten
    <2>1. team[t].cap \in Users /\ members \subseteq Users
      BY <1>1, <1>3 DEF TypeOK, Row, MembersOf
    <2> HIDE DEF members
    <2>2. /\ view' \in [Requests -> Views]
          /\ view[r]'.cap = team[t].cap /\ view[r]'.members = members
          /\ \A q \in Requests \ {r} : view[q]' = view[q]
      BY <1>3, <2>1 DEF TypeOK, Views
    <2>3. pc[r]' = "leave"
      BY <1>3 DEF Goto, TypeOK
    <2>4. Promotes(r)' => in.other \in Users
      BY <1>1, <1>3, <2>2 DEF Promotes, Inputs
    <2>5. Knows(r)'
      BY <1>1, <1>3, <2>2, <2>3, <2>4 DEF Knows, Joins, Unwritten
    <2> QED
      BY <1>1, <1>3, <2>2, <2>5, GoesOn DEF Goto, Unwritten, Labels
  <1> QED
    BY <1>2, <1>3 DEF ReadForLeave

LEMMA ReadAndCheckKeeps ==
  ASSUME IInv, NEW r \in Requests, ReadAndCheck(r)
  PROVE  IInv'
  <1> USE DEF IInv
  <1>1. CASE Answer(r)
    BY <1>1, AnswerKeeps
  <1>2. CASE Goto(r, "write") /\ UNCHANGED <<input, view, touched>> /\ Unwritten
    <2>1. pc[r] = "read" /\ pc[r]' = "write"
      BY <1>2 DEF ReadAndCheck, Goto, TypeOK
    <2>2. Knows(r)'
      BY <1>2, <2>1 DEF Knows, Joins, Unwritten
    <2> QED
      BY <1>2, <2>1, <2>2, GoesOn DEF Goto, Unwritten, Labels, TypeOK
  <1> QED
    BY <1>1, <1>2 DEF ReadAndCheck

-----------------------------------------------------------------------------
(* The statements that commit.                                             *)
LEMMA CommitCreateKeeps ==
  ASSUME IInv, NEW r \in Requests, CommitCreate(r)
  PROVE  IInv'
  <1> DEFINE t == input[r].team
             row == [cap |-> input[r].user, status |-> view[r].status]
  <1>1. /\ pc[r] = "create" /\ input[r].op = "create" /\ t \in Teams /\ input[r].user \in Users
        /\ view[r].status \in Statuses
    BY DEF CommitCreate, IInv, Knows
  <1>2. /\ team' = [team EXCEPT ![t] = row] /\ member' = member \cup {<<input[r].user, t>>}
        /\ End(r) /\ Touch(r, t, {}) /\ UNCHANGED used
    BY DEF CommitCreate
  <1>3. row \in Row /\ row # None
    BY <1>1, TeamRegistryAssumption DEF Row
  <1> HIDE DEF row
  <1>4. /\ team' \in [Teams -> Row \cup {None}] /\ member' \subseteq Users \X Teams
        /\ \A x \in Teams \ {t} : team'[x] = team[x]
        /\ team'[t] # None
    BY <1>1, <1>2, <1>3 DEF IInv, TypeOK
  <1>5. \A m \in member' : team'[m[2]] # None
    BY <1>1, <1>2, <1>4 DEF IInv, TypeOK
  <1> QED
    BY <1>1, <1>2, <1>4, <1>5, Commits

LEMMA CommitJoinKeeps ==
  ASSUME IInv, NEW r \in Requests, CommitJoin(r)
  PROVE  IInv'
  <1> DEFINE t == input[r].team
  <1>1. /\ pc[r] = "inserted" /\ t \in Teams /\ input[r].user \in Users /\ team[t] # None
    BY DEF CommitJoin, IInv, Knows
  <1>2. /\ team' = team /\ member' = member \cup {<<input[r].user, t>>}
        /\ End(r) /\ Touch(r, t, {input[r].user}) /\ UNCHANGED used
    BY DEF CommitJoin
  <1>3. /\ member' \subseteq Users \X Teams /\ \A m \in member' : team'[m[2]] # None
    BY <1>1, <1>2 DEF IInv, TypeOK
  <1> QED
    BY <1>1, <1>2, <1>3, Commits DEF IInv, TypeOK, Marks

LEMMA CommitLeaveKeeps ==
  ASSUME IInv, NEW r \in Requests, CommitLeave(r)
  PROVE  IInv'
  <1> DEFINE in == input[r]
             t == in.team
             S == {"leave", in.user} \cup IF LeavesEmpty(r) \/ Promotes(r) THEN {"team"} ELSE {}
  <1>1. /\ pc[r] = "leave" /\ t \in Teams /\ in.user \in Users
        /\ Promotes(r) => in.other \in Users
    BY DEF CommitLeave, IInv, Knows
  <1>2. End(r) /\ Touch(r, t, S) /\ UNCHANGED used /\ S \in SUBSET Marks
    BY <1>1 DEF CommitLeave, Marks
  <1> HIDE DEF S
  <1>3. CASE LeavesEmpty(r)
    <2>1. /\ team' = [team EXCEPT ![t] = None] /\ member' = member \ (Users \X {t})
          /\ Inserting(t) = {}
      BY <1>3 DEF CommitLeave
    <2>2. \A m \in member' : m[2] \in Teams \ {t} /\ m \in member
      BY <2>1 DEF IInv, TypeOK
    <2>3. /\ team' \in [Teams -> Row \cup {None}] /\ member' \subseteq Users \X Teams
          /\ \A x \in Teams \ {t} : team'[x] = team[x] /\ team'[t] = None
      BY <1>1, <2>1 DEF IInv, TypeOK
    <2>4. \A m \in member' : team'[m[2]] # None
      BY <2>2, <2>3 DEF IInv, TypeOK
    <2> QED
      BY <1>1, <1>2, <2>1, <2>3, <2>4, Commits DEF IInv, TypeOK
  <1>4. CASE ~LeavesEmpty(r)
    <2>1. /\ team' = (IF Promotes(r) /\ team[t] # None
                      THEN [team EXCEPT ![t].cap = in.other] ELSE team)
          /\ member' \subseteq member
      BY <1>4 DEF CommitLeave
    <2>2. /\ team' \in [Teams -> Row \cup {None}]
          /\ \A x \in Teams : team'[x] = None <=> team[x] = None
          /\ \A x \in Teams \ {t} : team'[x] = team[x]
      BY <1>1, <2>1, TeamRegistryAssumption DEF IInv, TypeOK, Row
    <2>3. \A m \in member' : team'[m[2]] # None
      BY <2>1, <2>2 DEF IInv, TypeOK
    <2>4. Inserting(t) # {} => team'[t] # None
      BY <1>1, <2>2 DEF Inserting, IInv, Knows
    <2>5. member' \subseteq Users \X Teams
      BY <2>1 DEF IInv, TypeOK
    <2> QED
      BY <1>1, <1>2, <2>2, <2>3, <2>4, <2>5, Commits
  <1> QED
    BY <1>3, <1>4

(* What the four writes that check first leave alone.                      *)
LEMMA Overwrites ==
  ASSUME IInv, NEW r \in Requests, NEW S \in SUBSET Marks, pc[r] # "idle",
         End(r), Touch(r, input[r].team, S), UNCHANGED used,
         team' \in [Teams -> Row \cup {None}], member' \subseteq member,
         \A x \in Teams : team'[x] = None <=> team[x] = None,
         \A x \in Teams \ {input[r].team} : team'[x] = team[x]
  PROVE  IInv'
  <1>1. input[r].team \in Teams
    BY DEF IInv, Knows
  <1>2. member' \subseteq Users \X Teams /\ \A m \in member' : team'[m[2]] # None
    BY DEF IInv, TypeOK
  <1>3. Inserting(input[r].team) # {} => team'[input[r].team] # None
    BY <1>1 DEF Inserting, IInv, Knows
  <1> QED
    BY <1>1, <1>2, <1>3, Commits

LEMMA ChangeLeaderKeeps ==
  ASSUME IInv, NEW r \in Requests, ChangeLeader(r)
  PROVE  IInv'
  <1> DEFINE t == input[r].team
  <1>1. t \in Teams /\ input[r].other \in Users /\ pc[r] # "idle"
    BY DEF ChangeLeader, IInv, Knows
  <1>2. team' = IF team[t] = None THEN team ELSE [team EXCEPT ![t].cap = input[r].other]
    BY DEF ChangeLeader
  <1>3. /\ team' \in [Teams -> Row \cup {None}]
        /\ \A x \in Teams : team'[x] = None <=> team[x] = None
        /\ \A x \in Teams \ {t} : team'[x] = team[x]
    BY <1>1, <1>2, TeamRegistryAssumption DEF IInv, TypeOK, Row
  <1> QED
    BY <1>1, <1>3, Overwrites DEF ChangeLeader, Marks

LEMMA AcceptTeamKeeps ==
  ASSUME IInv, NEW r \in Requests, AcceptTeam(r)
  PROVE  IInv'
  <1> DEFINE t == input[r].team
  <1>1. t \in Teams /\ pc[r] # "idle"
    BY DEF AcceptTeam, IInv, Knows
  <1>2. team' = IF team[t] = None THEN team ELSE [team EXCEPT ![t].status = "ACCEPTED"]
    BY DEF AcceptTeam
  <1>3. /\ team' \in [Teams -> Row \cup {None}]
        /\ \A x \in Teams : team'[x] = None <=> team[x] = None
        /\ \A x \in Teams \ {t} : team'[x] = team[x]
    BY <1>1, <1>2, TeamRegistryAssumption DEF IInv, TypeOK, Row, Statuses
  <1> QED
    BY <1>1, <1>3, Overwrites DEF AcceptTeam, Marks

LEMMA RemoveUserKeeps ==
  ASSUME IInv, NEW r \in Requests, RemoveUser(r)
  PROVE  IInv'
  <1>1. input[r].other \in Users
    BY DEF RemoveUser, IInv, Knows
  <1>2. /\ team' = team /\ member' \subseteq member /\ pc[r] # "idle"
        /\ End(r) /\ UNCHANGED used /\ Touch(r, input[r].team, {input[r].other})
    BY DEF RemoveUser
  <1>3. team' \in [Teams -> Row \cup {None}] /\ {input[r].other} \in SUBSET Marks
    BY <1>1, <1>2 DEF IInv, TypeOK, Marks
  <1> QED
    BY <1>2, <1>3, Overwrites

LEMMA DeleteTeamKeeps ==
  ASSUME IInv, NEW r \in Requests, DeleteTeam(r)
  PROVE  IInv'
  <1> DEFINE t == input[r].team
             S == {"team"} \cup MembersOf(t)
  <1>1. /\ pc[r] = "write" /\ t \in Teams /\ Inserting(t) = {}
        /\ team' = [team EXCEPT ![t] = None] /\ member' = member \ (Users \X {t})
        /\ End(r) /\ Touch(r, t, S) /\ UNCHANGED used
    BY DEF DeleteTeam, IInv, Knows
  <1>2. S \in SUBSET Marks
    BY DEF MembersOf, Marks
  <1> HIDE DEF S
  <1>3. \A m \in member' : m[2] \in Teams \ {t} /\ m \in member
    BY <1>1 DEF IInv, TypeOK
  <1>4. /\ team' \in [Teams -> Row \cup {None}] /\ member' \subseteq Users \X Teams
        /\ \A x \in Teams \ {t} : team'[x] = team[x] /\ team'[t] = None
    BY <1>1 DEF IInv, TypeOK
  <1>5. \A m \in member' : team'[m[2]] # None
    BY <1>3, <1>4 DEF IInv, TypeOK
  <1> QED
    BY <1>1, <1>2, <1>4, <1>5, Commits DEF IInv, TypeOK

LEMMA ChangeTeamNameKeeps ==
  ASSUME IInv, NEW r \in Requests, ChangeTeamName(r)
  PROVE  IInv'
  <1>1. /\ team' = team /\ member' = member /\ pc[r] # "idle" /\ UNCHANGED used
        /\ End(r) /\ Touch(r, input[r].team, {"team"})
    BY DEF ChangeTeamName, Unwritten
  <1>2. team' \in [Teams -> Row \cup {None}] /\ {"team"} \in SUBSET Marks
    BY <1>1 DEF IInv, TypeOK, Marks
  <1> QED
    BY <1>1, <1>2, Overwrites

LEMMA NextKeeps == IInv /\ [Next]_vars => IInv'
  <1> SUFFICES ASSUME IInv, [Next]_vars PROVE IInv'
    OBVIOUS
  <1>1. CASE UNCHANGED vars
    BY <1>1 DEF vars, IInv, TypeOK, Knows, Founds, Promotes
  <1>2. ASSUME NEW r \in Requests, Fail(r) PROVE IInv'
    BY <1>2, AnswerKeeps DEF Fail
  <1>3. ASSUME NEW r \in Requests, AbortLeave(r) PROVE IInv'
    BY <1>3, AnswerKeeps DEF AbortLeave
  <1>4. CASE Next
    BY <1>2, <1>3, <1>4, HandleCreateKeeps, HandleOtherKeeps, ReadForCreateKeeps,
       CommitCreateKeeps, ReadForJoinKeeps, ReadExistingKeeps, InsertRegistrationKeeps,
       CommitJoinKeeps, ReadForLeaveKeeps, CommitLeaveKeeps, ReadAndCheckKeeps,
       ChangeLeaderKeeps, RemoveUserKeeps, DeleteTeamKeeps, AcceptTeamKeeps,
       ChangeTeamNameKeeps
    DEF Next
  <1> QED
    BY <1>1, <1>4

THEOREM AlwaysSound == Spec => []IInv
  BY InitIsSound, NextKeeps, PTL DEF Spec

(* The tables and requests have their types and no registration outlives   *)
(* its team (TypeOK), whatever joins, leaves and deletions interleave.     *)
THEOREM TypeCorrect == Spec => []TypeOK
  <1>1. IInv => TypeOK
    BY DEF IInv
  <1> QED
    BY <1>1, AlwaysSound, PTL

-----------------------------------------------------------------------------
(* A leave which no other has overtaken still finds the members of its     *)
(* snapshot in the team, if the team is there: members go with a leave,    *)
(* with their team, or when they are removed by others.                    *)
Sees(r) ==
  pc[r] = "leave" /\ "leave" \notin touched[r] /\ team[input[r].team] # None =>
    view[r].members \subseteq MembersOf(input[r].team)

MInv == TeamsHaveMembers /\ \A r \in Requests : Sees(r)

LEMMA InitHasMembers == Init => MInv
  BY DEF Init, MInv, TeamsHaveMembers, Sees

(* No step but a leave takes members out of a team that stays.             *)
LEMMA MembersStay ==
  ASSUME IInv, IInv', MInv, NEW r \in Requests, pc'[r] # "leave",
         \A q \in Requests \ {r} : /\ pc'[q] = pc[q] /\ input'[q] = input[q]
                                   /\ view'[q] = view[q] /\ touched[q] \subseteq touched'[q],
         \A t \in Teams : team'[t] # None => MembersOf(t) \subseteq MembersOf(t)',
         \A t \in Teams : team'[t] # None => team[t] # None \/ (/\ MembersOf(t)' # {}
           /\ \A q \in Requests \ {r} : input[q].team # t)
  PROVE  MInv'
  <1>1. TeamsHaveMembers'
    BY DEF MInv, TeamsHaveMembers
  <1>2. ASSUME NEW q \in Requests PROVE Sees(q)'
    <2>1. CASE q = r
      BY <2>1 DEF Sees
    <2>2. CASE q # r
      <3>1. pc[q] = "leave" => input[q].team \in Teams
        BY DEF IInv, Knows
      <3> QED
        BY <2>2, <3>1 DEF MInv, Sees
    <2> QED
      BY <2>1, <2>2
  <1> QED
    BY <1>1, <1>2 DEF MInv

(* A request that goes on or is answered.                                  *)
LEMMA NothingWritten ==
  ASSUME IInv, IInv', MInv, NEW r \in Requests, pc'[r] # "leave",
         \A q \in Requests \ {r} : /\ pc'[q] = pc[q] /\ input'[q] = input[q]
                                   /\ view'[q] = view[q] /\ touched'[q] = touched[q],
         UNCHANGED <<team, member>>
  PROVE  MInv'
  BY MembersStay DEF MembersOf

LEMMA AnswerHasMembers ==
  ASSUME IInv, IInv', MInv, NEW r \in Requests, Answer(r)
  PROVE  MInv'
  BY NothingWritten DEF Answer, End, Goto, Unwritten, IInv, TypeOK

LEMMA ReadForLeaveHasMembers ==
  ASSUME IInv, IInv', MInv, NEW r \in Requests, ReadForLeave(r)
  PROVE  MInv'
  <1> DEFINE t == input[r].team
             members == MembersOf(t)
  <1>1. CASE Answer(r)
    BY <1>1, AnswerHasMembers
  <1>2. CASE /\ view' = [view EXCEPT ![r].cap = team[t].cap, ![r].members = members]
             /\ Goto(r, "leave")
             /\ UNCHANGED <<input, touched>> /\ Unwritten
    <2>1. TeamsHaveMembers'
      BY <1>2 DEF MInv, TeamsHaveMembers, Unwritten, MembersOf
    <2>2. MembersOf(t)' = members /\ input' = input
      BY <1>2 DEF Unwritten, MembersOf
    <2>3. view'[r].members = members
      <3> HIDE DEF members
      <3> QED
        BY <1>2 DEF IInv, TypeOK, Views
    <2>5. Sees(r)'
      BY <2>2, <2>3 DEF Sees
    <2>4. ASSUME NEW q \in Requests \ {r} PROVE Sees(q)'
      BY <1>2 DEF MInv, Sees, Unwritten, MembersOf, Goto, IInv, TypeOK
    <2> QED
      BY <2>1, <2>4, <2>5 DEF MInv
  <1> QED
    BY <1>1, <1>2 DEF ReadForLeave

(* What a commit leaves of the other requests.                             *)
LEMMA OthersWait ==
  ASSUME IInv, NEW r \in Requests, NEW t, NEW S, End(r), Touch(r, t, S)
  PROVE  /\ pc'[r] = "idle"
         /\ \A q \in Requests \ {r} :
              /\ pc'[q] = pc[q] /\ input'[q] = input[q] /\ view'[q] = view[q]
              /\ touched[q] \subseteq touched'[q]
              /\ pc[q] = "leave" /\ input[q].team = t => S \subseteq touched'[q]
  BY DEF End, Goto, Touch, IInv, TypeOK

(* The snapshot of a leave that may commit has somebody else in it, or the *)
(* team goes too.                                                          *)
LEMMA CommitLeaveHasMembers ==
  ASSUME IInv, IInv', MInv, NEW r \in Requests, CommitLeave(r)
  PROVE  MInv'
  <1> DEFINE in == input[r]
  <1>0. PICK t \in Teams : t = in.team
    BY DEF CommitLeave, IInv, Knows
  <1> DEFINE S == {"leave", in.user} \cup IF LeavesEmpty(r) \/ Promotes(r) THEN {"team"} ELSE {}
  <1>1. /\ pc[r] = "leave" /\ in.user \in Users /\ "leave" \notin touched[r]
        /\ view[r].members \subseteq Users
    BY DEF CommitLeave, Serializable, IInv, Knows, TypeOK, Views
  <1>2. End(r) /\ Touch(r, t, S) /\ "leave" \in S
    BY <1>0 DEF CommitLeave
  <1> HIDE DEF S
  <1>3. \A x \in Teams \ {t} : team'[x] = team[x] /\ MembersOf(x)' = MembersOf(x)
    BY <1>0 DEF CommitLeave, IInv, TypeOK, MembersOf
  <1>4. team'[t] # None => MembersOf(t)' # {}
    <2>1. CASE LeavesEmpty(r)
      BY <1>0, <2>1 DEF CommitLeave, IInv, TypeOK
    <2>2. CASE ~LeavesEmpty(r)
      <3>1. PICK u \in view[r].members : u # in.user
        BY <2>2 DEF LeavesEmpty
      <3>2. member' = member \ {<<in.user, t>>} /\ (team'[t] # None => team[t] # None)
        BY <1>0, <2>2 DEF CommitLeave, IInv, TypeOK
      <3>3. team[t] # None => u \in MembersOf(t)
        BY <1>0, <1>1, <3>1 DEF MInv, Sees
      <3>4. team[t] # None => u \in MembersOf(t)'
        BY <1>1, <3>1, <3>2, <3>3 DEF MembersOf
      <3> QED
        BY <3>2, <3>4
    <2> QED
      BY <2>1, <2>2
  <1>5. TeamsHaveMembers'
    BY <1>3, <1>4 DEF MInv, TeamsHaveMembers
  <1>6. ASSUME NEW q \in Requests PROVE Sees(q)'
    <2>1. CASE q = r
      BY <1>2, <2>1, OthersWait DEF Sees
    <2>2. CASE q # r
      <3>1. /\ pc'[q] = pc[q] /\ input'[q] = input[q] /\ view'[q] = view[q]
            /\ touched[q] \subseteq touched'[q]
            /\ pc[q] = "leave" /\ input[q].team = t => "leave" \in touched'[q]
        BY <1>2, <2>2, OthersWait
      <3>2. pc[q] = "leave" => input[q].team \in Teams
        BY DEF IInv, Knows
      <3> QED
        BY <1>3, <3>1, <3>2 DEF MInv, Sees
    <2> QED
      BY <2>1, <2>2
  <1> QED
    BY <1>5, <1>6 DEF MInv

LEMMA CommitHasMembers ==
  ASSUME IInv, IInv', MInv, NEW r \in Requests, "remove" \notin Ops,
         \/ CommitCreate(r) \/ CommitJoin(r) \/ ChangeLeader(r) \/ DeleteTeam(r)
         \/ AcceptTeam(r) \/ RemoveUser(r) \/ ChangeTeamName(r)
  PROVE  MInv'
  <1> DEFINE t == input[r].team
  <1>1. t \in Teams /\ input[r].user \in Users
    BY DEF CommitCreate, CommitJoin, ChangeLeader, DeleteTeam, AcceptTeam, RemoveUser,
           ChangeTeamName, IInv, Knows
  <1>2. ~RemoveUser(r)
    BY DEF RemoveUser, IInv, Knows
  <1>3. PICK S : End(r) /\ Touch(r, t, S)
    BY <1>2 DEF CommitCreate, CommitJoin, ChangeLeader, DeleteTeam, AcceptTeam,
                ChangeTeamName
  <1>4. \A x \in Teams : team'[x] # None => MembersOf(x) \subseteq MembersOf(x)'
    BY <1>1, <1>2 DEF CommitCreate, CommitJoin, ChangeLeader, DeleteTeam, AcceptTeam,
                     ChangeTeamName, Unwritten, MembersOf, IInv, TypeOK
  <1>5. ASSUME NEW x \in Teams, team'[x] # None, team[x] = None
        PROVE  /\ MembersOf(x)' # {}
               /\ \A q \in Requests \ {r} : input[q].team # x
    <2>1. CommitCreate(r) /\ x = t
      BY <1>1, <1>2, <1>5
      DEF CommitCreate, CommitJoin, ChangeLeader, DeleteTeam, AcceptTeam, ChangeTeamName,
          Unwritten, IInv, TypeOK
    <2>2. input[r].user \in MembersOf(x)'
      BY <1>1, <2>1 DEF CommitCreate, MembersOf
    <2>3. pc[r] # "idle" /\ input[r].op = "create"
      BY <2>1 DEF CommitCreate, IInv, Knows
    <2> QED
      BY <2>1, <2>2, <2>3 DEF IInv, Founds
  <1> QED
    BY <1>3, <1>4, <1>5, OthersWait, MembersStay

LEMMA NextHasMembers ==
  ASSUME "remove" \notin Ops
  PROVE  IInv /\ IInv' /\ MInv /\ [Next]_vars => MInv'
  <1> SUFFICES ASSUME IInv, IInv', MInv, [Next]_vars PROVE MInv'
    OBVIOUS
  <1>1. CASE UNCHANGED vars
    BY <1>1 DEF vars, MInv, TeamsHaveMembers, Sees, MembersOf
  <1>2. ASSUME NEW r \in Requests, HandleCreate(r) \/ HandleOther(r) PROVE MInv'
    BY <1>2, NothingWritten DEF HandleCreate, HandleOther, Arrive, Goto, IInv, TypeOK
  <1>3. ASSUME NEW r \in Requests,
               \/ ReadForCreate(r) \/ ReadForJoin(r) \/ ReadExisting(r)
               \/ InsertRegistration(r) \/ ReadAndCheck(r) \/ AbortLeave(r) \/ Fail(r)
        PROVE  MInv'
    <2>1. CASE Answer(r)
      BY <2>1, AnswerHasMembers
    <2>2. CASE ~Answer(r)
      BY <1>3, <2>2, NothingWritten
      DEF ReadForCreate, ReadForJoin, ReadExisting, InsertRegistration, ReadAndCheck,
          AbortLeave, Fail, Goto, Unwritten, IInv, TypeOK
    <2> QED
      BY <2>1, <2>2
  <1>4. CASE Next
    BY <1>2, <1>3, <1>4, ReadForLeaveHasMembers, CommitLeaveHasMembers, CommitHasMembers DEF Next
  <1> QED
    BY <1>1, <1>4

(* If no user is removed by another, no team is ever without members,      *)
(* however its last members leave at the same time and others join.        *)
THEOREM TeamsKeepMembers ==
  ASSUME "remove" \notin Ops
  PROVE  Spec => []TeamsHaveMembers
  <1>1. MInv => TeamsHaveMembers
    BY DEF MInv
  <1> QED
    BY <1>1, AlwaysSound, InitHasMembers, NextHasMembers, PTL DEF Spec

=============================================================================
