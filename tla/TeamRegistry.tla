---------------------------- MODULE TeamRegistry ----------------------------
(***************************************************************************)
(* The teams of one quest: what the handlers of internal/handlers/teams    *)
(* and the services behind them do to the tables team and registration,    *)
(* each at the isolation level its handler asks for.                       *)
(*   create  POST /quest/{id}/teams        REPEATABLE READ                 *)
(*   join    GET  /teams/join/{path}       READ COMMITTED                  *)
(*   leave   POST /teams/{id}/leave        SERIALIZABLE                    *)
(*   lead    POST /teams/{id}/captain      no transaction                  *)
(*   remove  DELETE /teams/{id}/{user_id}  no transaction                  *)
(*   delete  DELETE /teams/{id}            no transaction                  *)
(*   accept  POST .../teams/{id}/accept    no transaction                  *)
(*   rename  POST /teams/{id}              no transaction                  *)
(*                                                                         *)
(* One action is what a request reads at one moment, or what it writes and *)
(* commits at one moment; requests of any users interleave between them.   *)
(* A team's name and invite link are left out (a rename still writes the   *)
(* team's row); the quest does not change; users are never deleted.        *)
(***************************************************************************)
EXTENDS Integers, FiniteSets

CONSTANTS
  Requests,          \* requests that can be in progress at the same time
  None,
  Users,
  Teams,             \* bound: the teams that can ever be created
  Creator,           \* the creator of the quest
  MaxTeamCap,        \* None when teams are not limited
  MaxTeamsAmount,    \* None when the number of accepted teams is not
  RegistrationType,  \* "AUTO" or "VERIFY"
  Ops                \* the operations users ask for

Statuses == {"ACCEPTED", "ON_CONSIDERATION"}
Row == [cap : Users, status : Statuses]

ASSUME TeamRegistryAssumption ==
  /\ None \notin Users \cup Teams \cup Row
  /\ Creator \in Users
  /\ MaxTeamCap \in (Nat \ {0}) \cup {None}
  /\ MaxTeamsAmount \in Nat \cup {None}
  /\ RegistrationType \in {"AUTO", "VERIFY"}
  /\ Ops \subseteq {"create", "join", "leave", "lead", "remove", "delete", "accept",
                   "rename"}

VARIABLES
  team,      \* a team's row, or None
  member,    \* registration: pairs of a user and a team
  used,      \* the team ids that have been handed out
  pc,        \* what a request does next
  input,     \* what it asked for
  view,      \* what its snapshot holds of its team, for leave
  touched    \* what others have committed to that team since the snapshot

vars == <<team, member, used, pc, input, view, touched>>

NoInput == [op |-> "none", user |-> None, team |-> None, other |-> None]
NoView == [cap |-> None, members |-> {}, status |-> None]

Init ==
  /\ team = [t \in Teams |-> None]
  /\ member = {}
  /\ used = {}
  /\ pc = [r \in Requests |-> "idle"]
  /\ input = [r \in Requests |-> NoInput]
  /\ view = [r \in Requests |-> NoView]
  /\ touched = [r \in Requests |-> {}]

-----------------------------------------------------------------------------
MembersOf(t) == {u \in Users : <<u, t>> \in member}
TeamsOf(u) == {t \in Teams : <<u, t>> \in member}
AcceptedTeams == {t \in Teams : team[t] # None /\ team[t].status = "ACCEPTED"}

(* getRegistrationStatus                                                   *)
AlwaysAccepted ==  \* mutant: AUTO registration does not count the teams
  IF RegistrationType = "AUTO" THEN "ACCEPTED" ELSE "ON_CONSIDERATION"

RegistrationStatus ==
  IF RegistrationType = "AUTO"
     /\ (MaxTeamsAmount # None => Cardinality(AcceptedTeams) < MaxTeamsAmount)
  THEN "ACCEPTED" ELSE "ON_CONSIDERATION"

Goto(r, label) == pc' = [pc EXCEPT ![r] = label]

(* The request is answered.                                                *)
End(r) ==
  /\ Goto(r, "idle")
  /\ input' = [input EXCEPT ![r] = NoInput]
  /\ view' = [view EXCEPT ![r] = NoView]

(* A commit that writes rows of team t: S says which.  Postgres checks     *)
(* them when an open leave, which works on a snapshot, wants to write.     *)
Touch(r, t, S) ==
  touched' = [q \in Requests |->
    IF q = r THEN {}
    ELSE IF pc[q] = "leave" /\ input[q].team = t THEN touched[q] \cup S
    ELSE touched[q]]

Unwritten == UNCHANGED <<team, member, used>>
Answer(r) == End(r) /\ touched' = [touched EXCEPT ![r] = {}] /\ Unwritten

(* A request arrives.  One about a team that does not exist is answered    *)
(* with 404 and leaves nothing to model.                                   *)
Arrive(r, in) ==
  /\ pc[r] = "idle"
  /\ in.op \in Ops
  /\ in.op = "create" \/ team[in.team] # None
  /\ input' = [input EXCEPT ![r] = in]
  /\ Goto(r, "read")
  /\ UNCHANGED <<team, member, view, touched>>

HandleCreate(r) ==
  \E u \in Users, t \in Teams \ used :
    /\ Arrive(r, [op |-> "create", user |-> u, team |-> t, other |-> None])
    /\ used' = used \cup {t}

HandleOther(r) ==
  \E op \in Ops \ {"create"}, u \in Users, t \in Teams, o \in Users \cup {None} :
    /\ op \in {"lead", "remove"} => o # None
    /\ op \in {"join", "delete", "accept", "rename"} => o = None
    /\ Arrive(r, [op |-> op, user |-> u, team |-> t, other |-> o])
    /\ UNCHANGED used

-----------------------------------------------------------------------------
(* CreateTeam: everything it reads is read from one snapshot.              *)
ReadForCreate(r) ==
  /\ pc[r] = "read" /\ input[r].op = "create"
  /\ IF TeamsOf(input[r].user) = {}
     THEN /\ view' = [view EXCEPT ![r].status = RegistrationStatus]
          /\ Goto(r, "create")
          /\ UNCHANGED <<input, touched>> /\ Unwritten
     ELSE Answer(r)

(* CreateTeam and register_cap_trigger: the row and its captain's          *)
(* registration, committed together.                                       *)
CommitCreate(r) ==
  LET in == input[r]
  IN  /\ pc[r] = "create"
      /\ team' = [team EXCEPT ![in.team] =
                   [cap |-> in.user, status |-> view[r].status]]
      /\ member' = member \cup {<<in.user, in.team>>}
      /\ Touch(r, in.team, {})
      /\ End(r) /\ UNCHANGED used

(* Both JoinTeam and check_team_under_cap_trigger compare the number of    *)
(* members with the maximum for equality.                                  *)
RoomForOneMore(t) ==  \* mutant: the captain is not counted
  MaxTeamCap # None => Cardinality(MembersOf(t)) # MaxTeamCap + 1

HasRoom(t) == MaxTeamCap # None => Cardinality(MembersOf(t)) # MaxTeamCap

(* JoinTeam: the team and its members; a member gets the team back.        *)
ReadForJoin(r) ==
  LET in == input[r]
  IN  /\ pc[r] = "read" /\ input[r].op = "join"
      /\ IF team[in.team] = None \/ in.user \in MembersOf(in.team)
         THEN Answer(r)
         ELSE /\ Goto(r, IF HasRoom(in.team) THEN "existing" ELSE "full")
              /\ UNCHANGED <<input, view, touched>> /\ Unwritten

(* JoinTeam: GetTeams of the user, then the check of the member count read *)
(* before.                                                                 *)
JoinAnyway(r) ==  \* mutant: the existing teams are not looked at
  /\ pc[r] \in {"existing", "full"}
  /\ IF pc[r] = "full" THEN Answer(r)
     ELSE /\ Goto(r, "insert")
          /\ UNCHANGED <<input, view, touched>> /\ Unwritten

ReadExisting(r) ==
  /\ pc[r] \in {"existing", "full"}
  /\ IF TeamsOf(input[r].user) # {} \/ pc[r] = "full"
     THEN Answer(r)
     ELSE /\ Goto(r, "insert")
          /\ UNCHANGED <<input, view, touched>> /\ Unwritten

(* JoinTeam: the insert, which waits for one of the same row, and in it    *)
(* check_team_under_cap_trigger, which counts committed rows.              *)
Inserting(t) == {q \in Requests : pc[q] = "inserted" /\ input[q].team = t}

InsertAnywhere(r) ==  \* mutant: no foreign key to the team
  LET in == input[r]
  IN  /\ pc[r] = "insert"
      /\ IF HasRoom(in.team) /\ in.user \notin MembersOf(in.team)
         THEN /\ Goto(r, "inserted")
              /\ UNCHANGED <<input, view, touched>> /\ Unwritten
         ELSE Answer(r)

InsertRegistration(r) ==
  LET in == input[r]
  IN  /\ pc[r] = "insert"
      /\ \A q \in Inserting(in.team) : input[q].user # in.user
      /\ IF /\ team[in.team] # None /\ HasRoom(in.team)
            /\ in.user \notin MembersOf(in.team)
         THEN /\ Goto(r, "inserted")
              /\ UNCHANGED <<input, view, touched>> /\ Unwritten
         ELSE Answer(r)

CommitJoin(r) ==
  LET in == input[r]
  IN  /\ pc[r] = "inserted"
      /\ member' = member \cup {<<in.user, in.team>>}
      /\ Touch(r, in.team, {in.user})
      /\ End(r) /\ UNCHANGED <<team, used>>

-----------------------------------------------------------------------------
(* LeaveTeam: the snapshot; a captain of several members must name the     *)
(* next one, and a team without members is a slice of capacity -1.         *)
ReadForLeave(r) ==
  LET in == input[r]
      members == MembersOf(in.team)
  IN  /\ pc[r] = "read" /\ in.op = "leave"
      /\ IF \/ team[in.team] = None
            \/ team[in.team].cap = in.user /\ Cardinality(members) > 1 /\ in.other = None
            \/ members = {}
         THEN Answer(r)
         ELSE /\ view' = [view EXCEPT ![r].cap = team[in.team].cap,
                                      ![r].members = members]
              /\ Goto(r, "leave")
              /\ UNCHANGED <<input, touched>> /\ Unwritten

Promotes(r) == view[r].cap = input[r].user /\ Cardinality(view[r].members) > 1
LeavesEmpty(r) == view[r].members \subseteq {input[r].user}

(* Whether Postgres lets a leave commit: no other leave of the team has    *)
(* (SERIALIZABLE), and no row it writes, the team's members counting when  *)
(* it deletes the team, has been written since the snapshot.               *)
AnyLeave(r) == TRUE  \* mutant: READ COMMITTED
Serializable(r) ==
  /\ "leave" \notin touched[r]
  /\ input[r].user \notin touched[r]
  /\ Promotes(r) \/ LeavesEmpty(r) => "team" \notin touched[r]
  /\ LeavesEmpty(r) => touched[r] \cap Users = {}

(* LeaveTeam: the next captain, the registration, the team that has lost   *)
(* its last member; a deletion waits for inserts that refer to the team.   *)
CommitLeave(r) ==
  LET in == input[r]
      t == in.team
  IN  /\ pc[r] = "leave"
      /\ Serializable(r)
      /\ LeavesEmpty(r) => Inserting(t) = {}
      /\ team' = IF LeavesEmpty(r) THEN [team EXCEPT ![t] = None]
                 ELSE IF Promotes(r) /\ team[t] # None
                 THEN [team EXCEPT ![t].cap = in.other] ELSE team
      /\ member' = IF LeavesEmpty(r) THEN member \ (Users \X {t})
                   ELSE member \ {<<in.user, t>>}
      /\ Touch(r, t, {"leave", in.user}
                     \cup IF LeavesEmpty(r) \/ Promotes(r) THEN {"team"} ELSE {})
      /\ End(r) /\ UNCHANGED used

AbortLeave(r) == pc[r] = "leave" /\ ~Serializable(r) /\ Answer(r)

-----------------------------------------------------------------------------
(* ChangeLeader, RemoveUser, DeleteTeam, AcceptTeam, UpdateTeamName: the   *)
(* team, or the accepted teams, are read and the user's right checked; the *)
(* write comes later, in a statement of its own.                           *)
CaptainOf(u, t) == team[t] # None /\ team[t].cap = u

AnyoneRemoved(in) == CaptainOf(in.user, in.team)  \* mutant: even the captain
MayRemove(in) == CaptainOf(in.user, in.team) /\ in.other # in.user

MayAccept(in) ==
  /\ in.user = Creator
  /\ MaxTeamsAmount # None => Cardinality(AcceptedTeams) # MaxTeamsAmount

Allowed(in) ==
  \/ in.op \in {"lead", "rename"} /\ CaptainOf(in.user, in.team)
  \/ in.op = "remove" /\ MayRemove(in)
  \/ in.op = "delete" /\ team[in.team] # None
     /\ (CaptainOf(in.user, in.team) \/ in.user = Creator)
  \/ in.op = "accept" /\ in.team \notin AcceptedTeams /\ MayAccept(in)

ReadAndCheck(r) ==
  /\ pc[r] = "read" /\ input[r].op \in {"lead", "remove", "delete", "accept", "rename"}
  /\ IF Allowed(input[r])
     THEN /\ Goto(r, "write")
          /\ UNCHANGED <<input, view, touched>> /\ Unwritten
     ELSE Answer(r)

ChangeLeader(r) ==
  LET in == input[r]
  IN  /\ pc[r] = "write" /\ in.op = "lead"
      /\ team' = IF team[in.team] = None THEN team
                 ELSE [team EXCEPT ![in.team].cap = in.other]
      /\ Touch(r, in.team, {"team"})
      /\ End(r) /\ UNCHANGED <<member, used>>

RemoveUser(r) ==
  LET in == input[r]
  IN  /\ pc[r] = "write" /\ in.op = "remove"
      /\ member' = member \ {<<in.other, in.team>>}
      /\ Touch(r, in.team, {in.other})
      /\ End(r) /\ UNCHANGED <<team, used>>

DeleteTeam(r) ==
  LET t == input[r].team
  IN  /\ pc[r] = "write" /\ input[r].op = "delete"
      /\ Inserting(t) = {}
      /\ team' = [team EXCEPT ![t] = None]
      /\ member' = member \ (Users \X {t})
      /\ Touch(r, t, {"team"} \cup MembersOf(t))
      /\ End(r) /\ UNCHANGED used

AcceptTeam(r) ==
  LET t == input[r].team
  IN  /\ pc[r] = "write" /\ input[r].op = "accept"
      /\ team' = IF team[t] = None THEN team
                 ELSE [team EXCEPT ![t].status = "ACCEPTED"]
      /\ Touch(r, t, {"team"})
      /\ End(r) /\ UNCHANGED <<member, used>>

ChangeTeamName(r) ==
  /\ pc[r] = "write" /\ input[r].op = "rename"
  /\ Touch(r, input[r].team, {"team"})
  /\ End(r) /\ Unwritten

(* A statement fails or the replica dies.                                  *)
Fail(r) == pc[r] # "idle" /\ Answer(r)

Next ==
  \E r \in Requests :
    \/ HandleCreate(r) \/ HandleOther(r)
    \/ ReadForCreate(r) \/ CommitCreate(r)
    \/ ReadForJoin(r) \/ ReadExisting(r) \/ InsertRegistration(r) \/ CommitJoin(r)
    \/ ReadForLeave(r) \/ CommitLeave(r) \/ AbortLeave(r)
    \/ ReadAndCheck(r)
    \/ ChangeLeader(r) \/ RemoveUser(r) \/ DeleteTeam(r) \/ AcceptTeam(r)
    \/ ChangeTeamName(r)
    \/ Fail(r)

Spec == Init /\ [][Next]_vars

-----------------------------------------------------------------------------
(* The types of the tables and requests; a registration refers to a team   *)
(* that exists, also while inserts and deletions race.                     *)
Inputs == [op : {"none", "create", "join", "leave", "lead", "remove", "delete",
                 "accept", "rename"},
           user : Users \cup {None}, team : Teams \cup {None},
           other : Users \cup {None}]
Views == [cap : Users \cup {None}, members : SUBSET Users,
          status : Statuses \cup {None}]

TypeOK ==
  /\ team \in [Teams -> Row \cup {None}]
  /\ member \subseteq Users \X Teams
  /\ used \subseteq Teams
  /\ pc \in [Requests -> {"idle", "read", "create", "existing", "full", "insert",
                          "inserted", "leave", "write"}]
  /\ input \in [Requests -> Inputs]
  /\ view \in [Requests -> Views]
  /\ touched \in [Requests -> SUBSET ({"team", "leave"} \cup Users)]
  /\ \A m \in member : team[m[2]] # None

(* CreateTeam and JoinTeam refuse a user who already has a team of the     *)
(* quest.                                                                  *)
OneTeamPerUser == \A u \in Users : Cardinality(TeamsOf(u)) <= 1

(* JoinTeam and check_under_capacity refuse a user when the team is full.  *)
UnderCapacity ==
  MaxTeamCap # None => \A t \in Teams : Cardinality(MembersOf(t)) <= MaxTeamCap

(* CreateTeam and AcceptTeam accept at most MaxTeamsAmount teams.          *)
AcceptedWithinLimit ==
  MaxTeamsAmount # None => Cardinality(AcceptedTeams) <= MaxTeamsAmount

(* A captain who is a member stays one until another member takes over:    *)
(* removals, departures, changes of the captain and the making of a team   *)
(* leave it a captain among its members.  The exception is what            *)
(* ChangeLeader never checks: that the captain it is told is a member, and *)
(* not the one who leaves.                                                 *)
NamesAMember(in) ==
  in.op \in {"lead", "leave"} /\ in.other # None =>
    in.other \in MembersOf(in.team) \ (IF in.op = "leave" THEN {in.user} ELSE {})

PlaysWithItsCaptain(t) == team[t] # None => team[t].cap \in MembersOf(t)

CaptainStays ==
  [][\A t \in Teams :
       (/\ PlaysWithItsCaptain(t)
        /\ \A r \in Requests : input[r].team = t => NamesAMember(input[r]))
       => PlaysWithItsCaptain(t)']_vars

(* LeaveTeam deletes the team with its last member: no team stays behind   *)
(* without members when they leave at the same time, or when a user joins  *)
(* while the last one leaves.                                              *)
TeamsHaveMembers == \A t \in Teams : team[t] # None => MembersOf(t) # {}
=============================================================================
