------------------------------- MODULE UseCases -------------------------------
(***************************************************************************)
(* The use-case handlers that keep teams, users and memberships, run by     *)
(* concurrent requests.  Each request has a UnitOfWork of its own (the DI    *)
(* container provides one per handler); what they share is the database.    *)
(* A step of a request ends at the next await on the database.              *)
(*                                                                         *)
(* Teams, users and memberships are three tables; their ids are disjoint,   *)
(* so one function keyed by id stands for the three.                        *)
(***************************************************************************)
EXTENDS Naturals, FiniteSets

CONSTANTS
    Requests,           \* requests being served at the same time
    Teams, Users, Periods,  \* ids of teams, users and memberships
    Names, Emails, Roles,
    InitialRole,        \* MembershipRole.MEMBER
    StoredTeams,        \* teams already in the database at the start
    StoredUsers,        \* users already in the database at the start
    UseCasesCalled,     \* the use cases this instance exercises
    MaxRequests,        \* bound on the requests of a behaviour
    NoKey, NoRow, Untouched, NoAggregate, NoCommand

Ids == Teams \cup Users \cup Periods

TeamData == [name : Names]
UserData == [email : Emails]
PeriodData ==
    [team : Teams, user : Users, role : Roles, status : {"PENDING", "ACTIVE", "LEAVED"}]
Data == TeamData \cup UserData \cup PeriodData

EmailKeys == {"email"} \X Emails
Keys == EmailKeys \cup (Teams \X Users)

\* Mutants: the partial index covers ACTIVE only; the membership index is not
\* partial.
UniqueKeyActive(data) ==
    IF data \in UserData THEN <<"email", data.email>>
    ELSE IF data \in PeriodData /\ data.status = "ACTIVE"
         THEN <<data.team, data.user>>
         ELSE NoKey
UniqueKeyWhole(data) ==
    IF data \in UserData THEN <<"email", data.email>>
    ELSE IF data \in PeriodData THEN <<data.team, data.user>>
         ELSE NoKey

\* The unique index of users.email and the partial one of team_memberships.
UniqueKey(data) ==
    IF data \in UserData THEN <<"email", data.email>>
    ELSE IF data \in PeriodData /\ data.status \in {"PENDING", "ACTIVE"}
         THEN <<data.team, data.user>>
         ELSE NoKey

VARIABLES
    table, pending, active, isFailed,   \* see UnitOfWork
    pc,         \* per request, the await its handler is at
    command,    \* per request, the command it carries out
    aggregate,  \* per request, the aggregate the handler has in hand
    answer,     \* per request, the result its handler will return
    issued,     \* ids generated so far
    served,     \* number of requests received
    approvals,  \* per period, the approvals answered Ok
    departures  \* per period, the leaves answered Ok

INSTANCE UnitOfWork WITH Scopes <- Requests

database == <<table, pending, active, isFailed>>
requestVars == <<pc, command, aggregate, answer, issued, served>>
history == <<approvals, departures>>
vars == <<database, requestVars, history>>

-----------------------------------------------------------------------------
(* Commands and the domain *)

WriteTeamCommand == [op : {"create_team", "update_team"}, id : Teams, name : Names]
CreateUserCommand == [op : {"create_user"}, id : Users, email : Emails]
GetCommand == [op : {"get_team"}, id : Teams] \cup [op : {"get_user"}, id : Users]
EnterTeamCommand == [op : {"join", "request_join"}, id : Periods, team : Teams, user : Users]
PeriodCommand == [op : {"approve", "leave"}, id : Periods]
ChangeRoleCommand == [op : {"change_role"}, id : Periods, role : Roles]

Command ==
    WriteTeamCommand \cup CreateUserCommand \cup GetCommand \cup EnterTeamCommand
        \cup PeriodCommand \cup ChangeRoleCommand

Reading == {"get_team", "get_user"}

\* TeamMembership.join() and TeamMembership.request_join().
Joined(t, u) == [team |-> t, user |-> u, role |-> InitialRole, status |-> "ACTIVE"]
JoinRequested(t, u) == [team |-> t, user |-> u, role |-> InitialRole, status |-> "PENDING"]

\* Mutant: leave() does not look at the status.
MayLeaveAlways(data) == TRUE

\* The state in which approve(), leave() and change_role() do not raise
\* MembershipTransitionError.
MayApprove(data) == data.status = "PENDING"
MayLeave(data) == data.status # "LEAVED"
MayChangeRole(data) == data.status # "LEAVED"

Permitted(cmd, data) ==
    /\ cmd.op = "approve" => MayApprove(data)
    /\ cmd.op = "leave" => MayLeave(data)
    /\ cmd.op = "change_role" => MayChangeRole(data)

ChangedData(cmd, data) ==
    CASE cmd.op = "update_team" -> [data EXCEPT !.name = cmd.name]
      [] cmd.op = "approve" -> [data EXCEPT !.status = "ACTIVE"]
      [] cmd.op = "leave" -> [data EXCEPT !.status = "LEAVED"]
      [] cmd.op = "change_role" -> [data EXCEPT !.role = cmd.role]

Aggregate == [id : Ids, data : Data, version : Nat]

RowOf(data, version) == [key |-> UniqueKey(data), data |-> data, version |-> version]

\* The ids of the three tables and the entries of the two indexes are disjoint,
\* as they are kept in tables of their own.
ASSUME DirectoryAssumption ==
    /\ Teams \cap Users = {} /\ Teams \cap Periods = {} /\ Users \cap Periods = {}
    /\ StoredTeams \subseteq Teams /\ StoredUsers \subseteq Users
    /\ EmailKeys \cap (Teams \X Users) = {}
    /\ InitialRole \in Roles
    /\ MaxRequests \in Nat

ASSUME NothingsAssumption ==
    /\ NoKey \notin Keys
    /\ NoRow \notin Row \cup PeriodData
    /\ Untouched \notin Row \cup {NoRow}
    /\ NoAggregate \notin Aggregate
    /\ NoCommand \notin Command

-----------------------------------------------------------------------------
Places ==
    {"idle", "find_team", "find_user", "load", "check", "insert", "update", "commit", "return"}
Answers ==
    {"none", "ok", "not_found", "version_conflict", "already_exists", "validation", "unexpected"}

TypeOK ==
    /\ UowTypeOK
    /\ pc \in [Requests -> Places]
    /\ command \in [Requests -> Command \cup {NoCommand}]
    /\ aggregate \in [Requests -> Aggregate \cup {NoAggregate}]
    /\ answer \in [Requests -> Answers]
    /\ issued \in SUBSET Ids
    /\ served \in 0 .. MaxRequests
    /\ approvals \in [Periods -> Nat]
    /\ departures \in [Periods -> Nat]

\* The teams and users an earlier life of the program has stored.
StoredRows(id) ==
    IF id \in StoredTeams THEN {RowOf(data, 0) : data \in TeamData}
    ELSE IF id \in StoredUsers THEN {RowOf(data, 0) : data \in UserData}
    ELSE {NoRow}

EmailsDiffer(rows) ==
    \A u, v \in StoredUsers : rows[u].key = rows[v].key => u = v

Init ==
    /\ table \in {rows \in [Ids -> UNION {StoredRows(id) : id \in Ids}] :
                    /\ \A id \in Ids : rows[id] \in StoredRows(id)
                    /\ EmailsDiffer(rows)}
    /\ pending = [r \in Requests |-> NoWrites]
    /\ active = [r \in Requests |-> FALSE]
    /\ isFailed = [r \in Requests |-> FALSE]
    /\ pc = [r \in Requests |-> "idle"]
    /\ command = [r \in Requests |-> NoCommand]
    /\ aggregate = [r \in Requests |-> NoAggregate]
    /\ answer = [r \in Requests |-> "none"]
    /\ issued = StoredTeams \cup StoredUsers
    /\ served = 0
    /\ approvals = [p \in Periods |-> 0]
    /\ departures = [p \in Periods |-> 0]

At(r, place) == pc[r] = place
GoTo(r, place) == pc' = [pc EXCEPT ![r] = place]

\* The handler takes a return statement; what is left is __aexit__.
Reply(r, result) ==
    /\ answer' = [answer EXCEPT ![r] = result]
    /\ GoTo(r, "return")

-----------------------------------------------------------------------------
(* Steps of a handler *)

\* A request with well-formed values arrives, and the handler enters its scope.
Begin(r, cmd, place) ==
    /\ At(r, "idle")
    /\ served < MaxRequests
    /\ cmd.op \in UseCasesCalled
    /\ Open(r)
    /\ served' = served + 1
    /\ command' = [command EXCEPT ![r] = cmd]
    /\ GoTo(r, place)
    /\ UNCHANGED <<answer, history>>

\* The handler makes an aggregate; its id is a fresh ULID.
Form(r, id, data) ==
    /\ id \notin issued
    /\ issued' = issued \cup {id}
    /\ aggregate' = [aggregate EXCEPT ![r] = [id |-> id, data |-> data, version |-> 0]]

CreateTeam(r, id, name) ==
    /\ Begin(r, [op |-> "create_team", id |-> id, name |-> name], "insert")
    /\ Form(r, id, [name |-> name])

UpdateTeam(r, id, name) ==
    /\ Begin(r, [op |-> "update_team", id |-> id, name |-> name], "load")
    /\ UNCHANGED <<aggregate, issued>>

GetTeam(r, id) ==
    /\ Begin(r, [op |-> "get_team", id |-> id], "load")
    /\ UNCHANGED <<aggregate, issued>>

\* The event published after the scope is in UserSignup.
CreateUser(r, id, email) ==
    /\ Begin(r, [op |-> "create_user", id |-> id, email |-> email], "insert")
    /\ Form(r, id, [email |-> email])

GetUser(r, id) ==
    /\ Begin(r, [op |-> "get_user", id |-> id], "load")
    /\ UNCHANGED <<aggregate, issued>>

JoinTeam(r, id, t, u) ==
    /\ Begin(r, [op |-> "join", id |-> id, team |-> t, user |-> u], "find_team")
    /\ Form(r, id, Joined(t, u))

RequestJoinTeam(r, id, t, u) ==
    /\ Begin(r, [op |-> "request_join", id |-> id, team |-> t, user |-> u], "find_team")
    /\ Form(r, id, JoinRequested(t, u))

ApproveJoinRequest(r, id) ==
    /\ Begin(r, [op |-> "approve", id |-> id], "load")
    /\ UNCHANGED <<aggregate, issued>>

LeaveTeam(r, id) ==
    /\ Begin(r, [op |-> "leave", id |-> id], "load")
    /\ UNCHANGED <<aggregate, issued>>

ChangeRole(r, id, role) ==
    /\ Begin(r, [op |-> "change_role", id |-> id, role |-> role], "load")
    /\ UNCHANGED <<aggregate, issued>>

Receive(r) ==
    \/ \E id \in Teams :
        \/ \E name \in Names : CreateTeam(r, id, name) \/ UpdateTeam(r, id, name)
        \/ GetTeam(r, id)
    \/ \E id \in Users :
        \/ \E email \in Emails : CreateUser(r, id, email)
        \/ GetUser(r, id)
    \/ \E id \in Periods :
        \/ \E t \in Teams, u \in Users : JoinTeam(r, id, t, u) \/ RequestJoinTeam(r, id, t, u)
        \/ ApproveJoinRequest(r, id) \/ LeaveTeam(r, id)
        \/ \E role \in Roles : ChangeRole(r, id, role)

\* get_by_id() of the team, then of the user, of a new membership.
FindTeam(r) ==
    /\ At(r, "find_team")
    /\ \/ /\ View(r, command[r].team) = NoRow
          /\ Reply(r, "not_found")
       \/ /\ View(r, command[r].team) # NoRow
          /\ GoTo(r, "find_user")
          /\ UNCHANGED answer
    /\ UNCHANGED <<database, command, aggregate, issued, served, history>>

\* Mutant: the result of the user's get_by_id() is not tested.
FindUserUntested(r) ==
    /\ At(r, "find_user")
    /\ GoTo(r, "insert")
    /\ UNCHANGED <<database, command, aggregate, answer, issued, served, history>>

FindUser(r) ==
    /\ At(r, "find_user")
    /\ \/ /\ View(r, command[r].user) = NoRow
          /\ Reply(r, "not_found")
       \/ /\ View(r, command[r].user) # NoRow
          /\ GoTo(r, "insert")
          /\ UNCHANGED answer
    /\ UNCHANGED <<database, command, aggregate, issued, served, history>>

\* get_by_id() of the aggregate a query reads or a command changes, and the
\* domain's verdict on the change.
LoadMissing(r) ==
    /\ At(r, "load")
    /\ View(r, command[r].id) = NoRow
    /\ Reply(r, "not_found")
    /\ UNCHANGED <<database, command, aggregate, issued, served, history>>

Load(r) ==
    LET row == View(r, command[r].id) IN
    /\ At(r, "load")
    /\ row # NoRow
    /\ \/ /\ command[r].op \in Reading
          /\ Reply(r, "ok")
          /\ UNCHANGED aggregate
       \/ /\ command[r].op \notin Reading
          /\ ~Permitted(command[r], row.data)
          /\ Reply(r, "validation")
          /\ UNCHANGED aggregate
       \/ /\ command[r].op \notin Reading
          /\ Permitted(command[r], row.data)
          /\ aggregate' = [aggregate EXCEPT ![r] =
                [id |-> command[r].id, data |-> ChangedData(command[r], row.data),
                 version |-> row.version]]
          /\ GoTo(r, "check")
          /\ UNCHANGED answer
    /\ UNCHANGED <<database, command, issued, served, history>>

\* The error a version check reports, found missing or found changed.
StaleResult(r) ==
    IF table[aggregate[r].id] = NoRow THEN "not_found" ELSE "version_conflict"

\* update() before its flush.
UpdateCheck(r) ==
    /\ At(r, "check")
    /\ \/ /\ VersionMatches(r, aggregate[r].id, aggregate[r].version)
          /\ GoTo(r, "update")
          /\ UNCHANGED answer
       \/ /\ ~VersionMatches(r, aggregate[r].id, aggregate[r].version)
          /\ Reply(r, StaleResult(r))
    /\ UNCHANGED <<database, command, aggregate, issued, served, history>>

\* The flushes of add() and update() that succeed.  The SELECT of add() finds
\* nothing under a fresh id, so add() is this one step.
InsertFlush(r) ==
    LET a == aggregate[r] IN
    /\ At(r, "insert")
    /\ ~KeyLocked(r, UniqueKey(a.data))
    /\ ~KeyTaken(r, a.id, UniqueKey(a.data))
    /\ Flush(r, a.id, RowOf(a.data, a.version))
    /\ GoTo(r, "commit")
    /\ UNCHANGED <<command, aggregate, answer, issued, served, history>>

UpdateFlush(r) ==
    LET a == aggregate[r] IN
    /\ At(r, "update")
    /\ ~RowLocked(r, a.id)
    /\ MatchesWhere(r, a.id, a.version)
    /\ ~KeyLocked(r, UniqueKey(a.data))
    /\ ~KeyTaken(r, a.id, UniqueKey(a.data))
    /\ Flush(r, a.id, Updated(UniqueKey(a.data), a.data, a.version))
    /\ GoTo(r, "commit")
    /\ UNCHANGED <<command, aggregate, answer, issued, served, history>>

\* StaleDataError and IntegrityError.
StaleFlush(r) ==
    LET a == aggregate[r] IN
    /\ At(r, "update")
    /\ ~RowLocked(r, a.id)
    /\ ~MatchesWhere(r, a.id, a.version)
    /\ Fail(r)
    /\ Reply(r, StaleResult(r))
    /\ UNCHANGED <<command, aggregate, issued, served, history>>

KeyConflict(r) ==
    LET a == aggregate[r] IN
    /\ pc[r] \in {"insert", "update"}
    /\ ~KeyLocked(r, UniqueKey(a.data))
    /\ KeyTaken(r, a.id, UniqueKey(a.data))
    /\ Fail(r)
    /\ Reply(r, "already_exists")
    /\ UNCHANGED <<command, aggregate, issued, served, history>>

Commit(r) ==
    /\ At(r, "commit")
    /\ CommitOk(r)
    /\ Reply(r, "ok")
    /\ UNCHANGED <<command, aggregate, issued, served, history>>

\* Failures outside the program: a statement, or the commit, raises
\* SQLAlchemyError.
StatementError(r) ==
    /\ pc[r] \in {"find_team", "find_user", "load", "check", "insert", "update"}
    /\ Fail(r)
    /\ Reply(r, "unexpected")
    /\ UNCHANGED <<command, aggregate, issued, served, history>>

CommitFails(r) ==
    /\ At(r, "commit")
    /\ CommitError(r)
    /\ Reply(r, "unexpected")
    /\ UNCHANGED <<command, aggregate, issued, served, history>>

\* The task is cancelled, or its process dies, at any await: no answer.  A
\* transaction that is still open stays so until __aexit__ rolls it back.
Cancel(r) ==
    /\ ~At(r, "idle")
    /\ \/ UNCHANGED database
       \/ At(r, "commit") /\ CommitCancelled(r)
    /\ Reply(r, "none")
    /\ UNCHANGED <<command, aggregate, issued, served, history>>

Counted(count, r, op) ==
    IF answer[r] = "ok" /\ command[r].op = op
    THEN [count EXCEPT ![command[r].id] = @ + 1]
    ELSE count

\* __aexit__, and the result goes to the caller.
Return(r) ==
    /\ At(r, "return")
    /\ Close(r)
    /\ approvals' = Counted(approvals, r, "approve")
    /\ departures' = Counted(departures, r, "leave")
    /\ GoTo(r, "idle")
    /\ command' = [command EXCEPT ![r] = NoCommand]
    /\ aggregate' = [aggregate EXCEPT ![r] = NoAggregate]
    /\ answer' = [answer EXCEPT ![r] = "none"]
    /\ UNCHANGED <<issued, served>>

\* What a handler does by itself once its database answers.
Work(r) ==
    \/ FindTeam(r) \/ FindUser(r) \/ LoadMissing(r) \/ Load(r)
    \/ UpdateCheck(r) \/ InsertFlush(r) \/ UpdateFlush(r)
    \/ StaleFlush(r) \/ KeyConflict(r) \/ Commit(r) \/ Return(r)

Trouble(r) == StatementError(r) \/ CommitFails(r) \/ Cancel(r)

\* The bound on requests is reached and all are finished: not a deadlock.
Exhausted ==
    /\ served = MaxRequests
    /\ \A r \in Requests : At(r, "idle")
    /\ UNCHANGED vars

Next ==
    \/ \E r \in Requests :
        \/ Receive(r)
        \/ Work(r)
        \/ Trouble(r)
    \/ Exhausted

Fairness == \A r \in Requests : WF_vars(Work(r))

Spec == Init /\ [][Next]_vars
FairSpec == Spec /\ Fairness

-----------------------------------------------------------------------------
(* Properties *)

Lifecycle ==
    INSTANCE MembershipLifecycle WITH
        NoPeriod <- NoRow,
        periods <- [p \in Periods |-> IF table[p] = NoRow THEN NoRow ELSE table[p].data]

\* The handlers of concurrent requests, with their checks, flushes, conflicts,
\* failures and cancellations, amount to the indivisible steps of the lifecycle.
ImplementsLifecycle == Lifecycle!LifecycleSpec

\* A period is approved at most once and left at most once among the requests
\* answered Ok, however many callers raced for it; and what was answered still
\* holds (ApproveJoinRequestHandler, LeaveTeamHandler, the optimistic lock).
OkIsFinal ==
    \A p \in Periods :
        /\ approvals[p] <= 1
        /\ departures[p] <= 1
        /\ approvals[p] = 1 => table[p] # NoRow /\ table[p].data.status # "PENDING"
        /\ departures[p] = 1 => table[p] # NoRow /\ table[p].data.status = "LEAVED"

Told(r, result) ==
    answer[r] = "none" /\ answer'[r] = result

\* A request told VERSION_CONFLICT has lost to another that did commit: the
\* optimistic lock never turns everybody away (_version_conflict_error).
ConflictsAreReal ==
    [][\A r \in Requests : Told(r, "version_conflict") =>
        table[aggregate[r].id].version > aggregate[r].version]_vars

\* A user is kept out of a team as already there only beside a current period
\* of the same user and team; after leaving, the way back is open (partial
\* index uq_team_memberships_current_period).
RejoinAllowed ==
    [][\A r \in Requests :
        Told(r, "already_exists") /\ command[r].op \in {"join", "request_join"} =>
            \E p \in Periods :
                /\ table[p] # NoRow
                /\ table[p].data.team = command[r].team
                /\ table[p].data.user = command[r].user
                /\ table[p].data.status \in {"PENDING", "ACTIVE"}]_vars

\* No foreign key guards the references of a membership: the existence checks
\* of JoinTeamHandler and RequestJoinTeamHandler must suffice.
PartiesExist ==
    \A p \in Periods : table[p] # NoRow =>
        table[table[p].data.team] # NoRow /\ table[table[p].data.user] # NoRow

\* A request waits for the locks of others, and yet every request that is
\* received is finished.
EveryRequestEnds == \A r \in Requests : pc[r] # "idle" ~> pc[r] = "idle"

=============================================================================
