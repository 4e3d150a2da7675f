--------------------------- MODULE UseCasesProofs ---------------------------
(***************************************************************************)
(* Proofs about UseCases, for any number of requests, teams, users,         *)
(* periods, names, emails and roles, whichever use cases are called.        *)
(*                                                                         *)
(* The inductive invariant says, in this order: what a request has in hand  *)
(* at each place of its handler; what rows look like; whose an id is        *)
(* before its row is committed; what a transaction has written; that an     *)
(* aggregate at its row's version was computed from that row; who holds an  *)
(* index entry; that a join has found its parties; and what an answer Ok    *)
(* tells of the row it is about.                                            *)
(***************************************************************************)
EXTENDS UseCases, TLAPS

Inserting == {"create_team", "create_user", "join", "request_join"}
Updating == {"update_team", "approve", "leave", "change_role"}
Entering == {"join", "request_join"}

\* Request r carries out one of these commands.
Doing(r, ops) == command[r] # NoCommand /\ command[r].op \in ops

InitialData(cmd) ==
    CASE cmd.op = "create_team" -> [name |-> cmd.name]
      [] cmd.op = "create_user" -> [email |-> cmd.email]
      [] cmd.op = "join" -> Joined(cmd.team, cmd.user)
      [] cmd.op = "request_join" -> JoinRequested(cmd.team, cmd.user)

\* The place of a request, its command, its aggregate and its answer agree.
WorkInOrder ==
    \A r \in Requests :
        /\ pc[r] = "idle" <=> command[r] = NoCommand
        /\ pc[r] = "idle" => aggregate[r] = NoAggregate
        /\ active[r] <=> pc[r] # "idle"
        /\ answer[r] # "none" => pc[r] = "return"
        /\ pc[r] \in {"find_team", "find_user"} => Doing(r, Entering)
        /\ pc[r] = "insert" => Doing(r, Inserting)
        /\ pc[r] = "load" => ~Doing(r, Inserting)
        /\ pc[r] \in {"check", "update"} => Doing(r, Updating) /\ aggregate[r] # NoAggregate
        /\ pc[r] = "commit" => Doing(r, Inserting \cup Updating) /\ aggregate[r] # NoAggregate
        /\ Doing(r, Inserting) =>
            aggregate[r] = [id |-> command[r].id, data |-> InitialData(command[r]), version |-> 0]
        /\ Doing(r, Updating) /\ aggregate[r] # NoAggregate => aggregate[r].id = command[r].id

\* The table a row is in.
DataOf(id) == IF id \in Teams THEN TeamData ELSE IF id \in Users THEN UserData ELSE PeriodData

Whole(id, row) == row.data \in DataOf(id) /\ row.key = UniqueKey(row.data)

RowsAreWhole == \A id \in Ids : table[id] # NoRow => Whole(id, table[id])

\* A generated id belongs to the request that generated it until it commits.
NewIsPrivate ==
    /\ \A id \in Ids \ issued :
        table[id] = NoRow /\ \A r \in Requests : Doing(r, Inserting) => command[r].id # id
    /\ \A r, s \in Requests :
        Doing(r, Inserting) /\ Doing(s, Inserting) /\ command[r].id = command[s].id => r = s
    /\ \A r \in Requests :
        Doing(r, Inserting) /\ pc[r] # "return" => table[command[r].id] = NoRow

\* A transaction writes one row, the one its command is about, as the handler
\* has computed it.
Written(r) ==
    LET a == aggregate[r] IN
    IF Doing(r, Inserting) THEN RowOf(a.data, a.version)
    ELSE Updated(UniqueKey(a.data), a.data, a.version)

WritesAreOwn ==
    \A r \in Requests :
        /\ pc[r] = "commit" => pending[r][command[r].id] # Untouched
        /\ \A id \in Ids : pending[r][id] # Untouched =>
            /\ pc[r] \in {"commit", "return"}
            /\ Doing(r, Inserting \cup Updating) /\ aggregate[r] # NoAggregate
            /\ id = command[r].id
            /\ pending[r][id] = Written(r)
            /\ Doing(r, Updating) =>
                table[id] # NoRow /\ table[id].version = aggregate[r].version

\* An aggregate is never ahead of its row; if their versions agree, the handler
\* has computed it from the row, and the domain has permitted the change.
AggregatesAreCurrent ==
    \A r \in Requests : Doing(r, Updating) /\ aggregate[r] # NoAggregate =>
        LET a == aggregate[r]
            row == table[a.id]
        IN
        /\ row # NoRow
        /\ a.version <= row.version
        /\ a.version = row.version =>
            Permitted(command[r], row.data) /\ a.data = ChangedData(command[r], row.data)

RowsExclusive ==
    \A r, s \in Requests, id \in Ids :
        pending[r][id] # Untouched /\ pending[s][id] # Untouched => r = s

\* Neither the table nor what a transaction sees has an index entry twice, and
\* no two transactions hold the same.
KeysUnique ==
    \A i, j \in Ids :
        (table[i] # NoRow /\ table[j] # NoRow /\ table[i].key = table[j].key)
            => i = j \/ table[i].key = NoKey
EntriesUnique ==
    \A r \in Requests, i, j \in Ids :
        (View(r, i) # NoRow /\ View(r, j) # NoRow /\ View(r, i).key = View(r, j).key)
            => i = j \/ View(r, i).key = NoKey
EntriesExclusive ==
    \A r, s \in Requests, k \in Keys : HoldsKey(r, k) /\ HoldsKey(s, k) => r = s
KeysInv == KeysUnique /\ EntriesUnique /\ EntriesExclusive

\* A join goes on only after it has found its team, then its user.
PartiesFound ==
    \A r \in Requests : Doing(r, Entering) =>
        /\ pc[r] \in {"find_user", "insert", "commit"} => table[command[r].team] # NoRow
        /\ pc[r] \in {"insert", "commit"} => table[command[r].user] # NoRow

\* Request r will be answered that it has done op on period p.
Answered(r, op, p) == answer[r] = "ok" /\ command[r].op = op /\ command[r].id = p

AnswersHold ==
    /\ \A r \in Requests, p \in Periods :
        /\ Answered(r, "approve", p) =>
            table[p] # NoRow /\ table[p].data.status # "PENDING" /\ approvals[p] = 0
        /\ Answered(r, "leave", p) =>
            table[p] # NoRow /\ table[p].data.status = "LEAVED" /\ departures[p] = 0
    /\ \A r, s \in Requests, p \in Periods, op \in {"approve", "leave"} :
        Answered(r, op, p) /\ Answered(s, op, p) => r = s
    /\ OkIsFinal

IInv ==
    /\ TypeOK
    /\ WorkInOrder
    /\ RowsAreWhole
    /\ NewIsPrivate
    /\ WritesAreOwn
    /\ AggregatesAreCurrent
    /\ RowsExclusive
    /\ KeysInv
    /\ PartiesFound /\ PartiesExist
    /\ AnswersHold

-----------------------------------------------------------------------------
(* Commands, data and rows *)

\* The fields of a command.
LEMMA CommandType ==
    ASSUME NEW cmd \in Command
    PROVE  /\ cmd.op \in Inserting \cup Updating \cup Reading
           /\ cmd.id \in Ids
           /\ cmd.op \in {"create_team", "update_team"} => cmd.id \in Teams /\ cmd.name \in Names
           /\ cmd.op = "create_user" => cmd.id \in Users /\ cmd.email \in Emails
           /\ cmd.op \in Entering => cmd.id \in Periods /\ cmd.team \in Teams /\ cmd.user \in Users
           /\ cmd.op \in {"approve", "leave", "change_role"} => cmd.id \in Periods
           /\ cmd.op = "change_role" => cmd.role \in Roles
           /\ cmd # NoCommand
BY NothingsAssumption
DEF Command, WriteTeamCommand, CreateUserCommand, GetCommand, EnterTeamCommand, PeriodCommand,
    ChangeRoleCommand, Inserting, Updating, Reading, Entering, Ids

\* The three tables keep different columns.
LEMMA KindsOfData ==
    /\ \A id \in Teams : DataOf(id) = TeamData
    /\ \A id \in Users : DataOf(id) = UserData
    /\ \A id \in Periods : DataOf(id) = PeriodData
    /\ \A id \in Ids : DataOf(id) \subseteq Data
    /\ UserData \cap PeriodData = {} /\ TeamData \cap PeriodData = {} /\ TeamData \cap UserData = {}
<1>1. UserData \cap PeriodData = {} /\ TeamData \cap PeriodData = {} /\ TeamData \cap UserData = {}
    <2>1. \A d \in UserData : DOMAIN d = {"email"}
        BY DEF UserData
    <2>2. \A d \in TeamData : DOMAIN d = {"name"}
        BY DEF TeamData
    <2>3. \A d \in PeriodData : "team" \in DOMAIN d
        BY DEF PeriodData
    <2>4. QED
        BY <2>1, <2>2, <2>3
<1>2. QED
    BY <1>1, DirectoryAssumption DEF DataOf, Data, Ids

\* The index entry of a row, by its table.
LEMMA EntryOf ==
    /\ \A data \in Data : UniqueKey(data) \in Keys \cup {NoKey}
    /\ \A data \in TeamData : UniqueKey(data) = NoKey
    /\ \A data \in UserData : UniqueKey(data) = <<"email", data.email>>
    /\ \A data \in PeriodData :
        UniqueKey(data) = IF data.status \in {"PENDING", "ACTIVE"} THEN <<data.team, data.user>>
                          ELSE NoKey
<1>1. \A data \in UserData : <<"email", data.email>> \in Keys
    BY DEF UserData, Keys, EmailKeys
<1>2. \A data \in PeriodData : <<data.team, data.user>> \in Keys
    BY DEF PeriodData, Keys
<1>3. QED
    BY <1>1, <1>2, KindsOfData DEF UniqueKey, Data

LEMMA RowOfType ==
    ASSUME NEW id \in Ids, NEW data \in DataOf(id), NEW version \in Nat
    PROVE  /\ RowOf(data, version) \in Row
           /\ Updated(UniqueKey(data), data, version) \in Row
           /\ Whole(id, RowOf(data, version))
           /\ Whole(id, Updated(UniqueKey(data), data, version))
           /\ RowOf(data, version).version = version
           /\ Updated(UniqueKey(data), data, version).version = version + 1
<1>1. data \in Data /\ UniqueKey(data) \in Keys \cup {NoKey}
    BY KindsOfData, EntryOf
<1>2. QED
    BY <1>1 DEF RowOf, Updated, Row, Whole

\* A new aggregate has the columns of its table.
LEMMA InitialDataType ==
    ASSUME NEW cmd \in Command, cmd.op \in Inserting
    PROVE  InitialData(cmd) \in DataOf(cmd.id)
BY CommandType, KindsOfData, DirectoryAssumption
DEF InitialData, Joined, JoinRequested, TeamData, UserData, PeriodData, Inserting, Entering

\* So has a changed one; a period keeps its team and user.
LEMMA ChangedDataType ==
    ASSUME NEW cmd \in Command, cmd.op \in Updating, NEW data \in DataOf(cmd.id)
    PROVE  /\ ChangedData(cmd, data) \in DataOf(cmd.id)
           /\ cmd.id \in Periods =>
                /\ ChangedData(cmd, data).team = data.team
                /\ ChangedData(cmd, data).user = data.user
<1>1. CASE cmd.op = "update_team"
    <2>1. cmd.id \in Teams /\ cmd.id \notin Periods /\ data \in TeamData /\ cmd.name \in Names
        BY <1>1, CommandType, KindsOfData, DirectoryAssumption
    <2>2. ChangedData(cmd, data) = [data EXCEPT !.name = cmd.name]
        BY <1>1 DEF ChangedData
    <2>3. QED
        BY <2>1, <2>2, KindsOfData DEF TeamData
<1>2. CASE cmd.op # "update_team"
    <2>1. cmd.id \in Periods /\ data \in PeriodData
        BY <1>2, CommandType, KindsOfData DEF Updating
    <2>2. \/ ChangedData(cmd, data) = [data EXCEPT !.status = "ACTIVE"]
          \/ ChangedData(cmd, data) = [data EXCEPT !.status = "LEAVED"]
          \/ cmd.role \in Roles /\ ChangedData(cmd, data) = [data EXCEPT !.role = cmd.role]
        BY <1>2, CommandType DEF ChangedData, Updating
    <2>3. QED
        BY <2>1, <2>2, KindsOfData DEF PeriodData
<1>3. QED
    BY <1>1, <1>2

-----------------------------------------------------------------------------
(* The steps, sorted by what they change *)

\* A command arrives; the handler makes its aggregate, or has none yet.
Receives(r, cmd) ==
    /\ pc[r] = "idle" /\ served < MaxRequests
    /\ Open(r)
    /\ served' = served + 1
    /\ command' = [command EXCEPT ![r] = cmd]
    /\ \/ /\ cmd.op \in Inserting
          /\ pc' = [pc EXCEPT ![r] = IF cmd.op \in Entering THEN "find_team" ELSE "insert"]
          /\ cmd.id \notin issued
          /\ issued' = issued \cup {cmd.id}
          /\ aggregate' = [aggregate EXCEPT ![r] =
                [id |-> cmd.id, data |-> InitialData(cmd), version |-> 0]]
       \/ /\ cmd.op \notin Inserting
          /\ pc' = [pc EXCEPT ![r] = "load"]
          /\ UNCHANGED <<aggregate, issued>>
    /\ UNCHANGED <<answer, history>>

\* A statement fails; the Session rolls back, and the answer is an error.
FailsWith(r, result) ==
    /\ Fail(r)
    /\ Reply(r, result)
    /\ UNCHANGED <<command, aggregate, issued, served, history>>

\* The handler goes on, or has its answer, without touching the database.
Proceeds(r, place, result) ==
    /\ pc' = [pc EXCEPT ![r] = place]
    /\ answer' = [answer EXCEPT ![r] = result]
    /\ UNCHANGED <<database, command, aggregate, issued, served, history>>

LEMMA CommandsReceived ==
    ASSUME NEW r \in Requests, Receive(r)
    PROVE  \E cmd \in Command : Receives(r, cmd)
<1>. USE DEF Receives, Begin, At, GoTo, Inserting, Entering
<1>1. CASE \E id \in Teams, name \in Names : CreateTeam(r, id, name)
    <2>1. PICK id \in Teams, name \in Names : CreateTeam(r, id, name)
        BY <1>1
    <2>. DEFINE cmd == [op |-> "create_team", id |-> id, name |-> name]
    <2>2. cmd \in Command /\ InitialData(cmd) = [name |-> name]
        BY DEF Command, WriteTeamCommand, InitialData
    <2>3. Receives(r, cmd)
        BY <2>1, <2>2 DEF CreateTeam, Form
    <2>4. QED
        BY <2>2, <2>3
<1>2. CASE \E id \in Users, email \in Emails : CreateUser(r, id, email)
    <2>1. PICK id \in Users, email \in Emails : CreateUser(r, id, email)
        BY <1>2
    <2>. DEFINE cmd == [op |-> "create_user", id |-> id, email |-> email]
    <2>2. cmd \in Command /\ InitialData(cmd) = [email |-> email]
        BY DEF Command, CreateUserCommand, InitialData
    <2>3. Receives(r, cmd)
        BY <2>1, <2>2 DEF CreateUser, Form
    <2>4. QED
        BY <2>2, <2>3
<1>3. CASE \E id \in Periods, t \in Teams, u \in Users : JoinTeam(r, id, t, u)
    <2>1. PICK id \in Periods, t \in Teams, u \in Users : JoinTeam(r, id, t, u)
        BY <1>3
    <2>. DEFINE cmd == [op |-> "join", id |-> id, team |-> t, user |-> u]
    <2>2. cmd \in Command /\ InitialData(cmd) = Joined(t, u)
        BY DEF Command, EnterTeamCommand, InitialData
    <2>3. Receives(r, cmd)
        BY <2>1, <2>2 DEF JoinTeam, Form
    <2>4. QED
        BY <2>2, <2>3
<1>4. CASE \E id \in Periods, t \in Teams, u \in Users : RequestJoinTeam(r, id, t, u)
    <2>1. PICK id \in Periods, t \in Teams, u \in Users : RequestJoinTeam(r, id, t, u)
        BY <1>4
    <2>. DEFINE cmd == [op |-> "request_join", id |-> id, team |-> t, user |-> u]
    <2>2. cmd \in Command /\ InitialData(cmd) = JoinRequested(t, u)
        BY DEF Command, EnterTeamCommand, InitialData
    <2>3. Receives(r, cmd)
        BY <2>1, <2>2 DEF RequestJoinTeam, Form
    <2>4. QED
        BY <2>2, <2>3
<1>5. CASE \E id \in Teams, name \in Names : UpdateTeam(r, id, name)
    <2>1. PICK id \in Teams, name \in Names : UpdateTeam(r, id, name)
        BY <1>5
    <2>. DEFINE cmd == [op |-> "update_team", id |-> id, name |-> name]
    <2>2. cmd \in Command
        BY DEF Command, WriteTeamCommand
    <2>3. Receives(r, cmd)
        BY <2>1 DEF UpdateTeam
    <2>4. QED
        BY <2>2, <2>3
<1>6. CASE \E id \in Periods, role \in Roles : ChangeRole(r, id, role)
    <2>1. PICK id \in Periods, role \in Roles : ChangeRole(r, id, role)
        BY <1>6
    <2>. DEFINE cmd == [op |-> "change_role", id |-> id, role |-> role]
    <2>2. cmd \in Command
        BY DEF Command, ChangeRoleCommand
    <2>3. Receives(r, cmd)
        BY <2>1 DEF ChangeRole
    <2>4. QED
        BY <2>2, <2>3
<1>7. CASE \/ \E id \in Teams : GetTeam(r, id)
           \/ \E id \in Users : GetUser(r, id)
           \/ \E id \in Periods : ApproveJoinRequest(r, id) \/ LeaveTeam(r, id)
    <2>1. PICK id \in Ids, op \in {"get_team", "get_user", "approve", "leave"} :
            /\ [op |-> op, id |-> id] \in Command
            /\ Begin(r, [op |-> op, id |-> id], "load")
            /\ UNCHANGED <<aggregate, issued>>
        BY <1>7 DEF GetTeam, GetUser, ApproveJoinRequest, LeaveTeam, Command, GetCommand,
                    PeriodCommand, Ids
    <2>2. Receives(r, [op |-> op, id |-> id])
        BY <2>1
    <2>3. QED
        BY <2>1, <2>2
<1>8. QED
    BY <1>1, <1>2, <1>3, <1>4, <1>5, <1>6, <1>7 DEF Receive

\* The handler has its answer; Ok without a commit is for queries.
Responds(r, result) ==
    /\ pc[r] # "idle"
    /\ Proceeds(r, "return", result)
    /\ result = "ok" => Doing(r, Reading)

\* A check has succeeded.
Passes(r, place) ==
    /\ Proceeds(r, place, "none")
    /\ \/ pc[r] = "find_team" /\ place = "find_user" /\ View(r, command[r].team) # NoRow
       \/ pc[r] = "find_user" /\ place = "insert" /\ View(r, command[r].user) # NoRow
       \/ pc[r] = "check" /\ place = "update"

\* The row is loaded, and the domain permits the change.
Loads(r) ==
    LET row == View(r, command[r].id) IN
    /\ pc[r] = "load" /\ command[r].op \notin Reading
    /\ row # NoRow
    /\ Permitted(command[r], row.data)
    /\ aggregate' = [aggregate EXCEPT ![r] =
            [id |-> command[r].id, data |-> ChangedData(command[r], row.data),
             version |-> row.version]]
    /\ pc' = [pc EXCEPT ![r] = "check"]
    /\ UNCHANGED <<database, command, answer, issued, served, history>>

\* The commit ends in an error or is cancelled.
EndsUnknown(r, result) ==
    /\ pc[r] = "commit"
    /\ CommitError(r) \/ CommitCancelled(r)
    /\ Reply(r, result)
    /\ UNCHANGED <<command, aggregate, issued, served, history>>

LEMMA StepCases ==
    ASSUME TypeOK, WorkInOrder, NEW r \in Requests, Receive(r) \/ Work(r) \/ Trouble(r)
    PROVE  \/ \E cmd \in Command : Receives(r, cmd)
           \/ \E result \in Answers : Responds(r, result)
           \/ \E place \in {"find_user", "insert", "update"} : Passes(r, place)
           \/ Loads(r)
           \/ InsertFlush(r) \/ UpdateFlush(r)
           \/ \E result \in {"not_found", "version_conflict", "already_exists", "unexpected"} :
                FailsWith(r, result) /\ pc[r] \notin {"idle", "commit", "return"}
           \/ Commit(r)
           \/ \E result \in {"unexpected", "none"} : EndsUnknown(r, result)
           \/ Return(r)
<1>1. ASSUME pc[r] \in Places \ {"return"}
      PROVE  answer = [answer EXCEPT ![r] = "none"]
    BY <1>1 DEF TypeOK, WorkInOrder
<1>2. CASE FindTeam(r)
    <2>1. CASE View(r, command[r].team) = NoRow
        BY <1>2, <2>1 DEF FindTeam, Responds, Proceeds, Reply, GoTo, At, Answers
    <2>2. CASE View(r, command[r].team) # NoRow
        BY <1>1, <1>2, <2>2 DEF FindTeam, Passes, Proceeds, GoTo, At, Places
    <2>3. QED
        BY <2>1, <2>2
<1>3. CASE FindUser(r)
    <2>1. CASE View(r, command[r].user) = NoRow
        BY <1>3, <2>1 DEF FindUser, Responds, Proceeds, Reply, GoTo, At, Answers
    <2>2. CASE View(r, command[r].user) # NoRow
        BY <1>1, <1>3, <2>2 DEF FindUser, Passes, Proceeds, GoTo, At, Places
    <2>3. QED
        BY <2>1, <2>2
<1>4. CASE LoadMissing(r)
    BY <1>4 DEF LoadMissing, Responds, Proceeds, Reply, GoTo, At, Answers
<1>5. CASE Load(r)
    <2>1. command[r] # NoCommand
        BY <1>5 DEF Load, At, WorkInOrder
    <2>2. CASE command[r].op \in Reading
        BY <1>5, <2>1, <2>2 DEF Load, Responds, Proceeds, Reply, GoTo, At, Answers, Doing
    <2>3. CASE command[r].op \notin Reading /\ ~Permitted(command[r], View(r, command[r].id).data)
        BY <1>5, <2>3 DEF Load, Responds, Proceeds, Reply, GoTo, At, Answers
    <2>4. CASE command[r].op \notin Reading /\ Permitted(command[r], View(r, command[r].id).data)
        BY <1>5, <2>4 DEF Load, Loads, GoTo, At
    <2>5. QED
        BY <2>2, <2>3, <2>4
<1>6. CASE UpdateCheck(r)
    <2>1. CASE VersionMatches(r, aggregate[r].id, aggregate[r].version)
        BY <1>1, <1>6, <2>1 DEF UpdateCheck, Passes, Proceeds, GoTo, At, Places
    <2>2. CASE ~VersionMatches(r, aggregate[r].id, aggregate[r].version)
        BY <1>6, <2>2
        DEF UpdateCheck, StaleResult, Responds, Proceeds, Reply, GoTo, At, Answers
    <2>3. QED
        BY <2>1, <2>2
<1>7. CASE StaleFlush(r)
    BY <1>7 DEF StaleFlush, StaleResult, FailsWith, At
<1>8. CASE KeyConflict(r)
    BY <1>8 DEF KeyConflict, FailsWith
<1>9. CASE StatementError(r)
    BY <1>9 DEF StatementError, FailsWith
<1>10. CASE CommitFails(r)
    BY <1>10 DEF CommitFails, EndsUnknown, At
<1>11. CASE Cancel(r)
    <2>1. CASE UNCHANGED database
        BY <1>11, <2>1 DEF Cancel, Responds, Proceeds, Reply, GoTo, At, Answers
    <2>2. CASE At(r, "commit") /\ CommitCancelled(r)
        BY <1>11, <2>2 DEF Cancel, EndsUnknown, At
    <2>3. QED
        BY <1>11, <2>1, <2>2 DEF Cancel
<1>12. QED
    BY <1>2, <1>3, <1>4, <1>5, <1>6, <1>7, <1>8, <1>9, <1>10, <1>11, CommandsReceived
    DEF Work, Trouble

-----------------------------------------------------------------------------
(* What the invariant says at the places where it is used *)

\* Until the flush of its one write a request sees the committed rows.
LEMMA ViewBeforeWrite ==
    ASSUME IInv, NEW r \in Requests, pc[r] \notin {"commit", "return"}, NEW id \in Ids
    PROVE  pending[r][id] = Untouched /\ View(r, id) = table[id]
BY DEF IInv, WritesAreOwn, View

LEMMA CommandInHand ==
    ASSUME IInv, NEW r \in Requests, command[r] # NoCommand
    PROVE  command[r] \in Command /\ command[r].id \in Ids
BY CommandType DEF IInv, TypeOK

\* The aggregate in hand is the one the command is about; a new one is as the
\* command has it.
LEMMA AggregateOfCommand ==
    ASSUME IInv, NEW r \in Requests
    PROVE  /\ Doing(r, Inserting) =>
                /\ aggregate[r].id = command[r].id
                /\ aggregate[r].data = InitialData(command[r])
                /\ aggregate[r].version = 0
           /\ Doing(r, Updating) /\ aggregate[r] # NoAggregate =>
                aggregate[r].id = command[r].id
<1>1. CASE Doing(r, Inserting)
    <2>1. aggregate[r] = [id |-> command[r].id, data |-> InitialData(command[r]), version |-> 0]
        BY <1>1 DEF IInv, WorkInOrder
    <2>2. ~Doing(r, Updating)
        BY <1>1 DEF Doing, Inserting, Updating
    <2>3. QED
        BY <2>1, <2>2
<1>2. CASE ~Doing(r, Inserting)
    BY <1>2 DEF IInv, WorkInOrder
<1>3. QED
    BY <1>1, <1>2

\* The aggregate a request is about to write.
LEMMA AggregateInHand ==
    ASSUME IInv, NEW r \in Requests, aggregate[r] # NoAggregate,
           \/ Doing(r, Inserting)
           \/ Doing(r, Updating) /\ aggregate[r].version = table[aggregate[r].id].version
    PROVE  /\ aggregate[r].id = command[r].id
           /\ aggregate[r].id \in Ids
           /\ aggregate[r].version \in Nat
           /\ aggregate[r].data \in DataOf(aggregate[r].id)
           /\ Written(r) \in Row
           /\ Whole(aggregate[r].id, Written(r))
           /\ Written(r).data = aggregate[r].data
<1>. DEFINE a == aggregate[r]
<1>1. command[r] \in Command /\ a.id = command[r].id /\ a.id \in Ids
    BY CommandInHand, AggregateOfCommand DEF Doing
<1>2. a \in Aggregate
    BY DEF IInv, TypeOK
<1>3. a.version \in Nat
    BY <1>2 DEF Aggregate
<1>4. a.data \in DataOf(a.id)
    <2>1. CASE Doing(r, Inserting)
        BY <1>1, <2>1, InitialDataType, AggregateOfCommand DEF Doing
    <2>2. CASE Doing(r, Updating) /\ a.version = table[a.id].version
        <3>1. table[a.id] # NoRow /\ a.data = ChangedData(command[r], table[a.id].data)
            BY <2>2 DEF IInv, AggregatesAreCurrent
        <3>2. table[a.id].data \in DataOf(a.id)
            BY <1>1, <3>1 DEF IInv, RowsAreWhole, Whole
        <3>3. QED
            BY <1>1, <2>2, <3>1, <3>2, ChangedDataType DEF Doing
    <2>3. QED
        BY <2>1, <2>2
<1>5. QED
    BY <1>1, <1>3, <1>4, RowOfType DEF Written, RowOf, Updated

\* A write that has been flushed is of that kind.
LEMMA WriteInHand ==
    ASSUME IInv, NEW r \in Requests, NEW id \in Ids, pending[r][id] # Untouched
    PROVE  /\ aggregate[r] # NoAggregate /\ aggregate[r].id = id /\ command[r].id = id
           /\ pending[r][id] = Written(r)
           /\ pending[r][id] \in Row
           /\ Whole(id, pending[r][id])
           /\ pending[r][id].data = aggregate[r].data
           /\ Doing(r, Inserting) \/ (Doing(r, Updating) /\ table[id] # NoRow
                /\ table[id].version = aggregate[r].version)
<1>1. /\ Doing(r, Inserting \cup Updating) /\ aggregate[r] # NoAggregate
      /\ id = command[r].id
      /\ pending[r][id] = Written(r)
      /\ Doing(r, Updating) => table[id] # NoRow /\ table[id].version = aggregate[r].version
    BY DEF IInv, WritesAreOwn
<1>2. Doing(r, Inserting) \/ Doing(r, Updating)
    BY <1>1 DEF Doing
<1>3. aggregate[r].id = id
    BY <1>1, <1>2, AggregateOfCommand
<1>4. QED
    BY <1>1, <1>2, <1>3, AggregateInHand

EndsTransaction(r) ==
    /\ table' \in {table, Merged(r)}
    /\ pending' = [pending EXCEPT ![r] = NoWrites]

FlushesRow(r, id, row) ==
    /\ pending' = [pending EXCEPT ![r][id] = row]
    /\ UNCHANGED table
    /\ ~KeyLocked(r, row.key) /\ ~KeyTaken(r, id, row.key)

\* The two flushes that succeed, as far as they agree.
FlushesAggregate(r) ==
    /\ pc[r] \in {"insert", "update"}
    /\ aggregate[r] # NoAggregate /\ aggregate[r].id = command[r].id /\ aggregate[r].id \in Ids
    /\ Written(r) \in Row /\ Whole(aggregate[r].id, Written(r))
    /\ FlushesRow(r, aggregate[r].id, Written(r))
    /\ \/ Doing(r, Inserting) /\ table[aggregate[r].id] = NoRow
       \/ Doing(r, Updating) /\ ~RowLocked(r, aggregate[r].id)
            /\ table[aggregate[r].id] # NoRow
            /\ table[aggregate[r].id].version = aggregate[r].version
    /\ pc' = [pc EXCEPT ![r] = "commit"]
    /\ UNCHANGED <<active, isFailed, command, aggregate, answer, issued, served, history>>

LEMMA FlushSteps ==
    ASSUME IInv, NEW r \in Requests, InsertFlush(r) \/ UpdateFlush(r)
    PROVE  FlushesAggregate(r)
<1>. DEFINE a == aggregate[r]
<1>1. CASE InsertFlush(r)
    <2>1. pc[r] = "insert" /\ Doing(r, Inserting)
        BY <1>1 DEF InsertFlush, At, IInv, WorkInOrder
    <2>2. a # NoAggregate
        <3>1. /\ command[r] \in Command /\ command[r].id \in Ids
              /\ InitialData(command[r]) \in Data
              /\ a = [id |-> command[r].id, data |-> InitialData(command[r]), version |-> 0]
            BY <2>1, CommandInHand, InitialDataType, KindsOfData DEF IInv, WorkInOrder, Doing
        <3>2. a \in Aggregate
            BY <3>1 DEF Aggregate
        <3>3. QED
            BY <3>2, NothingsAssumption
    <2>3. /\ a.id = command[r].id /\ a.id \in Ids
          /\ Written(r) \in Row /\ Whole(a.id, Written(r))
        BY <2>1, <2>2, AggregateInHand
    <2>4. Written(r) = RowOf(a.data, a.version) /\ Written(r).key = UniqueKey(a.data)
        BY <2>1 DEF Written, RowOf
    <2>5. table[a.id] = NoRow
        BY <2>1, <2>3 DEF IInv, NewIsPrivate
    <2>6. FlushesRow(r, a.id, Written(r))
        BY <1>1, <2>4 DEF InsertFlush, Flush, FlushesRow
    <2>7. QED
        BY <1>1, <2>1, <2>2, <2>3, <2>5, <2>6 DEF InsertFlush, Flush, FlushesAggregate, GoTo
<1>2. CASE UpdateFlush(r)
    <2>1. pc[r] = "update" /\ Doing(r, Updating) /\ a # NoAggregate
        BY <1>2 DEF UpdateFlush, At, IInv, WorkInOrder
    <2>2. a.id = command[r].id /\ a.id \in Ids
        BY <2>1, CommandInHand DEF IInv, WorkInOrder, Doing
    <2>3. table[a.id] # NoRow /\ table[a.id].version = a.version
        BY <1>2, <2>1, <2>2, ViewBeforeWrite DEF UpdateFlush, MatchesWhere
    <2>4. Written(r) \in Row /\ Whole(a.id, Written(r))
        BY <2>1, <2>3, AggregateInHand
    <2>5. ~Doing(r, Inserting)
        BY <2>1 DEF Doing, Inserting, Updating
    <2>6. Written(r) = Updated(UniqueKey(a.data), a.data, a.version)
          /\ Written(r).key = UniqueKey(a.data)
        BY <2>5 DEF Written, Updated
    <2>7. FlushesRow(r, a.id, Written(r))
        BY <1>2, <2>6 DEF UpdateFlush, Flush, FlushesRow
    <2>8. QED
        BY <1>2, <2>1, <2>2, <2>3, <2>4, <2>7 DEF UpdateFlush, Flush, FlushesAggregate, GoTo
<1>3. QED
    BY <1>1, <1>2

-----------------------------------------------------------------------------
(* Types *)

LEMMA MergedType ==
    ASSUME UowTypeOK, NEW r \in Requests
    PROVE  Merged(r) \in [Ids -> Row \cup {NoRow}]
BY NothingsAssumption DEF UowTypeOK, Merged, View

LEMMA NoWritesType == NoWrites \in [Ids -> Row \cup {NoRow, Untouched}]
BY DEF NoWrites

\* What a handler has in hand after it has loaded the row of its command.
LEMMA LoadedAggregate ==
    ASSUME IInv, NEW r \in Requests, Loads(r)
    PROVE  /\ command[r] \in Command /\ command[r].op \in Updating /\ command[r].id \in Ids
           /\ table[command[r].id] # NoRow
           /\ Permitted(command[r], table[command[r].id].data)
           /\ \E a \in Aggregate :
                /\ a = [id |-> command[r].id,
                        data |-> ChangedData(command[r], table[command[r].id].data),
                        version |-> table[command[r].id].version]
                /\ aggregate' = [aggregate EXCEPT ![r] = a]
<1>. DEFINE row == table[command[r].id]
            a == [id |-> command[r].id, data |-> ChangedData(command[r], row.data),
                  version |-> row.version]
<1>1. command[r] \in Command /\ command[r].op \in Updating /\ command[r].id \in Ids
    <2>1. command[r] # NoCommand /\ ~Doing(r, Inserting) /\ command[r].op \notin Reading
        BY DEF Loads, IInv, WorkInOrder
    <2>2. QED
        BY <2>1, CommandInHand, CommandType DEF Doing
<1>2. row = View(r, command[r].id)
    BY <1>1, ViewBeforeWrite DEF Loads
<1>3. row # NoRow /\ Permitted(command[r], row.data) /\ aggregate' = [aggregate EXCEPT ![r] = a]
    BY <1>2 DEF Loads
<1>4. row \in Row /\ row.data \in DataOf(command[r].id)
    BY <1>1, <1>3 DEF IInv, RowsAreWhole, Whole, TypeOK, UowTypeOK
<1>5. ChangedData(command[r], row.data) \in Data /\ row.version \in Nat
    BY <1>1, <1>4, ChangedDataType, KindsOfData DEF Row
<1>6. a \in Aggregate
    BY <1>1, <1>5 DEF Aggregate
<1>7. QED
    BY <1>1, <1>3, <1>6

LEMMA CountedType ==
    ASSUME NEW r \in Requests, NEW op, NEW count \in [Periods -> Nat]
    PROVE  Counted(count, r, op) \in [Periods -> Nat]
<1>. DEFINE p == command[r].id
<1>1. CASE p \in Periods
    <2>1. count[p] + 1 \in Nat
        BY <1>1
    <2>. HIDE DEF p
    <2>2. [count EXCEPT ![p] = @ + 1] \in [Periods -> Nat]
        BY <1>1, <2>1
    <2>. USE DEF p
    <2>3. QED
        BY <2>2 DEF Counted
<1>2. CASE p \notin Periods
    <2>. HIDE DEF p
    <2>1. [count EXCEPT ![p] = @ + 1] \in [Periods -> Nat]
        BY <1>2
    <2>. USE DEF p
    <2>2. QED
        BY <2>1 DEF Counted
<1>3. QED
    BY <1>1, <1>2

LEMMA StepKeepsType ==
    ASSUME IInv, NEW r \in Requests, Receive(r) \/ Work(r) \/ Trouble(r)
    PROVE  TypeOK'
<1>. USE DEF TypeOK, Places, Answers
<1>0. TypeOK /\ UowTypeOK
    BY DEF IInv
<1>1. CASE \E cmd \in Command : Receives(r, cmd)
    <2>1. PICK cmd \in Command : Receives(r, cmd)
        BY <1>1
    <2>2. cmd.id \in Ids
        BY CommandType
    <2>3. UowTypeOK'
        BY <1>0, <2>1 DEF Receives, Open, UowTypeOK
    <2>4. served' \in 0 .. MaxRequests
        BY <1>0, <2>1, DirectoryAssumption DEF Receives
    <2>5. issued' \in SUBSET Ids /\ pc' \in [Requests -> Places]
        BY <1>0, <2>1, <2>2 DEF Receives
    <2>6. aggregate' \in [Requests -> Aggregate \cup {NoAggregate}]
        <3>1. CASE cmd.op \in Inserting
            <4>. DEFINE a == [id |-> cmd.id, data |-> InitialData(cmd), version |-> 0]
            <4>1. InitialData(cmd) \in Data
                BY <2>2, <3>1, InitialDataType, KindsOfData
            <4>2. a \in Aggregate
                BY <2>2, <4>1 DEF Aggregate
            <4>3. aggregate' = [aggregate EXCEPT ![r] = a]
                BY <2>1, <3>1 DEF Receives
            <4>. HIDE DEF a
            <4>4. QED
                BY <1>0, <4>2, <4>3
        <3>2. CASE cmd.op \notin Inserting
            BY <1>0, <2>1, <3>2 DEF Receives
        <3>3. QED
            BY <3>1, <3>2
    <2>7. QED
        BY <1>0, <2>1, <2>3, <2>4, <2>5, <2>6 DEF Receives, history
<1>2. CASE \/ \E result \in Answers : Responds(r, result)
           \/ \E place \in {"find_user", "insert", "update"} : Passes(r, place)
    <2>1. PICK place \in Places, result \in Answers : Proceeds(r, place, result)
        BY <1>2 DEF Responds, Passes
    <2>2. UNCHANGED <<database, command, aggregate, issued, served, history>>
        BY <2>1 DEF Proceeds
    <2>3. pc' \in [Requests -> Places] /\ answer' \in [Requests -> Answers]
        BY <1>0, <2>1 DEF Proceeds
    <2>4. QED
        BY <1>0, <2>2, <2>3 DEF database, history, UowTypeOK
<1>3. CASE Loads(r)
    <2>1. aggregate' \in [Requests -> Aggregate \cup {NoAggregate}]
        BY <1>0, <1>3, LoadedAggregate
    <2>2. QED
        BY <1>0, <1>3, <2>1 DEF Loads, database, history, UowTypeOK
<1>4. CASE InsertFlush(r) \/ UpdateFlush(r)
    <2>1. FlushesAggregate(r)
        BY <1>4, FlushSteps
    <2>. DEFINE row == Written(r)
    <2>2. /\ row \in Row /\ aggregate[r].id \in Ids
          /\ pending' = [pending EXCEPT ![r][aggregate[r].id] = row]
        BY <2>1 DEF FlushesAggregate, FlushesRow
    <2>. HIDE DEF row
    <2>3. UowTypeOK'
        BY <1>0, <2>1, <2>2 DEF FlushesAggregate, FlushesRow, UowTypeOK
    <2>4. QED
        BY <1>0, <2>1, <2>3 DEF FlushesAggregate, history
<1>5. CASE \E result \in {"not_found", "version_conflict", "already_exists", "unexpected"} :
            FailsWith(r, result)
    BY <1>0, <1>5, NoWritesType DEF FailsWith, Fail, Reply, GoTo, history, UowTypeOK
<1>6. CASE Commit(r) \/ \E result \in {"unexpected", "none"} : EndsUnknown(r, result)
    <2>1. EndsTransaction(r) /\ isFailed' \in {isFailed, [isFailed EXCEPT ![r] = TRUE]}
          /\ UNCHANGED <<active, command, aggregate, issued, served, history>>
          /\ \E result \in Answers : Reply(r, result)
        BY <1>6
        DEF Commit, CommitOk, EndsUnknown, CommitError, CommitCancelled, EndsTransaction, Answers
    <2>2. table' \in [Ids -> Row \cup {NoRow}]
        BY <1>0, <2>1, MergedType DEF EndsTransaction, UowTypeOK
    <2>3. UowTypeOK'
        BY <1>0, <2>1, <2>2, NoWritesType DEF EndsTransaction, UowTypeOK
    <2>4. QED
        BY <1>0, <2>1, <2>3 DEF Reply, GoTo, history
<1>7. CASE Return(r)
    <2>1. approvals' \in [Periods -> Nat] /\ departures' \in [Periods -> Nat]
        BY <1>0, <1>7, CountedType DEF Return
    <2>2. QED
        BY <1>0, <1>7, <2>1, NoWritesType DEF Return, Close, GoTo, UowTypeOK
<1>8. QED
    BY <1>1, <1>2, <1>3, <1>4, <1>5, <1>6, <1>7, StepCases DEF IInv


-----------------------------------------------------------------------------
(* The shapes of a step *)

\* The commit has answered, failed or been cancelled.
Ends(r) ==
    /\ pc[r] = "commit"
    /\ EndsTransaction(r)
    /\ \E result \in {"ok", "unexpected", "none"} :
        Reply(r, result) /\ (result = "ok" => table' = Merged(r))
    /\ UNCHANGED <<active, command, aggregate, issued, served, history>>

Step(r) == Receive(r) \/ Work(r) \/ Trouble(r)

LEMMA StepShapes ==
    ASSUME IInv, NEW r \in Requests, Step(r)
    PROVE  \/ \E cmd \in Command : Receives(r, cmd)
           \/ \E result \in Answers : Responds(r, result)
           \/ \E place \in {"find_user", "insert", "update"} : Passes(r, place)
           \/ Loads(r)
           \/ FlushesAggregate(r)
           \/ \E result \in {"not_found", "version_conflict", "already_exists", "unexpected"} :
                FailsWith(r, result) /\ pc[r] \notin {"idle", "commit", "return"}
           \/ Ends(r)
           \/ Return(r)
<1>1. ASSUME Commit(r) \/ \E result \in {"unexpected", "none"} : EndsUnknown(r, result)
      PROVE  Ends(r)
    BY <1>1
    DEF Commit, CommitOk, EndsUnknown, CommitError, CommitCancelled, EndsTransaction, Ends, At
<1>2. QED
    BY <1>1, StepCases, FlushSteps DEF IInv, Step

\* Only the end of a transaction changes the table, and only in the row that the
\* request's command is about.
LEMMA TableSteps ==
    ASSUME IInv, NEW r \in Requests, Step(r)
    PROVE  /\ table' # table => Ends(r)
           /\ \A id \in Ids :
                \/ table'[id] = table[id]
                \/ /\ Ends(r) /\ pending[r][id] # Untouched
                   /\ table'[id] = pending[r][id] /\ table'[id] # NoRow
                   /\ id = command[r].id
<1>1. CASE Ends(r)
    <2>1. \A id \in Ids : table'[id] \in {table[id], View(r, id)}
        BY <1>1 DEF Ends, EndsTransaction, Merged
    <2>2. \A id \in Ids : pending[r][id] # Untouched =>
            pending[r][id] # NoRow /\ id = command[r].id
        BY WriteInHand, NothingsAssumption
    <2>3. QED
        BY <1>1, <2>1, <2>2 DEF View
<1>2. CASE ~Ends(r)
    <2>1. UNCHANGED table
        BY <1>2, StepShapes
        DEF Receives, Open, Responds, Passes, Proceeds, Loads, FlushesAggregate, FlushesRow,
            FailsWith, Fail, Return, Close, database
    <2>2. QED
        BY <2>1
<1>3. QED
    BY <1>1, <1>2

-----------------------------------------------------------------------------
(* The places of a handler *)

LEMMA StepKeepsWorkInOrder ==
    ASSUME IInv, NEW r \in Requests, Step(r)
    PROVE  WorkInOrder'
<1>. USE DEF WorkInOrder, Doing
<1>0. WorkInOrder /\ TypeOK /\ UowTypeOK
    BY DEF IInv, TypeOK
<1>1. CASE \E cmd \in Command : Receives(r, cmd)
    <2>1. PICK cmd \in Command : Receives(r, cmd)
        BY <1>1
    <2>2. /\ cmd # NoCommand
          /\ cmd.op \in Inserting \/ cmd.op \in Updating \/ cmd.op \in Reading
          /\ cmd.op \in Entering => cmd.op \in Inserting
          /\ ~(cmd.op \in Inserting /\ cmd.op \in Updating)
        BY CommandType DEF Entering, Inserting, Updating
    <2>3. answer[r] = "none" /\ (cmd.op \notin Inserting => aggregate'[r] = aggregate[r])
        BY <1>0, <2>1 DEF Receives
    <2>4. \A s \in Requests \ {r} :
            /\ pc'[s] = pc[s] /\ command'[s] = command[s] /\ aggregate'[s] = aggregate[s]
            /\ answer'[s] = answer[s] /\ active'[s] = active[s]
        BY <1>0, <2>1 DEF Receives, Open, TypeOK, UowTypeOK
    <2>5. command'[r] = cmd /\ active'[r] = TRUE /\ answer'[r] = "none"
        BY <1>0, <2>1, <2>3 DEF Receives, Open, TypeOK, UowTypeOK
    <2>6. CASE cmd.op \in Inserting
        <3>1. /\ aggregate'[r] = [id |-> cmd.id, data |-> InitialData(cmd), version |-> 0]
              /\ pc'[r] = IF cmd.op \in Entering THEN "find_team" ELSE "insert"
            BY <1>0, <2>1, <2>6 DEF Receives, TypeOK
        <3>2. QED
            BY <1>0, <2>2, <2>4, <2>5, <2>6, <3>1
    <2>7. CASE cmd.op \notin Inserting
        <3>1. pc'[r] = "load" /\ aggregate'[r] = aggregate[r] /\ pc[r] = "idle"
            BY <1>0, <2>1, <2>7 DEF Receives, TypeOK
        <3>2. aggregate'[r] = NoAggregate
            BY <1>0, <3>1
        <3>3. QED
            BY <1>0, <2>2, <2>4, <2>5, <2>7, <3>1, <3>2
    <2>8. QED
        BY <2>6, <2>7
<1>2. CASE \E result \in Answers : Responds(r, result)
    <2>1. PICK result \in Answers : Responds(r, result)
        BY <1>2
    <2>2. QED
        BY <1>0, <2>1 DEF Responds, Proceeds, TypeOK, database, uowVars
<1>3. CASE \E place \in {"find_user", "insert", "update"} : Passes(r, place)
    <2>1. PICK place \in {"find_user", "insert", "update"} : Passes(r, place)
        BY <1>3
    <2>2. pc[r] = "find_user" => Doing(r, Inserting)
        BY <1>0 DEF Entering, Inserting
    <2>3. QED
        BY <1>0, <2>1, <2>2 DEF Passes, Proceeds, TypeOK, database, uowVars
<1>4. CASE Loads(r)
    <2>1. PICK a \in Aggregate : a.id = command[r].id /\ aggregate' = [aggregate EXCEPT ![r] = a]
        BY <1>4, LoadedAggregate
    <2>2. a # NoAggregate /\ aggregate'[r] = a
        BY <1>0, <2>1, NothingsAssumption DEF TypeOK
    <2>3. Doing(r, Updating) /\ ~Doing(r, Inserting)
        BY <1>4, LoadedAggregate, CommandType DEF Updating, Inserting
    <2>4. \A s \in Requests \ {r} : aggregate'[s] = aggregate[s]
        BY <1>0, <2>1 DEF TypeOK
    <2>5. QED
        BY <1>0, <1>4, <2>1, <2>2, <2>3, <2>4 DEF Loads, TypeOK, database, uowVars
<1>5. CASE FlushesAggregate(r)
    <2>1. Doing(r, Inserting \cup Updating)
        BY <1>5 DEF FlushesAggregate
    <2>2. QED
        BY <1>0, <1>5, <2>1 DEF FlushesAggregate, TypeOK
<1>6. CASE \/ \E result \in {"not_found", "version_conflict", "already_exists", "unexpected"} :
                FailsWith(r, result) /\ pc[r] \notin {"idle", "commit", "return"}
           \/ Ends(r)
    <2>1. PICK result \in Answers :
            /\ Reply(r, result) /\ pc[r] # "idle"
            /\ UNCHANGED <<active, command, aggregate>>
        BY <1>6 DEF FailsWith, Fail, Ends, Answers
    <2>2. QED
        BY <1>0, <2>1 DEF Reply, GoTo, TypeOK
<1>7. CASE Return(r)
    BY <1>0, <1>7 DEF Return, Close, GoTo, TypeOK, UowTypeOK
<1>8. QED
    BY <1>1, <1>2, <1>3, <1>4, <1>5, <1>6, <1>7, StepShapes

\* A step of request r leaves what the others have in hand alone.
LEMMA OthersStand ==
    ASSUME IInv, NEW r \in Requests, Step(r), NEW s \in Requests \ {r}
    PROVE  /\ pc'[s] = pc[s] /\ command'[s] = command[s] /\ aggregate'[s] = aggregate[s]
           /\ answer'[s] = answer[s] /\ pending'[s] = pending[s]
BY StepShapes
DEF Receives, Open, Responds, Passes, Proceeds, Loads, FlushesAggregate, FlushesRow, FailsWith, Fail,
    Ends, EndsTransaction, Return, Close, Reply, GoTo, database, IInv, TypeOK, UowTypeOK

\* A request keeps its command until it returns.
LEMMA CommandSteps ==
    ASSUME IInv, NEW r \in Requests, Step(r)
    PROVE  \/ /\ \E cmd \in Command : Receives(r, cmd) /\ command'[r] = cmd
              /\ pc'[r] # "return"
           \/ Return(r) /\ command'[r] = NoCommand /\ UNCHANGED issued
           \/ /\ command'[r] = command[r] /\ UNCHANGED issued
              /\ pc[r] = "return" => pc'[r] = "return"
<1>1. CASE \E cmd \in Command : Receives(r, cmd)
    BY <1>1 DEF Receives, IInv, TypeOK
<1>2. CASE Return(r)
    BY <1>2 DEF Return, IInv, TypeOK
<1>3. CASE /\ ~\E cmd \in Command : Receives(r, cmd)
           /\ ~Return(r)
    <2>1. UNCHANGED <<command, issued>>
        BY <1>3, StepShapes
        DEF Responds, Passes, Proceeds, Loads, FlushesAggregate, FailsWith, Ends
    <2>2. pc[r] = "return" => pc'[r] = "return"
        BY <1>3, StepShapes
        DEF Responds, Passes, Proceeds, Loads, FlushesAggregate, Ends, IInv, TypeOK
    <2>3. QED
        BY <2>1, <2>2
<1>4. QED
    BY <1>1, <1>2, <1>3

-----------------------------------------------------------------------------
(* Rows and new ids *)

LEMMA StepKeepsRowsWhole ==
    ASSUME IInv, NEW r \in Requests, Step(r)
    PROVE  RowsAreWhole'
<1>. SUFFICES ASSUME NEW id \in Ids, table'[id] # NoRow
              PROVE  Whole(id, table'[id])
    BY DEF RowsAreWhole, Whole
<1>1. QED
    BY TableSteps, WriteInHand DEF IInv, RowsAreWhole

LEMMA StepKeepsNewPrivate ==
    ASSUME IInv, NEW r \in Requests, Step(r)
    PROVE  NewIsPrivate'
<1>. USE DEF Doing
<1>0. NewIsPrivate /\ issued \subseteq issued'
    BY CommandSteps DEF IInv, Receives
<1>1. ASSUME NEW s \in Requests, Doing(s, Inserting)'
      PROVE  \/ /\ command'[s] = command[s] /\ Doing(s, Inserting)
                /\ command[s].id \in issued /\ command[s].id \in Ids
                /\ pc'[s] # "return" => pc[s] # "return"
             \/ /\ s = r /\ command'[s].id \in issued' \ issued /\ command'[s].id \in Ids
    <2>1. CASE command'[s] = command[s]
        <3>1. Doing(s, Inserting) /\ command[s].id \in Ids
            BY <1>1, <2>1, CommandInHand
        <3>2. command[s].id \in issued
            BY <1>0, <3>1 DEF NewIsPrivate
        <3>3. pc'[s] # "return" => pc[s] # "return"
            BY <1>1, <2>1, CommandSteps, OthersStand DEF IInv, WorkInOrder, Receives
        <3>4. QED
            BY <2>1, <3>1, <3>2, <3>3
    <2>2. CASE command'[s] # command[s]
        <3>1. PICK cmd \in Command : Receives(r, cmd) /\ command'[r] = cmd /\ s = r
            BY <1>1, <2>2, CommandSteps, OthersStand
        <3>2. QED
            BY <1>1, <3>1, CommandType DEF Receives
    <2>3. QED
        BY <2>1, <2>2
<1>2. ASSUME NEW id \in Ids, table'[id] # table[id]
      PROVE  \/ Doing(r, Inserting) /\ command[r].id = id /\ pc'[r] = "return" /\ id \in issued
             \/ table[id] # NoRow
    <2>1. Ends(r) /\ pending[r][id] # Untouched /\ command[r].id = id
        BY <1>2, TableSteps
    <2>2. pc'[r] = "return"
        BY <2>1 DEF Ends, Reply, GoTo, IInv, TypeOK
    <2>3. QED
        BY <1>0, <2>1, <2>2, WriteInHand DEF NewIsPrivate
<1>3. \A id \in Ids \ issued' :
        table'[id] = NoRow /\ \A s \in Requests : Doing(s, Inserting)' => command'[s].id # id
    BY <1>0, <1>1, <1>2 DEF NewIsPrivate
<1>4. \A s, o \in Requests :
        Doing(s, Inserting)' /\ Doing(o, Inserting)' /\ command'[s].id = command'[o].id => s = o
    BY <1>0, <1>1 DEF NewIsPrivate
<1>5. \A s \in Requests :
        Doing(s, Inserting)' /\ pc'[s] # "return" => table'[command'[s].id] = NoRow
    <2>. SUFFICES ASSUME NEW s \in Requests, Doing(s, Inserting)', pc'[s] # "return"
                  PROVE  table'[command'[s].id] = NoRow
        OBVIOUS
    <2>1. table[command'[s].id] = NoRow /\ command'[s].id \in Ids
        BY <1>0, <1>1 DEF NewIsPrivate
    <2>2. CASE table'[command'[s].id] # table[command'[s].id]
        <3>1. Doing(r, Inserting) /\ command[r].id = command'[s].id /\ pc'[r] = "return"
              /\ command'[s].id \in issued
            BY <1>2, <2>1, <2>2
        <3>2. command'[s] = command[s] /\ Doing(s, Inserting)
            BY <1>1, <3>1
        <3>3. s = r
            BY <1>0, <3>1, <3>2 DEF NewIsPrivate
        <3>4. QED
            BY <3>1, <3>3
    <2>3. QED
        BY <2>1, <2>2
<1>6. QED
    BY <1>3, <1>4, <1>5 DEF NewIsPrivate

\* A row appears as its aggregate was made, and changes, one version at a time,
\* as the domain has changed it.
LEMMA CommitSteps ==
    ASSUME IInv, NEW r \in Requests, Step(r), NEW id \in Ids, table'[id] # table[id]
    PROVE  /\ Ends(r) /\ command[r] \in Command /\ command[r].id = id
           /\ table'[id] # NoRow /\ Whole(id, table'[id])
           /\ \/ /\ Doing(r, Inserting) /\ table[id] = NoRow
                 /\ table'[id].data = InitialData(command[r])
              \/ /\ Doing(r, Updating) /\ table[id] # NoRow
                 /\ Permitted(command[r], table[id].data)
                 /\ table'[id].data = ChangedData(command[r], table[id].data)
                 /\ table[id].version \in Nat
                 /\ table'[id].version = table[id].version + 1
<1>1. /\ Ends(r) /\ pending[r][id] # Untouched /\ table'[id] = pending[r][id]
      /\ table'[id] # NoRow /\ command[r].id = id
    BY TableSteps
<1>2. command[r] \in Command /\ Whole(id, table'[id])
    BY <1>1, WriteInHand, CommandInHand DEF Doing
<1>3. CASE Doing(r, Inserting)
    <2>1. table[id] = NoRow
        BY <1>1, <1>3 DEF IInv, NewIsPrivate, Ends
    <2>2. table'[id].data = InitialData(command[r])
        BY <1>1, <1>3, WriteInHand, AggregateOfCommand
    <2>3. QED
        BY <1>1, <1>2, <1>3, <2>1, <2>2
<1>4. CASE ~Doing(r, Inserting)
    <2>. DEFINE a == aggregate[r]
    <2>1. /\ Doing(r, Updating) /\ table[id] # NoRow /\ a.version = table[id].version
          /\ a # NoAggregate /\ a.id = id
          /\ table'[id].data = a.data /\ table'[id] = Written(r)
        BY <1>1, <1>4, WriteInHand
    <2>2. Permitted(command[r], table[id].data) /\ a.data = ChangedData(command[r], table[id].data)
        BY <2>1 DEF IInv, AggregatesAreCurrent
    <2>3. table[id].version \in Nat
        BY <2>1 DEF IInv, TypeOK, UowTypeOK, Row
    <2>4. table'[id].version = a.version + 1
        BY <1>4, <2>1 DEF Written, Updated
    <2>5. QED
        BY <1>1, <1>2, <2>1, <2>2, <2>3, <2>4
<1>5. QED
    BY <1>3, <1>4

-----------------------------------------------------------------------------
(* What a transaction writes *)

LEMMA PendingSteps ==
    ASSUME IInv, NEW r \in Requests, Step(r)
    PROVE  \/ /\ FlushesAggregate(r)
              /\ \A id \in Ids : pending'[r][id] =
                    IF id = command[r].id THEN Written(r) ELSE Untouched
              /\ UNCHANGED <<table, command, aggregate>> /\ pc'[r] = "commit"
           \/ /\ \A id \in Ids : pending'[r][id] = Untouched
              /\ pc'[r] # "commit"
           \/ /\ pc[r] \in {"commit", "return"} /\ pc'[r] = "return"
              /\ UNCHANGED <<table, pending, command, aggregate>>
<1>0. TypeOK /\ UowTypeOK
    BY DEF IInv, TypeOK
<1>1. CASE FlushesAggregate(r)
    <2>1. \A id \in Ids : pending[r][id] = Untouched
        BY <1>1, ViewBeforeWrite DEF FlushesAggregate
    <2>. DEFINE row == Written(r)
    <2>2. pending' = [pending EXCEPT ![r][command[r].id] = row]
        BY <1>1 DEF FlushesAggregate, FlushesRow
    <2>. HIDE DEF row
    <2>3. \A id \in Ids : pending'[r][id] = IF id = command[r].id THEN row ELSE Untouched
        BY <1>0, <2>1, <2>2 DEF UowTypeOK
    <2>. USE DEF row
    <2>4. QED
        BY <1>0, <1>1, <2>3 DEF FlushesAggregate, FlushesRow, TypeOK
<1>2. CASE \/ \E result \in {"not_found", "version_conflict", "already_exists", "unexpected"} :
                FailsWith(r, result) /\ pc[r] \notin {"idle", "commit", "return"}
           \/ Ends(r)
           \/ Return(r)
    BY <1>0, <1>2
    DEF FailsWith, Fail, Ends, EndsTransaction, Return, Close, Reply, GoTo, NoWrites, TypeOK,
        UowTypeOK
<1>3. CASE \/ \E cmd \in Command : Receives(r, cmd)
           \/ \E place \in {"find_user", "insert", "update"} : Passes(r, place)
           \/ Loads(r)
    <2>1. pc[r] \notin {"commit", "return"} /\ pc'[r] # "commit" /\ UNCHANGED pending
        BY <1>0, <1>3 DEF Receives, Open, Passes, Proceeds, Loads, database, TypeOK, uowVars
    <2>2. QED
        BY <2>1, ViewBeforeWrite
<1>4. CASE \E result \in Answers : Responds(r, result)
    <2>1. /\ pc'[r] = "return" /\ UNCHANGED <<table, pending, command, aggregate>>
        BY <1>0, <1>4 DEF Responds, Proceeds, database, TypeOK
    <2>2. CASE pc[r] \in {"commit", "return"}
        BY <2>1, <2>2
    <2>3. CASE pc[r] \notin {"commit", "return"}
        BY <2>1, <2>3, ViewBeforeWrite
    <2>4. QED
        BY <2>2, <2>3
<1>5. QED
    BY <1>1, <1>2, <1>3, <1>4, StepShapes

LEMMA StepKeepsRowsExclusive ==
    ASSUME IInv, NEW r \in Requests, Step(r)
    PROVE  RowsExclusive'
<1>1. ASSUME NEW s \in Requests \ {r}, NEW id \in Ids,
             pending'[r][id] # Untouched, pending'[s][id] # Untouched
      PROVE  FALSE
    <2>1. pending[s][id] # Untouched
        BY <1>1, OthersStand
    <2>2. CASE FlushesAggregate(r) /\ id = command[r].id
        <3>1. aggregate[r].id = id
            BY <2>2 DEF FlushesAggregate
        <3>2. CASE Doing(r, Inserting) /\ table[id] = NoRow
            BY <1>1, <2>1, <2>2, <3>2, WriteInHand DEF IInv, NewIsPrivate
        <3>3. CASE ~RowLocked(r, id)
            BY <2>1, <3>3 DEF RowLocked
        <3>4. QED
            BY <2>2, <3>1, <3>2, <3>3 DEF FlushesAggregate
    <2>3. CASE UNCHANGED pending
        BY <1>1, <2>3 DEF IInv, RowsExclusive
    <2>4. QED
        BY <1>1, <2>2, <2>3, PendingSteps
<1>2. \A s, o \in Requests \ {r}, id \in Ids :
        pending'[s][id] # Untouched /\ pending'[o][id] # Untouched => s = o
    BY OthersStand DEF IInv, RowsExclusive
<1>3. QED
    BY <1>1, <1>2 DEF RowsExclusive

LEMMA StepKeepsWrites ==
    ASSUME IInv, NEW r \in Requests, Step(r)
    PROVE  WritesAreOwn'
<1>1. ASSUME NEW s \in Requests, pc'[s] = "commit"
      PROVE  pending'[s][command'[s].id] # Untouched
    <2>1. CASE s # r
        <3>1. pc'[s] = pc[s] /\ command'[s] = command[s] /\ pending'[s] = pending[s]
            BY <2>1, OthersStand
        <3>2. QED
            BY <1>1, <3>1 DEF IInv, WritesAreOwn
    <2>2. CASE s = r
        <3>1. FlushesAggregate(r) /\ pending'[r][command[r].id] = Written(r) /\ UNCHANGED command
            BY <1>1, <2>2, PendingSteps DEF FlushesAggregate
        <3>2. Written(r) # Untouched
            BY <3>1, NothingsAssumption DEF FlushesAggregate
        <3>3. QED
            BY <2>2, <3>1, <3>2
    <2>3. QED
        BY <2>1, <2>2
<1>2. ASSUME NEW s \in Requests, NEW id \in Ids, pending'[s][id] # Untouched
      PROVE  /\ pc'[s] \in {"commit", "return"}
             /\ Doing(s, Inserting \cup Updating)' /\ aggregate'[s] # NoAggregate
             /\ id = command'[s].id
             /\ pending'[s][id] = Written(s)'
             /\ Doing(s, Updating)' =>
                    table'[id] # NoRow /\ table'[id].version = aggregate'[s].version
    <2>1. CASE s # r
        <3>1. /\ pc'[s] = pc[s] /\ command'[s] = command[s] /\ aggregate'[s] = aggregate[s]
              /\ pending'[s] = pending[s]
            BY <2>1, OthersStand
        <3>2. Written(s)' = Written(s)
            BY <3>1 DEF Written, Doing
        <3>3. table'[id] = table[id]
            BY <1>2, <2>1, <3>1, TableSteps DEF IInv, RowsExclusive
        <3>4. QED
            BY <1>2, <3>1, <3>2, <3>3 DEF IInv, WritesAreOwn, Doing
    <2>2. CASE s = r /\ FlushesAggregate(r) /\ UNCHANGED <<table, command, aggregate>>
        <3>1. id = command[r].id /\ pending'[r][id] = Written(r) /\ pc'[r] = "commit"
            BY <1>2, <2>2, PendingSteps DEF FlushesAggregate
        <3>2. Written(r)' = Written(r)
            BY <2>2 DEF Written, Doing
        <3>3. QED
            BY <2>2, <3>1, <3>2 DEF FlushesAggregate, Doing, Inserting, Updating
    <2>3. CASE s = r /\ pc'[r] = "return" /\ UNCHANGED <<table, pending, command, aggregate>>
        <3>1. Written(r)' = Written(r)
            BY <2>3 DEF Written, Doing
        <3>2. QED
            BY <1>2, <2>3, <3>1 DEF IInv, WritesAreOwn, Doing
    <2>4. QED
        BY <1>2, <2>1, <2>2, <2>3, PendingSteps
<1>3. QED
    BY <1>1, <1>2 DEF WritesAreOwn

LEMMA StepKeepsAggregates ==
    ASSUME IInv, NEW r \in Requests, Step(r)
    PROVE  AggregatesAreCurrent'
<1>. SUFFICES ASSUME NEW s \in Requests, Doing(s, Updating)', aggregate'[s] # NoAggregate
              PROVE  LET a == aggregate'[s]
                         row == table'[a.id]
                     IN  /\ row # NoRow
                         /\ a.version <= row.version
                         /\ a.version = row.version =>
                                /\ Permitted(command'[s], row.data)
                                /\ a.data = ChangedData(command'[s], row.data)
    BY DEF AggregatesAreCurrent, Permitted, ChangedData, Doing, MayApprove, MayLeave, MayChangeRole
<1>1. CASE command'[s] = command[s] /\ aggregate'[s] = aggregate[s]
    <2>. DEFINE a == aggregate[s]
    <2>1. /\ table[a.id] # NoRow /\ a.version <= table[a.id].version
          /\ a.version = table[a.id].version =>
                /\ Permitted(command[s], table[a.id].data)
                /\ a.data = ChangedData(command[s], table[a.id].data)
        BY <1>1 DEF IInv, AggregatesAreCurrent, Doing
    <2>2. a \in Aggregate /\ a.id \in Ids /\ a.version \in Nat
        BY <1>1 DEF IInv, TypeOK, Aggregate
    <2>3. CASE table'[a.id] = table[a.id]
        BY <1>1, <2>1, <2>3
    <2>4. CASE table'[a.id] # table[a.id]
        <3>1. /\ table'[a.id] # NoRow /\ table[a.id].version \in Nat
              /\ table'[a.id].version = table[a.id].version + 1
            BY <2>1, <2>2, <2>4, CommitSteps
        <3>2. QED
            BY <1>1, <2>1, <2>2, <3>1
    <2>5. QED
        BY <2>3, <2>4
<1>2. CASE s = r /\ Loads(r)
    <2>1. PICK a \in Aggregate :
            /\ a = [id |-> command[r].id,
                    data |-> ChangedData(command[r], table[command[r].id].data),
                    version |-> table[command[r].id].version]
            /\ aggregate' = [aggregate EXCEPT ![r] = a]
        BY <1>2, LoadedAggregate
    <2>2. aggregate'[r] = a
        BY <2>1 DEF IInv, TypeOK
    <2>3. a.version \in Nat
        BY <2>1 DEF Aggregate
    <2>4. UNCHANGED <<table, command>>
        BY <1>2 DEF Loads, database, uowVars
    <2>5. QED
        BY <1>2, <2>1, <2>2, <2>3, <2>4, LoadedAggregate
<1>3. CASE s = r /\ ~Loads(r) /\ aggregate'[r] # aggregate[r]
    <2>1. \E cmd \in Command : Receives(r, cmd) /\ cmd.op \in Inserting /\ command'[r] = cmd
        <3>1. ~Return(r)
            BY <1>3 DEF Return, IInv, TypeOK
        <3>2. PICK cmd \in Command : Receives(r, cmd)
            BY <1>3, <3>1, StepShapes
            DEF Responds, Passes, Proceeds, FlushesAggregate, FailsWith, Ends
        <3>3. QED
            BY <1>3, <3>2 DEF Receives, IInv, TypeOK
    <2>2. QED
        BY <1>3, <2>1 DEF Doing, Inserting, Updating
<1>4. CASE s = r /\ aggregate'[r] = aggregate[r] /\ command'[r] # command[r]
    <2>1. aggregate[r] = NoAggregate \/ command'[r] = NoCommand
        BY <1>4, CommandSteps DEF Receives, IInv, WorkInOrder
    <2>2. QED
        BY <1>4, <2>1 DEF Doing
<1>5. QED
    BY <1>1, <1>2, <1>3, <1>4, OthersStand

-----------------------------------------------------------------------------
(* Index entries *)

\* A transaction that ends does not bring an entry under which another one, s,
\* has written a row: the two would both hold it.
LEMMA EndMeetsWrite ==
    ASSUME UowTypeOK, UowTypeOK', RowsExclusive, KeysInv,
           NEW r \in Requests, EndsTransaction(r), NEW s \in Requests, s # r,
           NEW i \in Ids, NEW j \in Ids, i # j,
           pending[s][i] # Untouched, pending[s][j] = Untouched,
           View(s, i)' # NoRow, View(s, j)' # NoRow, View(s, i)'.key = View(s, j)'.key
    PROVE  View(s, i)'.key = NoKey
<1>. USE DEF UowTypeOK
<1>1. pending'[s] = pending[s]
    BY DEF EndsTransaction
<1>2. View(s, i)' = pending[s][i] /\ View(s, j)' = table'[j] /\ View(s, i) = pending[s][i]
    BY <1>1 DEF View
<1>3. pending[s][i] \in Row /\ table'[j] \in Row
    BY <1>2
<1>4. SUFFICES ASSUME pending[s][i].key # NoKey PROVE FALSE
    BY <1>2
<1>5. pending[s][i].key \in Keys /\ HoldsKey(s, pending[s][i].key)
    BY <1>3, <1>4, NothingsAssumption DEF Row, HoldsKey
<1>6. CASE table'[j] = table[j]
    <2>1. View(s, j) = table[j]
        BY DEF View
    <2>2. QED
        BY <1>2, <1>4, <1>6, <2>1 DEF KeysInv, EntriesUnique
<1>7. CASE table'[j] # table[j]
    <2>1. table'[j] = pending[r][j] /\ pending[r][j] # Untouched
        BY <1>7 DEF EndsTransaction, Merged, View
    <2>2. HoldsKey(r, pending[s][i].key)
        BY <1>2, <1>3, <2>1, NothingsAssumption DEF HoldsKey
    <2>3. QED
        BY <1>5, <2>2 DEF KeysInv, EntriesExclusive
<1>8. QED
    BY <1>6, <1>7

\* The end of a transaction passes its view on to the table, or drops it.
LEMMA EndKeepsKeys ==
    ASSUME UowTypeOK, UowTypeOK', RowsExclusive, KeysInv, NEW r \in Requests, EndsTransaction(r)
    PROVE  KeysInv'
<1>. USE DEF UowTypeOK
<1>1. \A id \in Ids : table'[id] = table[id] \/ table'[id] = View(r, id)
    BY DEF EndsTransaction, Merged
<1>2. table' = table \/ \A id \in Ids : table'[id] = View(r, id)
    BY DEF EndsTransaction, Merged
<1>3. \A id \in Ids : View(r, id)' = table'[id]
    BY DEF EndsTransaction, View, NoWrites
<1>4. \A s \in Requests \ {r}, id \in Ids : pending'[s][id] = pending[s][id]
    BY DEF EndsTransaction
<1>5. KeysUnique'
    BY <1>2 DEF KeysInv, KeysUnique, EntriesUnique
<1>6. ASSUME NEW s \in Requests \ {r}, NEW id \in Ids, pending[s][id] # Untouched
      PROVE  table'[id] = table[id]
    <2>1. pending[r][id] = Untouched
        BY <1>6 DEF RowsExclusive
    <2>2. QED
        BY <1>1, <2>1 DEF View
<1>7. ASSUME NEW s \in Requests, NEW k \in Keys, HoldsKey(s, k)'
      PROVE  s # r /\ HoldsKey(s, k)
    BY <1>4, <1>6, <1>7 DEF HoldsKey, EndsTransaction, NoWrites
<1>8. EntriesExclusive'
    BY <1>7 DEF EntriesExclusive, KeysInv
<1>9. EntriesUnique'
    <2>1. SUFFICES ASSUME NEW s \in Requests, NEW i \in Ids, NEW j \in Ids,
                          View(s, i)' # NoRow, View(s, j)' # NoRow,
                          View(s, i)'.key = View(s, j)'.key, i # j, View(s, i)'.key # NoKey
                   PROVE  FALSE
        BY DEF EntriesUnique
    <2>2. CASE s = r
        BY <1>3, <1>5, <2>1, <2>2 DEF KeysUnique
    <2>3. CASE s # r /\ pending[s][i] = Untouched /\ pending[s][j] = Untouched
        BY <1>4, <1>5, <2>1, <2>3 DEF KeysUnique, View
    <2>4. CASE s # r /\ pending[s][i] # Untouched /\ pending[s][j] # Untouched
        BY <1>4, <2>1, <2>4 DEF KeysInv, EntriesUnique, View
    <2>5. CASE s # r /\ pending[s][i] # Untouched /\ pending[s][j] = Untouched
        BY <1>4, <2>1, <2>5, EndMeetsWrite
    <2>6. CASE s # r /\ pending[s][i] = Untouched /\ pending[s][j] # Untouched
        BY <1>4, <2>1, <2>6, EndMeetsWrite
    <2>7. QED
        BY <2>2, <2>3, <2>4, <2>5, <2>6
<1>10. QED
    BY <1>5, <1>8, <1>9 DEF KeysInv

\* A flush adds an entry that nobody holds and nothing in view has, and takes hold
\* of the old entry of its row, which no other transaction can have.
LEMMA FlushKeepsKeys ==
    ASSUME UowTypeOK, UowTypeOK', RowsExclusive', KeysInv, NEW r \in Requests,
           NEW id \in Ids, NEW row \in Row, FlushesRow(r, id, row)
    PROVE  KeysInv'
<1>. USE DEF UowTypeOK
<1>1. /\ table' = table
      /\ pending'[r][id] = row
      /\ \A i \in Ids \ {id} : pending'[r][i] = pending[r][i]
      /\ \A s \in Requests \ {r} : pending'[s] = pending[s]
    BY DEF FlushesRow
<1>2. row # Untouched
    BY NothingsAssumption
<1>3. KeysUnique'
    BY <1>1 DEF KeysInv, KeysUnique
<1>4. /\ View(r, id)' = row
      /\ \A i \in Ids \ {id} : View(r, i)' = View(r, i)
      /\ \A s \in Requests \ {r}, i \in Ids : View(s, i)' = View(s, i)
    BY <1>1, <1>2 DEF View
<1>5. ASSUME NEW i \in Ids \ {id}, View(r, i) # NoRow, row # NoRow, row.key = View(r, i).key
      PROVE  row.key = NoKey
    BY <1>5 DEF FlushesRow, KeyTaken
<1>6. EntriesUnique'
    <2>1. SUFFICES ASSUME NEW s \in Requests, NEW i \in Ids, NEW j \in Ids,
                          View(s, i)' # NoRow, View(s, j)' # NoRow,
                          View(s, i)'.key = View(s, j)'.key, i # j
                   PROVE  View(s, i)'.key = NoKey
        BY DEF EntriesUnique
    <2>2. CASE s # r \/ id \notin {i, j}
        BY <1>4, <2>1, <2>2 DEF KeysInv, EntriesUnique
    <2>3. CASE s = r /\ id \in {i, j}
        BY <1>4, <1>5, <2>1, <2>3
    <2>4. QED
        BY <2>2, <2>3
<1>7. \A s \in Requests \ {r}, k \in Keys : HoldsKey(s, k)' <=> HoldsKey(s, k)
    BY <1>1 DEF HoldsKey
<1>8. ASSUME NEW k \in Keys, HoldsKey(r, k)', NEW s \in Requests \ {r}, HoldsKey(s, k)
      PROVE  FALSE
    <2>1. \/ HoldsKey(r, k)
          \/ row # NoRow /\ row.key = k
          \/ table[id] # NoRow /\ table[id].key = k
        BY <1>1, <1>8 DEF HoldsKey
    <2>2. CASE HoldsKey(r, k)
        BY <1>8, <2>2 DEF KeysInv, EntriesExclusive
    <2>3. CASE row # NoRow /\ row.key = k
        BY <1>8, <2>3, NothingsAssumption DEF FlushesRow, KeyLocked
    <2>4. CASE table[id] # NoRow /\ table[id].key = k
        <3>1. PICK i \in Ids :
                /\ pending[s][i] # Untouched
                /\ \E held \in {pending[s][i], table[i]} \ {NoRow} : held.key = k
            BY <1>8 DEF HoldsKey
        <3>2. pending[s][id] = Untouched
            BY <1>1, <1>2 DEF RowsExclusive
        <3>3. i # id /\ View(s, id) = table[id] /\ View(s, i) = pending[s][i]
            BY <3>1, <3>2 DEF View
        <3>4. k # NoKey
            BY NothingsAssumption
        <3>5. CASE pending[s][i] # NoRow /\ pending[s][i].key = k
            BY <2>4, <3>1, <3>3, <3>4, <3>5 DEF KeysInv, EntriesUnique
        <3>6. CASE table[i] # NoRow /\ table[i].key = k
            BY <2>4, <3>1, <3>3, <3>4, <3>6 DEF KeysInv, KeysUnique
        <3>7. QED
            BY <3>1, <3>5, <3>6
    <2>5. QED
        BY <2>1, <2>2, <2>3, <2>4
<1>9. EntriesExclusive'
    BY <1>7, <1>8 DEF KeysInv, EntriesExclusive
<1>10. QED
    BY <1>3, <1>6, <1>9 DEF KeysInv

LEMMA TransactionSteps ==
    ASSUME IInv, NEW r \in Requests, Step(r)
    PROVE  UNCHANGED <<table, pending>> \/ EndsTransaction(r) \/ FlushesAggregate(r)
BY StepShapes
DEF Receives, Open, Responds, Passes, Proceeds, Loads, FailsWith, Fail, Ends, Return, Close,
    EndsTransaction, database

LEMMA StepKeepsKeys ==
    ASSUME IInv, NEW r \in Requests, Step(r), TypeOK', RowsExclusive'
    PROVE  KeysInv'
<1>0. UowTypeOK /\ UowTypeOK' /\ RowsExclusive /\ RowsExclusive' /\ KeysInv
    BY DEF IInv, TypeOK
<1>1. CASE UNCHANGED <<table, pending>>
    BY <1>0, <1>1
    DEF KeysInv, KeysUnique, EntriesUnique, EntriesExclusive, HoldsKey, View
<1>2. CASE EndsTransaction(r)
    BY <1>0, <1>2, EndKeepsKeys
<1>3. CASE FlushesAggregate(r)
    BY <1>0, <1>3, FlushKeepsKeys DEF FlushesAggregate
<1>4. QED
    BY <1>1, <1>2, <1>3, TransactionSteps

-----------------------------------------------------------------------------
(* The parties of a period *)

LEMMA RowsStay ==
    ASSUME IInv, NEW r \in Requests, Step(r), NEW id \in Ids, table[id] # NoRow
    PROVE  table'[id] # NoRow
BY TableSteps

LEMMA StepKeepsPartiesFound ==
    ASSUME IInv, NEW r \in Requests, Step(r)
    PROVE  PartiesFound'
<1>. SUFFICES ASSUME NEW s \in Requests, Doing(s, Entering)'
              PROVE  /\ pc'[s] \in {"find_user", "insert", "commit"} =>
                            table'[command'[s].team] # NoRow
                     /\ pc'[s] \in {"insert", "commit"} => table'[command'[s].user] # NoRow
    BY DEF PartiesFound
<1>1. CASE command'[s] = command[s]
    <2>1. Doing(s, Entering) /\ command[s].team \in Ids /\ command[s].user \in Ids
        BY <1>1, CommandInHand, CommandType DEF Doing, Ids
    <2>2. ~Doing(s, Updating)
        BY <2>1 DEF Doing, Entering, Updating
    <2>3. /\ pc[s] \in {"find_user", "insert", "commit"} => table[command[s].team] # NoRow
          /\ pc[s] \in {"insert", "commit"} => table[command[s].user] # NoRow
        BY <2>1 DEF IInv, PartiesFound
    <2>4. CASE pc'[s] = pc[s]
        BY <1>1, <2>1, <2>3, <2>4, RowsStay
    <2>5. CASE pc'[s] # pc[s] /\ pc'[s] \in {"find_user", "insert", "commit"}
        <3>1. s = r
            BY <2>5, OthersStand
        <3>2. CASE \E place \in {"find_user", "insert", "update"} : Passes(r, place)
            <4>1. /\ UNCHANGED table
                  /\ \/ /\ pc[r] = "find_team" /\ pc'[r] = "find_user"
                        /\ View(r, command[r].team) # NoRow
                     \/ /\ pc[r] = "find_user" /\ pc'[r] = "insert"
                        /\ View(r, command[r].user) # NoRow
                BY <2>5, <3>2, <3>1 DEF Passes, Proceeds, database, IInv, TypeOK
            <4>2. View(r, command[r].team) = table[command[r].team]
                  /\ View(r, command[r].user) = table[command[r].user]
                BY <2>1, <3>1, <4>1, ViewBeforeWrite
            <4>3. QED
                BY <1>1, <2>3, <3>1, <4>1, <4>2
        <3>3. CASE FlushesAggregate(r)
            <4>1. pc[r] = "insert" /\ UNCHANGED table
                BY <2>2, <3>1, <3>3 DEF FlushesAggregate, FlushesRow, IInv, WorkInOrder
            <4>2. QED
                BY <1>1, <2>3, <3>1, <4>1
        <3>4. CASE /\ ~FlushesAggregate(r)
                   /\ ~\E place \in {"find_user", "insert", "update"} : Passes(r, place)
            <4>1. CASE \E cmd \in Command : Receives(r, cmd)
                BY <1>1, <2>1, <3>1, <4>1 DEF Receives, Doing, IInv, WorkInOrder
            <4>2. CASE ~\E cmd \in Command : Receives(r, cmd)
                <5>1. pc'[r] \in {"return", "check", "idle"}
                    BY <3>4, <4>2, StepShapes
                    DEF Responds, Proceeds, Loads, FailsWith, Ends, Return, Reply, GoTo, IInv, TypeOK
                <5>2. QED
                    BY <2>5, <3>1, <5>1
            <4>3. QED
                BY <4>1, <4>2
        <3>5. QED
            BY <3>2, <3>3, <3>4
    <2>6. QED
        BY <2>4, <2>5
<1>2. CASE command'[s] # command[s]
    <2>1. PICK cmd \in Command : Receives(r, cmd) /\ command'[r] = cmd /\ s = r
        BY <1>2, CommandSteps, OthersStand DEF Doing
    <2>2. pc'[r] = "find_team"
        <3>1. cmd.op \in Entering /\ cmd.op \in Inserting
            BY <2>1 DEF Doing, Entering, Inserting
        <3>2. QED
            BY <2>1, <3>1 DEF Receives, IInv, TypeOK
    <2>3. QED
        BY <2>1, <2>2
<1>3. QED
    BY <1>1, <1>2

LEMMA PeriodRows ==
    ASSUME IInv, NEW p \in Periods, table[p] # NoRow
    PROVE  p \in Ids /\ table[p].data \in PeriodData
BY KindsOfData DEF IInv, RowsAreWhole, Whole, Ids

\* The commands that may write the row of a period.
LEMMA PeriodCommands ==
    ASSUME NEW cmd \in Command, cmd.id \in Periods
    PROVE  /\ cmd.op \in Inserting => cmd.op \in Entering
           /\ cmd.op \in Updating => cmd.op \in {"approve", "leave", "change_role"}
BY CommandType, DirectoryAssumption DEF Inserting, Updating, Entering

LEMMA StepKeepsParties ==
    ASSUME IInv, NEW r \in Requests, Step(r)
    PROVE  PartiesExist'
<1>. SUFFICES ASSUME NEW p \in Periods, table'[p] # NoRow
              PROVE  table'[table'[p].data.team] # NoRow /\ table'[table'[p].data.user] # NoRow
    BY DEF PartiesExist
<1>0. p \in Ids
    BY DEF Ids
<1>1. ASSUME table[p] # NoRow, table'[p].data.team = table[p].data.team,
             table'[p].data.user = table[p].data.user
      PROVE  table'[table'[p].data.team] # NoRow /\ table'[table'[p].data.user] # NoRow
    <2>1. table[table[p].data.team] # NoRow /\ table[table[p].data.user] # NoRow
        BY <1>1 DEF IInv, PartiesExist
    <2>2. table[p].data.team \in Ids /\ table[p].data.user \in Ids
        BY <1>1, PeriodRows DEF PeriodData, Ids
    <2>3. QED
        BY <1>1, <2>1, <2>2, RowsStay
<1>2. CASE table'[p] = table[p]
    BY <1>1, <1>2
<1>3. CASE table'[p] # table[p] /\ table[p] # NoRow
    <2>1. /\ command[r] \in Command /\ command[r].op \in Updating /\ command[r].id = p
          /\ table'[p].data = ChangedData(command[r], table[p].data)
        BY <1>0, <1>3, CommitSteps DEF Doing
    <2>2. table[p].data \in DataOf(p)
        BY <1>3, PeriodRows, KindsOfData
    <2>3. QED
        BY <1>1, <1>3, <2>1, <2>2, ChangedDataType
<1>4. CASE table'[p] # table[p] /\ table[p] = NoRow
    <2>1. /\ command[r] \in Command /\ command[r].op \in Inserting /\ command[r].id = p
          /\ table'[p].data = InitialData(command[r]) /\ pc[r] = "commit"
        BY <1>0, <1>4, CommitSteps DEF Doing, Ends
    <2>2. Doing(r, Entering)
        BY <2>1, PeriodCommands, CommandType DEF Doing
    <2>3. table'[p].data.team = command[r].team /\ table'[p].data.user = command[r].user
        BY <2>1, <2>2 DEF InitialData, Joined, JoinRequested, Entering, Doing
    <2>4. table[command[r].team] # NoRow /\ table[command[r].user] # NoRow
        BY <2>1, <2>2 DEF IInv, PartiesFound
    <2>5. command[r].team \in Ids /\ command[r].user \in Ids
        BY <2>1, <2>2, CommandType DEF Doing, Ids
    <2>6. QED
        BY <2>3, <2>4, <2>5, RowsStay
<1>5. QED
    BY <1>2, <1>3, <1>4

-----------------------------------------------------------------------------
(* Answers *)

\* What a step does to a period that exists.
LEMMA PeriodSteps ==
    ASSUME IInv, NEW r \in Requests, Step(r), NEW p \in Periods, table[p] # NoRow,
           table'[p] # table[p]
    PROVE  /\ Doing(r, Updating) /\ command[r] \in Command /\ command[r].id = p /\ Ends(r)
           /\ table[p].data \in PeriodData
           /\ \/ /\ command[r].op = "approve" /\ table[p].data.status = "PENDING"
                 /\ table'[p].data = [table[p].data EXCEPT !.status = "ACTIVE"]
                 /\ table'[p].data.status = "ACTIVE"
              \/ /\ command[r].op = "leave" /\ table[p].data.status # "LEAVED"
                 /\ table'[p].data = [table[p].data EXCEPT !.status = "LEAVED"]
                 /\ table'[p].data.status = "LEAVED"
              \/ /\ command[r].op = "change_role" /\ table[p].data.status # "LEAVED"
                 /\ command[r].role \in Roles
                 /\ table'[p].data = [table[p].data EXCEPT !.role = command[r].role]
                 /\ table'[p].data.status = table[p].data.status
<1>1. /\ Doing(r, Updating) /\ command[r] \in Command /\ command[r].id = p /\ Ends(r)
      /\ Permitted(command[r], table[p].data)
      /\ table'[p].data = ChangedData(command[r], table[p].data)
    BY CommitSteps DEF Ids
<1>2. command[r].op \in {"approve", "leave", "change_role"}
    BY <1>1, PeriodCommands DEF Doing
<1>3. command[r].op = "change_role" => command[r].role \in Roles
    BY <1>1, CommandType
<1>4. table[p].data \in PeriodData
    BY PeriodRows
<1>5. CASE command[r].op = "approve"
    BY <1>1, <1>4, <1>5 DEF Permitted, ChangedData, MayApprove, PeriodData
<1>6. CASE command[r].op = "leave"
    BY <1>1, <1>4, <1>6 DEF Permitted, ChangedData, MayLeave, PeriodData
<1>7. CASE command[r].op = "change_role"
    BY <1>1, <1>3, <1>4, <1>7 DEF Permitted, ChangedData, MayChangeRole, PeriodData
<1>8. QED
    BY <1>2, <1>5, <1>6, <1>7

\* A period that is no longer pending, or is left, stays so.
LEMMA StatusMoves ==
    ASSUME IInv, NEW r \in Requests, Step(r), NEW p \in Periods, table[p] # NoRow
    PROVE  /\ table'[p] # NoRow
           /\ table[p].data.status # "PENDING" => table'[p].data.status # "PENDING"
           /\ table[p].data.status = "LEAVED" => table'[p].data.status = "LEAVED"
<1>1. table'[p] # NoRow
    BY RowsStay DEF Ids
<1>2. CASE table'[p] = table[p]
    BY <1>1, <1>2
<1>3. CASE table'[p] # table[p]
    BY <1>1, <1>3, PeriodSteps
<1>4. QED
    BY <1>2, <1>3

\* How a request comes to be answered Ok, and to count.
LEMMA AnswerSteps ==
    ASSUME IInv, NEW r \in Requests, Step(r)
    PROVE  \/ Return(r) /\ answer'[r] = "none"
           \/ /\ UNCHANGED <<approvals, departures>>
              /\ answer'[r] = "ok" =>
                    /\ command'[r] = command[r]
                    /\ answer[r] = "ok" \/ Doing(r, Reading) \/ (Ends(r) /\ table' = Merged(r))
<1>1. CASE \E cmd \in Command : Receives(r, cmd)
    BY <1>1 DEF Receives, history, IInv, WorkInOrder
<1>2. CASE Return(r)
    BY <1>2 DEF Return, IInv, TypeOK
<1>3. CASE Ends(r)
    BY <1>3 DEF Ends, history, Reply, GoTo, IInv, TypeOK
<1>4. CASE \E result \in Answers : Responds(r, result)
    <2>1. PICK result \in Answers : Responds(r, result)
        BY <1>4
    <2>2. answer'[r] = result /\ UNCHANGED <<command, approvals, departures>>
        BY <2>1 DEF Responds, Proceeds, history, IInv, TypeOK
    <2>3. QED
        BY <2>1, <2>2 DEF Responds
<1>5. CASE Loads(r) \/ FlushesAggregate(r)
    BY <1>5 DEF Loads, FlushesAggregate, history
<1>6. CASE \E place \in {"find_user", "insert", "update"} : Passes(r, place)
    BY <1>6 DEF Passes, Proceeds, history, IInv, TypeOK
<1>7. CASE \E result \in {"not_found", "version_conflict", "already_exists", "unexpected"} :
            FailsWith(r, result)
    BY <1>7 DEF FailsWith, history, Reply, GoTo, IInv, TypeOK
<1>8. QED
    BY <1>1, <1>2, <1>3, <1>4, <1>5, <1>6, <1>7, StepShapes

\* Ok to an approval or a leave means that this request has made the change.
LEMMA AnswersAreEarned ==
    ASSUME IInv, NEW r \in Requests, Step(r), ~Return(r), NEW p \in Periods,
           NEW op \in {"approve", "leave"}, ~Answered(r, op, p), Answered(r, op, p)'
    PROVE  /\ table[p] # NoRow /\ table'[p] # NoRow
           /\ op = "approve" =>
                table[p].data.status = "PENDING" /\ table'[p].data.status = "ACTIVE"
           /\ op = "leave" =>
                table[p].data.status # "LEAVED" /\ table'[p].data.status = "LEAVED"
<1>1. command'[r] = command[r] /\ command[r].op = op /\ command[r].id = p
    BY AnswerSteps DEF Answered
<1>2. Ends(r) /\ table' = Merged(r)
    BY <1>1, AnswerSteps DEF Answered, Doing, Reading
<1>3. p \in Ids /\ pc[r] = "commit" /\ pending[r][p] # Untouched
    BY <1>1, <1>2 DEF Ends, IInv, WritesAreOwn, Ids
<1>4. table'[p] = pending[r][p]
    BY <1>2, <1>3 DEF Merged, View
<1>5. ~Doing(r, Inserting)
    BY <1>1 DEF Doing, Inserting
<1>6. /\ table[p] # NoRow /\ table[p].version = aggregate[r].version
      /\ pending[r][p].version = aggregate[r].version + 1
    <2>1. /\ table[p] # NoRow /\ table[p].version = aggregate[r].version
          /\ pending[r][p] = Written(r)
        BY <1>3, <1>5, WriteInHand
    <2>2. Written(r).version = aggregate[r].version + 1
        BY <1>5 DEF Written, Updated
    <2>3. QED
        BY <2>1, <2>2
<1>7. table[p].version \in Nat
    BY <1>3, <1>6 DEF IInv, TypeOK, UowTypeOK, Row
<1>8. table'[p] # table[p]
    BY <1>4, <1>6, <1>7
<1>9. table'[p] # NoRow
    BY <1>3, <1>6, RowsStay
<1>10. QED
    BY <1>1, <1>6, <1>8, <1>9, PeriodSteps

LEMMA StepKeepsAnswers ==
    ASSUME IInv, NEW r \in Requests, Step(r)
    PROVE  AnswersHold'
<1>0. AnswersHold /\ TypeOK /\ approvals \in [Periods -> Nat] /\ departures \in [Periods -> Nat]
    BY DEF IInv, TypeOK
<1>1. CASE Return(r)
    <2>1. \A p \in Periods, op \in {"approve", "leave"} : ~Answered(r, op, p)'
        BY <1>0, <1>1 DEF Return, TypeOK, Answered
    <2>2. \A s \in Requests \ {r}, p \in Periods, op \in {"approve", "leave"} :
            Answered(s, op, p)' <=> Answered(s, op, p)
        BY OthersStand DEF Answered
    <2>3. UNCHANGED table
        BY <1>1 DEF Return, Close
    <2>4. \A p \in Periods :
            /\ approvals'[p] = IF Answered(r, "approve", p) THEN approvals[p] + 1 ELSE approvals[p]
            /\ departures'[p] = IF Answered(r, "leave", p) THEN departures[p] + 1 ELSE departures[p]
        BY <1>0, <1>1 DEF Return, Counted, Answered
    <2>5. QED
        BY <1>0, <2>1, <2>2, <2>3, <2>4 DEF AnswersHold, OkIsFinal
<1>2. CASE ~Return(r)
    <2>1. UNCHANGED <<approvals, departures>>
        BY <1>2, AnswerSteps
    <2>2. ASSUME NEW s \in Requests, NEW p \in Periods, NEW op \in {"approve", "leave"},
                 Answered(s, op, p)'
          PROVE  \/ Answered(s, op, p)
                 \/ /\ s = r /\ ~Answered(s, op, p)
                    /\ table[p] # NoRow /\ table'[p] # NoRow
                    /\ op = "approve" =>
                        table[p].data.status = "PENDING" /\ table'[p].data.status = "ACTIVE"
                    /\ op = "leave" =>
                        table[p].data.status # "LEAVED" /\ table'[p].data.status = "LEAVED"
        BY <1>2, <2>2, AnswersAreEarned, OthersStand DEF Answered
    <2>3. OkIsFinal'
        BY <1>0, <2>1, StatusMoves DEF AnswersHold, OkIsFinal
    <2>4. ASSUME NEW s \in Requests, NEW p \in Periods
          PROVE  /\ Answered(s, "approve", p)' =>
                    table'[p] # NoRow /\ table'[p].data.status # "PENDING" /\ approvals'[p] = 0
                 /\ Answered(s, "leave", p)' =>
                    table'[p] # NoRow /\ table'[p].data.status = "LEAVED" /\ departures'[p] = 0
        <3>1. approvals[p] \in Nat /\ departures[p] \in Nat
            BY <1>0
        <3>2. CASE Answered(s, "approve", p)'
            BY <1>0, <2>1, <2>2, <3>1, <3>2, StatusMoves DEF AnswersHold, OkIsFinal, Answered
        <3>3. CASE Answered(s, "leave", p)'
            BY <1>0, <2>1, <2>2, <3>1, <3>3, StatusMoves DEF AnswersHold, OkIsFinal, Answered
        <3>4. QED
            BY <3>2, <3>3
    <2>5. ASSUME NEW s \in Requests, NEW o \in Requests, NEW p \in Periods,
                 NEW op \in {"approve", "leave"}, Answered(s, op, p)', Answered(o, op, p)'
          PROVE  s = o
        BY <1>0, <2>2, <2>5 DEF AnswersHold
    <2>6. QED
        BY <2>3, <2>4, <2>5 DEF AnswersHold
<1>3. QED
    BY <1>1, <1>2

-----------------------------------------------------------------------------
(* The invariant *)

\* A stored team or user is as an earlier life of the program has written it.
LEMMA InitRows ==
    ASSUME Init
    PROVE  /\ table \in [Ids -> Row \cup {NoRow}]
           /\ \A id \in Ids : table[id] # NoRow => id \in issued /\ Whole(id, table[id])
           /\ \A p \in Periods : table[p] = NoRow
<1>. DEFINE Stored == UNION {StoredRows(id) : id \in Ids}
<1>1. table \in [Ids -> Stored] /\ \A id \in Ids : table[id] \in StoredRows(id)
    BY DEF Init
<1>. HIDE DEF Stored
<1>2. ASSUME NEW id \in Ids, NEW row \in StoredRows(id), row # NoRow
      PROVE  row \in Row /\ Whole(id, row) /\ id \in StoredTeams \cup StoredUsers
    <2>1. PICK data \in DataOf(id) : row = RowOf(data, 0) /\ id \in StoredTeams \cup StoredUsers
        BY <1>2, KindsOfData, DirectoryAssumption DEF StoredRows
    <2>2. QED
        BY <2>1, RowOfType
<1>3. \A p \in Periods : StoredRows(p) = {NoRow}
    BY DirectoryAssumption DEF StoredRows
<1>4. QED
    BY <1>1, <1>2, <1>3 DEF Init, Ids

LEMMA InitKeys ==
    ASSUME Init
    PROVE  KeysInv
<1>1. ASSUME NEW i \in Ids, NEW j \in Ids, table[i] # NoRow, table[j] # NoRow,
             table[i].key = table[j].key, table[i].key # NoKey
      PROVE  i = j
    <2>1. ASSUME NEW id \in Ids, table[id] # NoRow, table[id].key # NoKey
          PROVE  id \in StoredUsers
        <3>1. table[id] \in StoredRows(id)
            BY DEF Init
        <3>2. id \in StoredTeams => table[id].key = NoKey
            BY <3>1, EntryOf DEF StoredRows, RowOf
        <3>3. QED
            BY <2>1, <3>1, <3>2 DEF StoredRows
    <2>2. i \in StoredUsers /\ j \in StoredUsers
        BY <1>1, <2>1
    <2>3. QED
        BY <1>1, <2>2 DEF Init, EmailsDiffer
<1>2. \A r \in Requests, id \in Ids : pending[r][id] = Untouched /\ View(r, id) = table[id]
    BY DEF Init, NoWrites, View
<1>3. QED
    BY <1>1, <1>2 DEF KeysInv, KeysUnique, EntriesUnique, EntriesExclusive, HoldsKey

LEMMA InitIInv ==
    ASSUME Init
    PROVE  IInv
<1>0. /\ \A r \in Requests : /\ pc[r] = "idle" /\ command[r] = NoCommand
                             /\ aggregate[r] = NoAggregate /\ active[r] = FALSE
                             /\ answer[r] = "none"
      /\ \A r \in Requests, id \in Ids : pending[r][id] = Untouched
    BY DEF Init, NoWrites
<1>1. TypeOK
    <2>1. UowTypeOK
        BY InitRows, NoWritesType DEF Init, UowTypeOK
    <2>2. issued \subseteq Ids /\ served \in 0 .. MaxRequests
        BY DirectoryAssumption DEF Init, Ids
    <2>3. QED
        BY <2>1, <2>2 DEF Init, TypeOK, Places, Answers
<1>2. WorkInOrder /\ WritesAreOwn /\ AggregatesAreCurrent /\ RowsExclusive /\ PartiesFound
    BY <1>0 DEF WorkInOrder, WritesAreOwn, AggregatesAreCurrent, RowsExclusive, PartiesFound, Doing
<1>3. RowsAreWhole /\ NewIsPrivate
    BY <1>0, InitRows DEF RowsAreWhole, NewIsPrivate, Doing
<1>4. KeysInv
    BY InitKeys
<1>5. PartiesExist
    BY InitRows DEF PartiesExist
<1>6. AnswersHold
    BY <1>0, InitRows DEF Init, AnswersHold, OkIsFinal, Answered
<1>7. QED
    BY <1>1, <1>2, <1>3, <1>4, <1>5, <1>6 DEF IInv

LEMMA StutterIInv ==
    ASSUME IInv, UNCHANGED vars
    PROVE  IInv'
BY DEF IInv, vars, database, requestVars, history, TypeOK, UowTypeOK, WorkInOrder, RowsAreWhole,
    Whole, NewIsPrivate, WritesAreOwn, Written, AggregatesAreCurrent, RowsExclusive, KeysInv,
    KeysUnique, EntriesUnique, EntriesExclusive, HoldsKey, View, PartiesFound, PartiesExist,
    AnswersHold, Answered, OkIsFinal, Doing

LEMMA NextIsStep ==
    ASSUME [Next]_vars
    PROVE  UNCHANGED vars \/ \E r \in Requests : Step(r)
BY DEF Next, Exhausted, Step

\* The invariant is inductive: it holds in every state that the handlers reach.
THEOREM Invariance == Spec => []IInv
<1>1. Init => IInv
    BY InitIInv
<1>2. IInv /\ [Next]_vars => IInv'
    <2>1. ASSUME IInv, NEW r \in Requests, Step(r) PROVE IInv'
        <3>1. TypeOK'
            BY <2>1, StepKeepsType DEF Step
        <3>2. WorkInOrder' /\ RowsAreWhole' /\ NewIsPrivate'
            BY <2>1, StepKeepsWorkInOrder, StepKeepsRowsWhole, StepKeepsNewPrivate
        <3>3. WritesAreOwn' /\ AggregatesAreCurrent' /\ RowsExclusive'
            BY <2>1, StepKeepsWrites, StepKeepsAggregates, StepKeepsRowsExclusive
        <3>4. KeysInv'
            BY <2>1, <3>1, <3>3, StepKeepsKeys
        <3>5. PartiesFound' /\ PartiesExist' /\ AnswersHold'
            BY <2>1, StepKeepsPartiesFound, StepKeepsParties, StepKeepsAnswers
        <3>6. QED
            BY <3>1, <3>2, <3>3, <3>4, <3>5 DEF IInv
    <2>2. QED
        BY <2>1, NextIsStep, StutterIInv
<1>3. QED
    BY <1>1, <1>2, PTL DEF Spec

\* Every variable keeps its type.
THEOREM TypesAreCorrect == Spec => []TypeOK
<1>1. IInv => TypeOK
    BY DEF IInv
<1>2. QED
    BY <1>1, Invariance, PTL

\* No committed membership refers to a team or a user that is not there, though
\* no foreign key guards it: the checks of JoinTeamHandler and
\* RequestJoinTeamHandler suffice, as no use case removes a team or a user.
THEOREM PartiesAreThere == Spec => []PartiesExist
<1>1. IInv => PartiesExist
    BY DEF IInv
<1>2. QED
    BY <1>1, Invariance, PTL

\* However many requests race for it, one approval and one leave of a period are
\* answered Ok, and what was answered still holds.
THEOREM AnswersAreFinal == Spec => []OkIsFinal
<1>1. IInv => OkIsFinal
    BY DEF IInv, AnswersHold
<1>2. QED
    BY <1>1, Invariance, PTL

-----------------------------------------------------------------------------
(* The lifecycle of a period *)

\* The periods of the lifecycle are the committed rows of team_memberships.
StoredPeriods == [p \in Periods |-> IF table[p] = NoRow THEN NoRow ELSE table[p].data]

LEMMA StoredChanges ==
    ASSUME NEW p \in Periods, table'[p] # NoRow,
           \A q \in Periods \ {p} : table'[q] = table[q]
    PROVE  StoredPeriods' = [StoredPeriods EXCEPT ![p] = table'[p].data]
BY DEF StoredPeriods

\* A new row of team_memberships opens a period.
LEMMA InsertOpensPeriod ==
    ASSUME IInv, IInv', NEW r \in Requests, Step(r), NEW p \in Periods,
           table[p] = NoRow, table'[p] # table[p]
    PROVE  \E t \in Teams, u \in Users, status \in {"PENDING", "ACTIVE"} :
            Lifecycle!OpenPeriod(p, t, u, status)
<1>0. p \in Ids
    BY DEF Ids
<1>1. /\ command[r] \in Command /\ command[r].id = p /\ command[r].op \in Inserting
      /\ table'[p] # NoRow /\ table'[p].data = InitialData(command[r])
    BY <1>0, CommitSteps DEF Doing
<1>. DEFINE t == command[r].team
            u == command[r].user
<1>2. command[r].op \in Entering /\ t \in Teams /\ u \in Users
    BY <1>1, PeriodCommands, CommandType
<1>3. PICK status \in {"PENDING", "ACTIVE"} :
        table'[p].data = [team |-> t, user |-> u, role |-> InitialRole, status |-> status]
    BY <1>1, <1>2 DEF InitialData, Joined, JoinRequested, Entering
<1>4. \A q \in Periods \ {p} : table'[q] = table[q]
    BY <1>1, CommitSteps DEF Ids
<1>5. StoredPeriods' = [StoredPeriods EXCEPT ![p] =
        [team |-> t, user |-> u, role |-> InitialRole, status |-> status]]
    BY <1>1, <1>3, <1>4, StoredChanges
<1>6. ASSUME NEW q \in Periods, table[q] # NoRow, table[q].data.status # "LEAVED",
             table[q].data.team = t, table[q].data.user = u
      PROVE  FALSE
    <2>1. table'[q] # NoRow /\ table'[q].data = table[q].data /\ q # p /\ q \in Ids
        BY <1>4, <1>6 DEF Ids
    <2>2. table'[q].data \in PeriodData /\ table'[p].data \in PeriodData
        BY <1>0, <1>1, <2>1, KindsOfData DEF IInv, RowsAreWhole, Whole
    <2>3. table'[q].key = <<t, u>> /\ table'[p].key = <<t, u>>
        <3>1. table'[q].key = UniqueKey(table'[q].data) /\ table'[p].key = UniqueKey(table'[p].data)
            BY <1>0, <1>1, <2>1 DEF IInv, RowsAreWhole, Whole, UniqueKey
        <3>2. table'[q].data.status \in {"PENDING", "ACTIVE"}
            BY <1>6, <2>1, <2>2 DEF PeriodData
        <3>3. QED
            BY <1>3, <1>6, <2>1, <2>2, <3>1, <3>2, EntryOf
    <2>4. <<t, u>> # NoKey
        BY <1>2, NothingsAssumption DEF Keys
    <2>5. QED
        BY <1>0, <1>1, <2>1, <2>3, <2>4 DEF IInv, KeysInv, KeysUnique
<1>. HIDE DEF t, u
<1>7. Lifecycle!OpenPeriod(p, t, u, status)
    <2>1. ~Lifecycle!Exists(p)
        BY DEF Lifecycle!Exists
    <2>2. ASSUME NEW q \in Periods, Lifecycle!Current(q), StoredPeriods[q].team = t,
                 StoredPeriods[q].user = u
          PROVE  FALSE
        <3>1. table[q] # NoRow /\ StoredPeriods[q] = table[q].data
            BY <2>2 DEF Lifecycle!Current, Lifecycle!Exists, StoredPeriods
        <3>2. table[q].data.status # "LEAVED"
            BY <2>2, <3>1 DEF Lifecycle!Current, StoredPeriods
        <3>3. QED
            BY <1>6, <2>2, <3>1, <3>2
    <2>3. QED
        BY <1>5, <2>1, <2>2 DEF Lifecycle!OpenPeriod, StoredPeriods
<1>8. QED
    BY <1>2, <1>7

\* An update of a row of team_memberships approves its period, gives it a role or
\* ends it.
LEMMA UpdateMovesPeriod ==
    ASSUME IInv, NEW r \in Requests, Step(r), NEW p \in Periods,
           table[p] # NoRow, table'[p] # table[p]
    PROVE  \/ Lifecycle!ApprovePeriod(p)
           \/ \E role \in Roles : Lifecycle!GiveRole(p, role)
           \/ Lifecycle!LeavePeriod(p)
<1>1. table'[p] # NoRow
    BY RowsStay DEF Ids
<1>2. \A q \in Periods \ {p} : table'[q] = table[q]
    BY CommitSteps DEF Ids
<1>3. StoredPeriods' = [StoredPeriods EXCEPT ![p] = table'[p].data]
    BY <1>1, <1>2, StoredChanges
<1>. DEFINE data == table[p].data
<1>4. StoredPeriods[p] = data /\ data # NoRow
    BY PeriodRows, NothingsAssumption DEF StoredPeriods
<1>5. /\ \A x : [StoredPeriods EXCEPT ![p] = [data EXCEPT !.status = x]]
                    = [StoredPeriods EXCEPT ![p].status = x]
      /\ \A x : [StoredPeriods EXCEPT ![p] = [data EXCEPT !.role = x]]
                    = [StoredPeriods EXCEPT ![p].role = x]
    <2>. HIDE DEF data
    <2>1. QED
        BY <1>4
<1>6. \/ /\ data.status = "PENDING"
         /\ table'[p].data = [data EXCEPT !.status = "ACTIVE"]
      \/ /\ data.status # "LEAVED"
         /\ table'[p].data = [data EXCEPT !.status = "LEAVED"]
      \/ /\ data.status # "LEAVED"
         /\ \E role \in Roles : table'[p].data = [data EXCEPT !.role = role]
    BY PeriodSteps
<1>. HIDE DEF data
<1>7. CASE data.status = "PENDING" /\ table'[p].data = [data EXCEPT !.status = "ACTIVE"]
    <2>1. StoredPeriods' = [StoredPeriods EXCEPT ![p].status = "ACTIVE"]
        BY <1>3, <1>5, <1>7
    <2>2. QED
        BY <1>4, <1>7, <2>1 DEF StoredPeriods, Lifecycle!ApprovePeriod, Lifecycle!Exists
<1>8. CASE data.status # "LEAVED" /\ table'[p].data = [data EXCEPT !.status = "LEAVED"]
    <2>1. StoredPeriods' = [StoredPeriods EXCEPT ![p].status = "LEAVED"]
        BY <1>3, <1>5, <1>8
    <2>2. QED
        BY <1>4, <1>8, <2>1
        DEF StoredPeriods, Lifecycle!LeavePeriod, Lifecycle!Exists, Lifecycle!Current
<1>9. ASSUME data.status # "LEAVED", NEW role \in Roles,
             table'[p].data = [data EXCEPT !.role = role]
      PROVE  Lifecycle!GiveRole(p, role)
    <2>1. StoredPeriods' = [StoredPeriods EXCEPT ![p].role = role]
        BY <1>3, <1>5, <1>9
    <2>2. QED
        BY <1>4, <1>9, <2>1
        DEF StoredPeriods, Lifecycle!GiveRole, Lifecycle!Exists, Lifecycle!Current
<1>10. QED
    BY <1>6, <1>7, <1>8, <1>9

\* Concurrent handlers, with their checks, flushes, conflicts, failures and
\* cancellations, amount to the indivisible steps of the lifecycle: only the end
\* of a transaction that has written a membership is one, and every other step
\* leaves the periods alone.
THEOREM RefinesLifecycle == Spec => ImplementsLifecycle
<1>1. Init => Lifecycle!LifecycleInit
    BY InitRows DEF Lifecycle!LifecycleInit
<1>2. IInv /\ IInv' /\ [Next]_vars => Lifecycle!LifecycleNext \/ UNCHANGED StoredPeriods
    <2>1. ASSUME IInv, IInv', NEW r \in Requests, Step(r)
          PROVE  Lifecycle!LifecycleNext \/ UNCHANGED StoredPeriods
        <3>1. CASE \A p \in Periods : table'[p] = table[p]
            BY <3>1 DEF StoredPeriods
        <3>2. CASE \E p \in Periods : table'[p] # table[p]
            BY <2>1, <3>2, InsertOpensPeriod, UpdateMovesPeriod DEF Lifecycle!LifecycleNext
        <3>3. QED
            BY <3>1, <3>2
    <2>2. UNCHANGED vars => UNCHANGED StoredPeriods
        BY DEF vars, database, StoredPeriods
    <2>3. QED
        BY <2>1, <2>2, NextIsStep
<1>3. IInv /\ IInv' /\ [Next]_vars =>
        [Lifecycle!LifecycleNext]_[p \in Periods |-> IF table[p] = NoRow THEN NoRow ELSE table[p].data]
    BY <1>2 DEF StoredPeriods
<1>4. QED
    BY <1>1, <1>3, Invariance, PTL DEF Spec, ImplementsLifecycle, Lifecycle!LifecycleSpec

-----------------------------------------------------------------------------
(* What a request is told *)

\* Only a failed version check tells of a version conflict, and only a unique
\* index of an entry that is already there.
LEMMA WhoIsTold ==
    ASSUME IInv, NEW r \in Requests, Step(r), NEW s \in Requests
    PROVE  /\ Told(s, "version_conflict") => s = r /\ (UpdateCheck(r) \/ StaleFlush(r))
           /\ Told(s, "already_exists") => s = r /\ KeyConflict(r)
<1>1. CASE s # r
    BY <1>1, OthersStand DEF Told
<1>2. CASE s = r /\ Receive(r)
    BY <1>2, CommandsReceived DEF Receives, Told
<1>3. CASE s = r /\ (UpdateCheck(r) \/ StaleFlush(r) \/ KeyConflict(r))
    <2>1. UpdateCheck(r) \/ StaleFlush(r) => answer'[r] # "already_exists"
        BY DEF UpdateCheck, StaleFlush, StaleResult, Reply, Told, At, IInv, TypeOK, WorkInOrder
    <2>2. KeyConflict(r) => answer'[r] # "version_conflict"
        BY DEF KeyConflict, Reply, IInv, TypeOK
    <2>3. QED
        BY <1>3, <2>1, <2>2 DEF Told
<1>4. CASE s = r /\ (FindTeam(r) \/ FindUser(r) \/ LoadMissing(r) \/ Load(r))
    BY <1>4 DEF FindTeam, FindUser, LoadMissing, Load, Reply, Told, IInv, TypeOK
<1>5. CASE s = r /\ (InsertFlush(r) \/ UpdateFlush(r) \/ Commit(r) \/ Return(r))
    BY <1>5 DEF InsertFlush, UpdateFlush, Commit, Return, Reply, Told, IInv, TypeOK
<1>6. CASE s = r /\ Trouble(r)
    BY <1>6 DEF Trouble, StatementError, CommitFails, Cancel, Reply, Told, IInv, TypeOK
<1>7. QED
    BY <1>1, <1>2, <1>3, <1>4, <1>5, <1>6 DEF Step, Work

\* A request told VERSION_CONFLICT has lost to one that did commit.
THEOREM ConflictsHaveWinners == Spec => ConflictsAreReal
<1>1. ASSUME IInv, NEW r \in Requests, Told(r, "version_conflict"),
             UpdateCheck(r) \/ StaleFlush(r)
      PROVE  table[aggregate[r].id].version > aggregate[r].version
    <2>. DEFINE a == aggregate[r]
    <2>1. pc[r] \in {"check", "update"} /\ Doing(r, Updating) /\ a # NoAggregate
        BY <1>1 DEF UpdateCheck, StaleFlush, At, IInv, WorkInOrder
    <2>2. a \in Aggregate /\ a.id \in Ids /\ a.version \in Nat
        BY <1>1, <2>1 DEF IInv, TypeOK, Aggregate
    <2>3. View(r, a.id) = table[a.id]
        BY <1>1, <2>1, <2>2, ViewBeforeWrite
    <2>4. View(r, a.id) = NoRow \/ View(r, a.id).version # a.version
        <3>1. UpdateCheck(r) => ~VersionMatches(r, a.id, a.version)
            BY <1>1, <2>1 DEF UpdateCheck, Told
        <3>2. StaleFlush(r) => ~MatchesWhere(r, a.id, a.version)
            BY DEF StaleFlush
        <3>3. QED
            BY <1>1, <3>1, <3>2 DEF VersionMatches, MatchesWhere
    <2>5. table[a.id] # NoRow /\ a.version <= table[a.id].version
        BY <1>1, <2>1 DEF IInv, AggregatesAreCurrent
    <2>6. table[a.id].version \in Nat
        BY <1>1, <2>2, <2>5 DEF IInv, TypeOK, UowTypeOK, Row
    <2>7. QED
        BY <2>2, <2>3, <2>4, <2>5, <2>6
<1>2. IInv /\ [Next]_vars =>
        [\A r \in Requests : Told(r, "version_conflict") =>
            table[aggregate[r].id].version > aggregate[r].version]_vars
    BY <1>1, NextIsStep, WhoIsTold
<1>3. QED
    BY <1>2, Invariance, PTL DEF Spec, ConflictsAreReal

\* A user is kept out of a team as already there only beside a current period of
\* the same user and team: the entry in the way is a membership's, of that key.
THEOREM WayBackIsOpen == Spec => RejoinAllowed
<1>. DEFINE BesideCurrent(r) ==
        \E p \in Periods :
            /\ table[p] # NoRow
            /\ table[p].data.team = command[r].team
            /\ table[p].data.user = command[r].user
            /\ table[p].data.status \in {"PENDING", "ACTIVE"}
<1>1. ASSUME IInv, NEW r \in Requests, KeyConflict(r),
             command[r].op \in {"join", "request_join"}
      PROVE  BesideCurrent(r)
    <2>. DEFINE t == command[r].team
                u == command[r].user
                a == aggregate[r]
    <2>1. pc[r] \in {"insert", "update"} /\ Doing(r, Entering) /\ Doing(r, Inserting)
        <3>1. pc[r] \in {"insert", "update"}
            BY <1>1 DEF KeyConflict
        <3>2. command[r] # NoCommand
            BY <1>1, <3>1 DEF IInv, WorkInOrder
        <3>3. QED
            BY <1>1, <3>1, <3>2 DEF Doing, Entering, Inserting
    <2>2. command[r] \in Command /\ t \in Teams /\ u \in Users
        BY <1>1, <2>1, CommandInHand, CommandType DEF Doing
    <2>3. UniqueKey(a.data) = <<t, u>>
        <3>1. a.data = InitialData(command[r])
            BY <1>1, <2>1, AggregateOfCommand
        <3>2. a.data \in {Joined(t, u), JoinRequested(t, u)}
            BY <1>1, <3>1 DEF InitialData
        <3>3. a.data \in PeriodData
            BY <2>2, <3>2, DirectoryAssumption DEF Joined, JoinRequested, PeriodData
        <3>4. QED
            BY <3>2, <3>3, EntryOf DEF Joined, JoinRequested
    <2>4. PICK i \in Ids : table[i] # NoRow /\ table[i].key = <<t, u>>
        <3>1. PICK i \in Ids : View(r, i) # NoRow /\ View(r, i).key = <<t, u>>
            BY <1>1, <2>3 DEF KeyConflict, KeyTaken
        <3>2. View(r, i) = table[i]
            BY <1>1, <2>1, ViewBeforeWrite
        <3>3. QED
            BY <3>1, <3>2
    <2>5. table[i].data \in DataOf(i) /\ UniqueKey(table[i].data) = <<t, u>>
        BY <1>1, <2>4 DEF IInv, RowsAreWhole, Whole
    <2>6. <<t, u>> # NoKey /\ <<t, u>> \notin EmailKeys
        BY <2>2, NothingsAssumption, DirectoryAssumption DEF Keys
    <2>7. i \in Periods
        <3>1. i \notin Teams
            BY <2>5, <2>6, KindsOfData, EntryOf
        <3>2. i \notin Users
            <4>1. \A data \in UserData : UniqueKey(data) \in EmailKeys
                BY EntryOf DEF UserData, EmailKeys
            <4>2. QED
                BY <2>5, <2>6, <4>1, KindsOfData
        <3>3. QED
            BY <3>1, <3>2 DEF Ids
    <2>8. table[i].data \in PeriodData
        BY <2>5, <2>7, KindsOfData
    <2>9. /\ table[i].data.status \in {"PENDING", "ACTIVE"}
          /\ table[i].data.team = t /\ table[i].data.user = u
        BY <2>5, <2>6, <2>8, EntryOf
    <2>10. QED
        BY <2>4, <2>7, <2>9
<1>2. IInv /\ [Next]_vars =>
        [\A r \in Requests :
            Told(r, "already_exists") /\ command[r].op \in {"join", "request_join"} =>
                BesideCurrent(r)]_vars
    BY <1>1, NextIsStep, WhoIsTold
<1>3. QED
    BY <1>2, Invariance, PTL DEF Spec, RejoinAllowed
=============================================================================
