----------------------------- MODULE Migrations -----------------------------
(***************************************************************************)
(* The chain of Alembic revisions, run up and down by an operator while the *)
(* use cases go on writing.  The rows of team_memberships are the periods   *)
(* of MembershipLifecycle; without the partial index nothing keeps a user   *)
(* from having two current ones.                                            *)
(*                                                                         *)
(* The database is external.  PostgreSQL runs all revisions of a command in *)
(* one transaction, and a statement on a table waits for every transaction  *)
(* that has touched the table.  SQLite commits statement by statement, and  *)
(* writers take turns; a run that dies there may leave a revision applied   *)
(* and not recorded.  Each revision is one step, the last one two.          *)
(***************************************************************************)
EXTENDS MembershipLifecycle, Integers, Functions

CONSTANTS
    Handlers,   \* concurrent joins and join requests
    Messages,   \* ids of chat messages
    Targets     \* revisions an operator may name, as positions in the chain

ASSUME TargetsAssumption == Targets \subseteq 0 .. 10

Tables == {"users", "teams", "team_memberships", "chat_messages"}

VARIABLES
    dialect,    \* "postgresql" or "sqlite"
    revision,   \* alembic_version, as a position in the chain
    columns,    \* per table, its columns and their types; none if it is not there
    index,      \* uq_team_memberships_current_period exists
    rows,       \* per table but team_memberships, the ids of its rows
    run,        \* the alembic command under way
    view,       \* what its transaction has made of the database
    touched,    \* the tables it has locked
    joins,      \* per handler, the period it is about to open
    torn        \* history: tables that a revision has altered without being recorded

schema == <<revision, columns, index>>
database == <<schema, rows, periods>>
runner == <<run, view, touched>>
migrationVars == <<dialect, database, runner, joins, torn>>

NoRun == [target |-> -1, offline |-> FALSE, checked |-> FALSE]
Idle == [place |-> "idle"]
Transactional == dialect = "postgresql"
Running == run # NoRun

-----------------------------------------------------------------------------
(* The revisions.  A state of the database is a record of its parts.        *)

Empty == [revision |-> 0, columns |-> [t \in Tables |-> << >>], index |-> FALSE,
          rows |-> [t \in Tables |-> {}], periods |-> [p \in Periods |-> NoPeriod]]

Without(f, names) == Restrict(f, DOMAIN f \ names)
Typed(names, type) == [name \in names |-> type]
\* These columns and more, the former as they are here.
cols ++ more ==
    [name \in DOMAIN cols \cup DOMAIN more |->
        IF name \in DOMAIN cols THEN cols[name] ELSE more[name]]

Put(d, t, cols) == [d EXCEPT !.columns[t] = cols ++ @]
Times == {"created_at", "updated_at"}

\* What CREATE TABLE and DROP TABLE do, the latter to rows and index as well.
Created(d, t, cols) == [d EXCEPT !.columns[t] = cols]
Dropped(d, t) ==
    [d EXCEPT !.columns[t] = << >>, !.rows[t] = {},
              !.index = @ /\ t # "team_memberships",
              !.periods = IF t = "team_memberships" THEN Empty.periods ELSE @]

\* A column that may be null, or not; of whatever type it is.
OrNull(type) ==
    CASE type = "time" -> "time or null" [] type = "text" -> "text or null" [] OTHER -> type
NotNull(type) ==
    CASE type = "time or null" -> "time" [] type = "text or null" -> "text" [] OTHER -> type
\* The timestamps of users as Of has them.
Timed(d, Of(_)) ==
    [d EXCEPT !.columns["users"] =
        [name \in DOMAIN @ |-> IF name \in Times THEN Of(@[name]) ELSE @[name]]]

\* 22c0012f5007
UsersUp(d) ==
    Created(d, "users", Typed({"name", "email"}, "text") ++ Typed({"id"}, "integer")
                            ++ Typed(Times, "text or null"))
UsersDown(d) == Dropped(d, "users")

\* b90f56e7dd7e: new columns under the old names; what was in the old ones is gone.
TimesUp(d) == Put(d, "users", Typed(Times, "time"))
TimesDown(d) == Put(d, "users", Typed(Times, "text or null"))

\* a4c872a7f6b8: no integer has a ULID, so the users go, both ways.
RekeyUp(d) == Put([d EXCEPT !.rows["users"] = {}], "users", Typed({"id"}, "ulid"))
RekeyDown(d) == Put([d EXCEPT !.rows["users"] = {}], "users", Typed({"id"}, "integer"))

\* 5d421434096f
TeamsUp(d) ==
    Created(d, "teams", Typed({"name"}, "text") ++ Typed({"id"}, "ulid")
                            ++ Typed(Times, "time or null"))
TeamsDown(d) == Dropped(d, "teams")

\* d71330ad48f7
RenameUp(d) ==
    [d EXCEPT !.columns["users"] = Without(@, {"name"}) ++ Typed({"display_name"}, "text")]
RenameDown(d) ==
    [d EXCEPT !.columns["users"] = Without(@, {"display_name"}) ++ Typed({"name"}, "text")]

\* 11ad26d53a2d and 482fd29108a3
TeamVersionsUp(d) == Put(d, "teams", Typed({"version"}, "integer"))
TeamVersionsDown(d) == [d EXCEPT !.columns["teams"] = Without(@, {"version"})]
UserVersionsUp(d) == Put(d, "users", Typed({"version"}, "integer"))
UserVersionsDown(d) == [d EXCEPT !.columns["users"] = Without(@, {"version"})]

\* 2473e1c2c7de also lets the timestamps of users be null.
MembershipsMade(d) ==
    Created(d, "team_memberships",
            Typed({"id", "team_id", "user_id"}, "ulid") ++ Typed({"role", "status"}, "text")
                ++ Typed({"version"}, "integer") ++ Typed(Times, "time or null"))
MembershipsUp(d) == Timed(MembershipsMade(d), OrNull)
\* Mutant: the columns of users are not restored.
MembershipsDownHalf(d) == Dropped(d, "team_memberships")
MembershipsDown(d) == Dropped(Timed(d, NotNull), "team_memberships")

\* 3b8c4d2e1f90
ChatMessagesUp(d) ==
    Created(d, "chat_messages",
            Typed({"platform", "external_sender_id", "author_kind"}, "text")
                ++ Typed({"conversation_scope", "content"}, "json")
                ++ Typed({"id"}, "ulid") ++ Typed({"occurred_at"}, "time"))
ChatMessagesDown(d) == Dropped(d, "chat_messages")

\* 7d5f0d6a2b31
IndexUp(d) == [d EXCEPT !.index = TRUE]
IndexDown(d) == [d EXCEPT !.index = FALSE]

HeadRevision == 10

Upgrade(i, d) ==
    CASE i = 1 -> UsersUp(d) [] i = 2 -> TimesUp(d) [] i = 3 -> RekeyUp(d)
      [] i = 4 -> TeamsUp(d) [] i = 5 -> RenameUp(d) [] i = 6 -> TeamVersionsUp(d)
      [] i = 7 -> UserVersionsUp(d) [] i = 8 -> MembershipsUp(d)
      [] i = 9 -> ChatMessagesUp(d) [] i = 10 -> IndexUp(d)

Downgrade(i, d) ==
    CASE i = 1 -> UsersDown(d) [] i = 2 -> TimesDown(d) [] i = 3 -> RekeyDown(d)
      [] i = 4 -> TeamsDown(d) [] i = 5 -> RenameDown(d) [] i = 6 -> TeamVersionsDown(d)
      [] i = 7 -> UserVersionsDown(d) [] i = 8 -> MembershipsDown(d)
      [] i = 9 -> ChatMessagesDown(d) [] i = 10 -> IndexDown(d)

\* The tables that revision i alters.
Altered(i) ==
    CASE i \in {1, 2, 3, 5, 7} -> {"users"} [] i \in {4, 6} -> {"teams"}
      [] i = 8 -> {"users", "team_memberships"} [] i = 9 -> {"chat_messages"}
      [] i = 10 -> {"team_memberships"}

SchemaAt[i \in 0 .. HeadRevision] == IF i = 0 THEN Empty ELSE Upgrade(i, SchemaAt[i - 1])

\* A script made with --sql cannot rebuild a table of SQLite.
Scriptable(i) == Transactional \/ i \notin {3, 5, 6, 7, 8}

\* Of the tables of revision i, which leads from one schema to another: d has those
\* that it alters or drops and none that it makes, of the former the columns that
\* it changes or drops and none that it adds; and the index if it drops that.
Fits(i, from, to, d) ==
    /\ \A t \in Altered(i) :
        LET old == from.columns[t] new == to.columns[t] found == DOMAIN d.columns[t] IN
        /\ found = {} <=> old = << >>
        /\ << >> \notin {old, new} =>
            /\ (DOMAIN new \ DOMAIN old) \cap found = {}
            /\ \A name \in DOMAIN old \ found : name \in DOMAIN new /\ new[name] = old[name]
    /\ from.index # to.index => d.index = from.index

\* What the use cases need of a table: the columns of its ORM model.
OrmColumns ==
    [users |-> Typed({"display_name", "email"}, "text") ++ Typed(Times, "time or null")
                ++ Typed({"id"}, "ulid") ++ Typed({"version"}, "integer"),
     teams |-> Typed({"name"}, "text") ++ Typed(Times, "time or null")
                ++ Typed({"id"}, "ulid") ++ Typed({"version"}, "integer"),
     team_memberships |->
        Typed({"id", "team_id", "user_id"}, "ulid") ++ Typed({"role", "status"}, "text")
            ++ Typed(Times, "time or null") ++ Typed({"version"}, "integer"),
     chat_messages |->
        Typed({"platform", "external_sender_id", "author_kind"}, "text")
            ++ Typed({"conversation_scope", "content"}, "json")
            ++ Typed({"id"}, "ulid") ++ Typed({"occurred_at"}, "time")]

\* A statement of a use case on t does not fail for the schema.
Usable(t) ==
    /\ DOMAIN OrmColumns[t] \subseteq DOMAIN columns[t]
    /\ columns[t]["id"] = OrmColumns[t]["id"]

-----------------------------------------------------------------------------
Stored == [revision |-> revision, columns |-> columns, index |-> index,
           rows |-> rows, periods |-> periods]

\* What the command finds: the tables it has locked as it left them, the others
\* as they are.
Seen ==
    IF Transactional /\ Running
    THEN [view EXCEPT
            !.rows = [t \in Tables |-> IF t \in touched THEN view.rows[t] ELSE rows[t]],
            !.periods = IF "team_memberships" \in touched THEN @ ELSE periods]
    ELSE Stored

Install(d) ==
    /\ revision' = d.revision
    /\ columns' = d.columns
    /\ index' = d.index
    /\ rows' = d.rows
    /\ periods' = d.periods

\* Mutant: team and user are looked up in a scope of their own.
UsesWhatItWrites(h) == IF joins[h].place = "inserted" THEN {"team_memberships"} ELSE {}

\* The tables that the transaction of h has touched: one scope for the lookups
\* and the INSERT.
Uses(h) ==
    CASE joins[h].place = "idle" -> {}
      [] joins[h].place = "found" -> {"users", "teams"}
      [] joins[h].place = "inserted" -> {"users", "teams", "team_memberships"}

Writing(h) == joins[h].place = "inserted"

\* The command's statements on these tables need not wait.
CanAlter(ts) ==
    \A h \in Handlers : IF Transactional THEN Uses(h) \cap ts = {} ELSE ~Writing(h)

\* A use case's statement on table t need not wait: neither for the command nor,
\* if it writes to SQLite, for another writer.
CanRead(t) == t \notin touched
CanWrite(h, t) ==
    /\ t \notin touched
    /\ Transactional \/ \A o \in Handlers \ {h} : ~Writing(o)

\* Two periods are current for one team and user, among those of d.
Duplicates(d) ==
    \E p, q \in Periods :
        /\ p # q /\ NoPeriod \notin {d.periods[p], d.periods[q]}
        /\ "LEAVED" \notin {d.periods[p].status, d.periods[q].status}
        /\ d.periods[p].team = d.periods[q].team
        /\ d.periods[p].user = d.periods[q].user

EndRun == run' = NoRun /\ view' = Empty /\ touched' = {}

-----------------------------------------------------------------------------
MigrationsInit ==
    /\ dialect \in {"postgresql", "sqlite"}
    /\ revision = 0 /\ columns = Empty.columns /\ index = FALSE
    /\ rows = Empty.rows /\ LifecycleInit
    /\ run = NoRun /\ view = Empty /\ touched = {}
    /\ joins = [h \in Handlers |-> Idle]
    /\ torn = {}

\* alembic upgrade or downgrade, online or as a script made with --sql for the
\* revisions that are due, applied by a tool that stops at the first error.
Start(target, offline) ==
    /\ ~Running
    /\ target # revision
    /\ run' = [target |-> target, offline |-> offline, checked |-> FALSE]
    /\ view' = IF Transactional THEN Stored ELSE Empty
    /\ UNCHANGED <<dialect, database, touched, joins, torn>>

Upgrading == Running /\ Seen.revision < run.target
Downgrading == Running /\ Seen.revision > run.target

\* Mutant: duplicates are resolved by deleting a row.
PreflightDeletes ==
    /\ Upgrading /\ Seen.revision = HeadRevision - 1 /\ ~run.offline /\ ~run.checked
    /\ run' = [run EXCEPT !.checked = TRUE]
    /\ IF Duplicates(Seen)
       THEN \E p \in Periods : Exists(p) /\ periods' = [periods EXCEPT ![p] = NoPeriod]
       ELSE UNCHANGED periods
    /\ UNCHANGED <<dialect, schema, rows, view, touched, joins, torn>>

\* The SELECT of duplicates, by which an upgrade is refused.
Preflight ==
    /\ Upgrading /\ Seen.revision = HeadRevision - 1 /\ ~run.offline /\ ~run.checked
    /\ IF Duplicates(Seen) THEN EndRun
       ELSE run' = [run EXCEPT !.checked = TRUE] /\ UNCHANGED <<view, touched>>
    /\ UNCHANGED <<dialect, database, joins, torn>>

\* Revision i has turned the database into d.
Record(i, d) ==
    IF Transactional
    THEN /\ view' = d
         /\ touched' = touched \cup Altered(i)
         /\ UNCHANGED <<database, run>>
    ELSE Install(d) /\ UNCHANGED runner

\* Mutant: what the preflight has found is believed when the index is made.
MayUpgradeUnchecked(i) ==
    /\ Upgrading /\ i = Seen.revision + 1
    /\ Fits(i, SchemaAt[i - 1], SchemaAt[i], Seen) /\ CanAlter(Altered(i))
    /\ run.offline => Scriptable(i)
    /\ i = HeadRevision => run.offline \/ run.checked

\* Revision i is next and will not fail; the database refuses a unique index
\* over duplicates, whatever the preflight has found.
MayUpgrade(i) ==
    /\ Upgrading /\ i = Seen.revision + 1
    /\ Fits(i, SchemaAt[i - 1], SchemaAt[i], Seen) /\ CanAlter(Altered(i))
    /\ run.offline => Scriptable(i)
    /\ i = HeadRevision => (run.offline \/ run.checked) /\ ~Duplicates(Seen)
MayDowngrade(i) ==
    /\ Downgrading /\ i = Seen.revision
    /\ Fits(i, SchemaAt[i], SchemaAt[i - 1], Seen) /\ CanAlter(Altered(i))
    /\ run.offline => Scriptable(i)

StepUp(i) ==
    /\ MayUpgrade(i)
    /\ Record(i, [Upgrade(i, Seen) EXCEPT !.revision = i])
    /\ UNCHANGED <<dialect, joins, torn>>

StepDown(i) ==
    /\ MayDowngrade(i)
    /\ Record(i, [Downgrade(i, Seen) EXCEPT !.revision = i - 1])
    /\ UNCHANGED <<dialect, joins, torn>>

\* The last revision is done; PostgreSQL commits them all.
Finish ==
    /\ Running /\ Seen.revision = run.target
    /\ Install(Seen)
    /\ EndRun
    /\ UNCHANGED <<dialect, joins, torn>>

\* A statement fails, or the process dies.
Abort ==
    /\ Running
    /\ EndRun
    /\ UNCHANGED <<dialect, database, joins, torn>>

\* On SQLite it may die after the statements of a revision and before its record.
\* DML opens a transaction for what follows: the DELETE of a4c872a7f6b8, and the
\* copy of a table that d71330ad48f7 and 2473e1c2c7de make, this one after it has
\* created its own table when it goes up.
Tears(d) == Install(d) /\ EndRun /\ UNCHANGED <<dialect, joins>>
AbortTorn(i) ==
    /\ ~Transactional
    /\ \/ /\ MayUpgrade(i) /\ i \notin {3, 5, 8} /\ Tears(Upgrade(i, Seen))
          /\ torn' = torn \cup Altered(i)
       \/ /\ MayUpgrade(i) /\ i = 8 /\ Tears(MembershipsMade(Seen))
          /\ torn' = torn \cup {"team_memberships"}
       \/ /\ MayDowngrade(i) /\ i \notin {3, 5, 8} /\ Tears(Downgrade(i, Seen))
          /\ torn' = torn \cup Altered(i)

-----------------------------------------------------------------------------
(* The use cases.                                                           *)

Insert(t, id) ==
    /\ Usable(t) /\ t \notin touched
    /\ Transactional \/ \A h \in Handlers : ~Writing(h)
    /\ rows' = [rows EXCEPT ![t] = @ \cup {id}]
    /\ UNCHANGED <<dialect, schema, periods, runner, joins, torn>>

CreateUser(u) == Insert("users", u)
CreateTeam(t) == Insert("teams", t)
SaveMessage(m) == Insert("chat_messages", m)

\* join_team and request_join_team find team and user; the transaction stays open.
FindParties(h, p, t, u, status) ==
    /\ joins[h].place = "idle"
    /\ ~Exists(p) /\ \A o \in Handlers : joins[o].place # "idle" => joins[o].period # p
    /\ Usable("users") /\ Usable("teams") /\ CanRead("users") /\ CanRead("teams")
    /\ t \in rows["teams"] /\ u \in rows["users"]
    /\ joins' = [joins EXCEPT ![h] =
                    [place |-> "found", period |-> p, team |-> t, user |-> u, status |-> status]]
    /\ UNCHANGED <<dialect, database, runner, torn>>

SameParties(a, b) == a.team = b.team /\ a.user = b.user

\* The INSERT waits for another transaction's entry in the index, and fails on a
\* committed one.
InsertPeriod(h) ==
    LET j == joins[h] IN
    /\ j.place = "found"
    /\ Usable("team_memberships") /\ CanWrite(h, "team_memberships")
    /\ index =>
        /\ \A o \in Handlers \ {h} : Writing(o) => ~SameParties(joins[o], j)
        /\ \A q \in Periods : ~(Current(q) /\ SameParties(periods[q], j))
    /\ joins' = [joins EXCEPT ![h].place = "inserted"]
    /\ UNCHANGED <<dialect, database, runner, torn>>

CommitPeriod(h) ==
    LET j == joins[h] IN
    /\ j.place = "inserted"
    /\ OpenBesideCurrent(j.period, j.team, j.user, j.status)
    /\ joins' = [joins EXCEPT ![h] = Idle]
    /\ UNCHANGED <<dialect, schema, rows, runner, torn>>

\* Any statement fails, or the task ends.
LeaveScope(h) ==
    /\ joins[h].place # "idle"
    /\ joins' = [joins EXCEPT ![h] = Idle]
    /\ UNCHANGED <<dialect, database, runner, torn>>

\* approve, leave and change_role write one row.
ChangePeriod(p) ==
    /\ Usable("team_memberships") /\ "team_memberships" \notin touched
    /\ Transactional \/ \A h \in Handlers : ~Writing(h)
    /\ ApprovePeriod(p) \/ LeavePeriod(p) \/ \E role \in Roles : GiveRole(p, role)
    /\ UNCHANGED <<dialect, schema, rows, runner, joins, torn>>

MigrationsNext ==
    \/ \E target \in Targets, offline \in BOOLEAN : Start(target, offline)
    \/ Preflight \/ Finish \/ Abort
    \/ \E i \in 1 .. HeadRevision : StepUp(i) \/ StepDown(i) \/ AbortTorn(i)
    \/ \E u \in Users : CreateUser(u)
    \/ \E t \in Teams : CreateTeam(t)
    \/ \E m \in Messages : SaveMessage(m)
    \/ \E h \in Handlers :
        \/ \E p \in Periods, t \in Teams, u \in Users, status \in {"PENDING", "ACTIVE"} :
            FindParties(h, p, t, u, status)
        \/ InsertPeriod(h) \/ CommitPeriod(h) \/ LeaveScope(h)
    \/ \E p \in Periods : ChangePeriod(p)

MigrationsSpec == MigrationsInit /\ [][MigrationsNext]_migrationVars

-----------------------------------------------------------------------------
(* Properties *)

\* What the last revision is for: however its duplicate check, the creation of
\* the index and the joins of running applications interleave, there is at most
\* one current period per team and user as long as the index exists.
OneCurrentWhileIndexed == index => OneCurrentPeriod

\* The recorded revision tells the schema, by whichever ups, downs and failures it
\* was reached.  A run that dies in the middle of a revision leaves its mark on the
\* tables of this revision and nowhere else, however the chain is run afterwards.
\* At the head it is the schema of the ORM models (the round trip and "alembic
\* check" of docs/infrastructure/DATABASE_MIGRATIONS.md).
RevisionTellsTheSchema ==
    /\ \A t \in Tables \ torn : columns[t] = SchemaAt[revision].columns[t]
    /\ "team_memberships" \notin torn => index = SchemaAt[revision].index
    /\ SchemaAt[HeadRevision].columns = OrmColumns

\* Rows vanish only with their table, users also when their ids change type; in
\* particular a refused upgrade leaves them all ("no rows were deleted").
MigrationsKeepRows ==
    [][/\ \A t \in Tables :
            \/ rows[t] \subseteq rows'[t]
            \/ columns'[t] = << >>
            \/ columns[t]["id"] # columns'[t]["id"]
       /\ \A p \in Periods :
            Exists(p) => Exists(p)' \/ columns'["team_memberships"] = << >>]_migrationVars

\* No foreign key ties a period to its parties.  On PostgreSQL a transaction
\* that has found them keeps the tables from being rebuilt under it, and no
\* downgrade drops the parties before the periods.
PartiesOutlivePeriods ==
    Transactional =>
        \A p \in Periods : Exists(p) =>
            periods[p].team \in rows["teams"] /\ periods[p].user \in rows["users"]

=============================================================================
