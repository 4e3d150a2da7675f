# A TLA+ model of the Discord bot template

The repository is a Discord bot, an HTTP API, a LINE webhook server and a worker that share one
database and one layered application under `src/app` (paths below are relative to `src/app`). This
directory holds TLA+ modules translated from that code, TLC instances that model-check them, and
TLAPS proofs of the theorems that matter most. It is about the parts that tests hardly reach: what
concurrent requests do to each other through the database, what a scope leaves behind when it
fails in the middle, what the event bus does when it is stopped at an arbitrary await, and what a
migration does to an application that goes on running.

    tlc -workers 2 -config OneRow.cfg MCKeptAggregates.tla         # one of the runs below
    tlapm RepositoryClientsProofs.tla                              # the proofs

## 1. The system

### Components

| component | state | operations | interacts with |
|---|---|---|---|
| Unit of Work (`infrastructure/unit_of_work.py`) | `_session`, `_is_failed`, a rollback listener, a repository cache | `__aenter__`, `__aexit__`, `commit`, `rollback`, `GetRepository` | one Session, hence one transaction; its flag is raised by the Session's `after_soft_rollback` |
| Generic repository (`infrastructure/repositories/generic_repository.py`) | none of its own | `get_by_id`, `add`, `update`, `delete`: a SELECT that checks, then a flush that writes | the Session of its Unit of Work; rolls it back when a statement fails |
| Aggregates (`domain/aggregates/`) | `Team`, `User`, `TeamMembership`, `ChatMessage`, each with an id and a version | creation; `change_name`, `approve`, `leave`, `change_role`, ... | held by one handler, stored through the repository |
| Use cases (`usecases/`) | none; one handler object and one Unit of Work per request | teams: create, get, update; users: create, get, welcome; memberships: join, request, approve, leave, change role; chat: save Discord, save LINE | repositories, event bus |
| In-memory event bus (`infrastructure/messaging/in_memory_event_bus.py`) | queue, handlers per topic, running flag, worker task | `publish`, `subscribe`, `start`, `stop`, the worker loop | handlers call use cases |
| Postgres event bus (`infrastructure/messaging/postgres_event_bus.py`) | pool, listening connection, handlers per topic, notification tasks | the same, through LISTEN/NOTIFY | not wired by the container |
| Chat history query (`infrastructure/queries/chat_history_query.py`) | none | `get_recent_history` | reads the rows that ingestion writes |
| Worker (`presentation/worker/`) | subscriptions, a stop event, periodic tasks | `main()`: start-up, the wait for a signal, shutdown | event bus, mediator |
| Bot, API, LINE server (`presentation/`) | none that outlives a request | commands, routes, webhook batches | mediator |
| Migrations (`src/alembic`) | `alembic_version`, the schema | ten revisions, `upgrade` and `downgrade`, online or as a script | the tables, while the use cases use them |
| Mediator, container, registry of ORM mappings | tables filled at start-up | lookup | everything |
| Database | rows with `version`, unique `users.email`, partial unique index `uq_team_memberships_current_period` | transactions | external: modelled from how the code uses it |

A request is served by one asyncio task. Between two awaits it runs alone; at every await any other
task of any process may run, the task may be cancelled, or its process may die. What requests share
is the database and, inside one process, the event bus.

### What is hard, and what correct means

* *Lost updates.* `update()` and `delete()` read, check the version, and flush later. Nobody may
  replace a row whose changes they have not seen, whatever aggregates they have kept from earlier
  scopes: `NoLostUpdate`, `OkIsFinal`, `ConflictsAreReal`.
* *Half-failed scopes.* A failing flush throws away all earlier writes of the scope; the caller gets
  an `Err` it may ignore. Whatever it does next must not commit the remainder:
  `DiscardedChangesStayOut`, `RefusedIffBroken`. Conversely a rejected version check or an explicit
  rollback must not cost the scope its commit: `RefusedIffBroken`, `AcknowledgedChangesStay`.
* *Unknown outcomes.* `session.commit()` may raise, or be cancelled, after the database has applied
  the transaction. Everything above must hold in both worlds.
* *Uniqueness races.* Two requests that both pass their checks: `KeysUnique`, and one current period
  per team and user (`ImplementsLifecycle`, `OneCurrentWhileIndexed`).
* *Decisions on snapshots.* Membership transitions are decided on an aggregate read earlier:
  `ImplementsLifecycle`, `OkIsFinal`; references without a foreign key: `PartiesExist`,
  `PartiesOutlivePeriods`.
* *The schema under a running application.* Revisions check and then alter, rebuild tables that
  others read, and die between a revision and its record, after which the chain is run on over what
  they left: `OneCurrentWhileIndexed`, `RevisionTellsTheSchema`, `MigrationsKeepRows`, `PartiesOutlivePeriods`.
* *Batches and redelivery.* The webhook commits message by message and gives up in the middle; LINE
  delivers again. What a call stores is a prefix of its batch, once: `StoresAPrefix`,
  `OneCopyPerCall`. Messages are committed out of order, and readers page through them:
  `HistoryIsTheRecentPast`, `ScrolledOutStaysOut`, `ConversationsAreReadable`.
* *Commit, then publish.* Between the two a process may die; the bus dies with it, and no other
  process hears it: `AnnouncedUsersExist`, `OkIsAnnounced`, `WelcomedOnce`,
  `AnnouncedUsersAreWelcomed`, `ImplementsSignup`, `WelcomesComeAbout`.
* *Shutdown.* A signal at any moment, handlers under way, events waiting, timers that never end by
  themselves: `StopIsHeeded`, `ImplementsSignup`.
* *What callers are told.* An error passes four layers before somebody decides by it whether to try
  again; the bot sends two requests for one command: `OnlyUnexpectedConcealsAnEffect`,
  `OneEffectPerCommand`, `ShownIsNotOlderThanTheChange`, `OneWinnerPerVersion`.
* *LISTEN/NOTIFY.* Tasks nobody awaits, connections that break unnoticed, starts and stops that fail halfway,
  a bus started twice:
  `HeardInOrder`, `NothingLostWhileListening`, `StoppedHearsNothing`, `NotificationsGetHandled`.
* *The bus under stop and restart.* Nothing vanishes, nothing is delivered twice or out of order,
  handlers never overlap across events, `stop()` really stops: `ImplementsPort`, `NoEventVanishes`,
  `OneEventAtATime`, `StoppedIsQuiet`, `EventsGetHandled`.

`PROJECT.json` lists every hazard with its line and the properties that watch it.

## 2. The modules

    UnitOfWork  <--EXTENDS--  RepositoryClients  <--  MCRepositoryClients      (runs)
                              RepositoryClients  <--EXTENDS--  KeptAggregates
                <--INSTANCE--  UseCases          <--  MCUseCases, UseCasesProofs
    KeptAggregates      <--  MCKeptAggregates
                        <--  RepositoryClientsProofs                           (theorems)
    MembershipLifecycle <--INSTANCE-- UseCases   (abstract specification)
                        <--EXTENDS--  Migrations  <--  MCMigrations, MigrationsProofs
    EventBus  <--INSTANCE--  InMemoryEventBus    (abstract specification)
    InMemoryEventBus    <--  MCInMemoryEventBus
                        <--EXTENDS--  WorkerProcess  <--  MCWorkerProcess
    WorkerProcess       <--  WorkerProcessProofs       (theorems, those about the bus too)
    UserSignup          <--INSTANCE-- WorkerProcess  (abstract specification)
                        <--  MCUserSignup, UserSignupProofs
    ChatMessages  <--EXTENDS--  ChatIngest  <--  MCChatIngest, ChatIngestProofs
    Commands            <--  MCCommands, CommandsProofs
    PostgresEventBus    <--  MCPostgresEventBus, PostgresEventBusProofs

### UnitOfWork

One table and the scopes that use it. `table` holds the committed rows; `pending[s]` the rows that
the transaction of scope `s` has flushed, `Untouched` elsewhere; `active` is `_session is not None`,
`isFailed` is `_is_failed`. A row has the entry it occupies in the unique index (`NoKey` if the
partial index does not cover it), its data, and its version.

| code | step |
|---|---|
| `__aenter__` | `Open` |
| a flush of `add`, `update`, `delete` | `Flush` |
| a failing statement, `_record_rollback` | `Fail` |
| `rollback()`, which restores the flag the listener raises | `Rollback` |
| `commit()` returning Ok, refusing, failing, being cancelled | `CommitOk`, `CommitRefused`, `CommitError`, `CommitCancelled` |
| `__aexit__` | `Close` |

`VersionMatches` is the check before the write, `MatchesWhere` the `WHERE id = ... AND version = ...`
that the mapper's `version_id_col` puts into the flushed statement, `Updated` the row it writes.
`RowLocked`, `KeyLocked` and `KeyTaken` are the database's: read committed isolation, row and index
locks that last until the transaction ends, and a waiting UPDATE that looks at the row again. The
module has no `Next`: who calls what is the business of the modules that use it.

### RepositoryClients

Arbitrary callers. A client may run any sequence of the repository's and the Unit of Work's
operations, may ignore every error, and may leave its scope at any await. `pc` is the await it is
at: `add`, `update` and `delete` are two steps, check and flush. Row data is the set of changes the
row has been through, each made by one client at one moment, so a lost update is a change that is
missing. History variables record what an observer of calls and results knows (`wrote`, `broken`,
`acked`, `lost`, `erased`); no guard reads them.

The callers follow three rules that every use case follows: ids are generated (ULIDs) and never
stored twice, a deleted aggregate is dropped, and an aggregate does not outlive the scope or the
explicit `rollback()` that discards its changes. The third is a real restriction, which
`KeptAggregates` loosens as far as the code allows.

### KeptAggregates

The same callers, who may now take an aggregate through an explicit `rollback()` and out of its scope into
the next. `update()` leaves the aggregate it was given at its version and answers one that is a version
ahead of the table until the commit (`generic_repository.py:177`); `get_by_id()` in the same scope answers
such a one too, since the Session's identity map is weak and `_find` reads the row back from the
transaction. If that transaction is then discarded, another client may bring the row to this very version,
and the kept aggregate would pass both version checks with data that knows nothing of it. `provisional`
marks these aggregates, and `MayKeep` is the rule: everything else may be kept, the aggregate passed to
`update()` included. No code enforces the rule, and `NoLostUpdate` fails without its second conjunct: it is an
obligation of callers, which all use cases meet by keeping nothing.

### UseCases

The handlers of teams, users and memberships, one action per handler for its start (`CreateTeam`,
..., `ChangeRole`), then one per await: `FindTeam`, `FindUser`, `Load`, `UpdateCheck`, the flushes,
`Commit`, `Return`. `StatementError`, `CommitFails` and `Cancel` can hit any of them. `UniqueKey` is
the pair of unique indexes; `Permitted` and `ChangedData` are the transitions of the aggregates.
The three tables are one function, as their ids are disjoint. `approvals` and `departures` count
answers that callers have received.

### MembershipLifecycle

What the five membership handlers promise together, in four indivisible steps: a period is opened
if the user has no current one in the team, approved if pending, given a role or left if current.
`UseCases` implements it under the mapping `periods[p] = table[p].data`.

### Migrations

The chain of ten revisions over what they change: the columns of each table and their types (`columns`),
the partial index (`index`), the ids of rows (`rows`), and for `team_memberships` the periods of
`MembershipLifecycle`. `UsersUp`, `UsersDown`, ... say what each revision does to a state of the database; an
operator starts a command for any target (`Start`), online or as an `--sql` script, and `StepUp`, `StepDown`,
`Preflight`, `Finish` and `Abort` run it. On PostgreSQL a command is one transaction (`view`, `touched`), and
its statements wait for every transaction that has touched a table; on SQLite each revision is
committed by itself, writers take turns, and a run may die between the statements of a revision and its
record (`AbortTorn`). Meanwhile handlers look up team and user, insert and commit (`FindParties`,
`InsertPeriod`, `CommitPeriod`), as `join_team` and `request_join_team` do in one scope.

Each revision is one step, the preflight of the last one a step of its own. A revision runs if its statements find
the tables and columns they alter or drop, and none that they make (`Fits`), whatever the rest of
the schema is like. On SQLite DDL commits itself, but a statement that changes rows opens a
transaction for what follows: the DELETE of `a4c872a7f6b8` and the copies of tables that
`d71330ad48f7` and `2473e1c2c7de` make keep revision and record together, but for the table that the latter
creates first. `torn` is the set of tables that an unrecorded revision has altered. The next run may
get past them or not (a table made twice is refused, one dropped twice as well, a column made twice too), and then goes on
with other tables; `RevisionTellsTheSchema` demands the recorded schema of every table that is not torn, so a torn
revision must not spread to others, on the way up or down.

Left out: a crash between two statements of one revision on SQLite, what version and timestamp columns contain (a downgrade that makes
timestamps mandatory fails on NULLs: that is an `Abort`), and `alembic stamp`. Scripts are taken to be
applied by a tool that stops at the first error. `PartiesOutlivePeriods` is claimed for PostgreSQL only:
readers of SQLite hold no lock between two statements, so there a table can be emptied between lookup and
INSERT.

### InMemoryEventBus

`publish`, `subscribe`, `start`, `stop` and the worker loop, on one asyncio loop. `cancel()` only asks
(`cancelled`); the task notices when it runs next, and `gather()` passes the cancellation on and
waits for the handlers. A worker task created by `start()` during a `stop()` still in progress is a
second task with a place of its own; that is where `_running`, set again, could keep the first one
going. `Handlers` are registrations: `subscribe()` appends, so a callable subscribed twice is two of them. One
owner calls `stop()`, and not again before it has returned, as `presentation/worker` does.

Its port, `contracts/ports/event_bus.py`, is the abstract specification `EventBus`: publish, subscribe,
and the promise that an event reaches a handler of its topic after its publication, once at most, and
never behind a later one. It promises no delivery. The Postgres bus does not keep this promise: after a second
`start()` two connections listen, and handlers hear everything twice. Its properties are therefore
stated per connection.

### UserSignup

From `create_user`'s commit to `welcome_user`, over processes that start and end. Each process has a
bus of its own (`queue`, and the one event that its worker loop dispatches, `welcoming`); `listening`
are those that have run the worker's `main()`. `End` is a stop signal or a crash at any step: the
requests of the process are cut off, a commit under way happens or not, its events go to `lost`. The
other accidents have their own record: `unannounced` (publication raised), `skipped` (the lookup of
the welcome failed). These are history: nothing in the code keeps them.

### WorkerProcess

`presentation/worker/__main__.py` around the whole `InMemoryEventBus`: `Boot`, `Register` for each handler,
`Listen` (periodic tasks, signal handlers, `start()`), `Signal`, `MainWakes` (the `finally` that calls
`stop()`), `MainReturns`, and `Exit`, which waits for the tasks that `asyncio.run()` has cancelled. A crash may come
anywhere and takes the bus along, not the users; the process may start again. The registrations run before any
other task exists, so taking them one by one hides nothing. `UserSignup` is its abstraction: one process whose bus
is a queue and one event in hand (`Waiting`, `Untold`). The worker's own handlers and its periodic
task send no `CreateUser` today; requests stand for use cases that tasks of a process may send through its
mediator, which serves all of them in every process.

### ChatMessages and ChatIngest

`ChatMessages` has the conversation scopes, their persisted form and its checks, and
`get_recent_history` as the operator `RecentHistory`; `Newest` is the sequence of the rows that its ORDER BY describes. A LINE scope is the record of three optional
fields that the code has, with exactly one set; `ToPrimitive` and `ScopeFromOrm` are the two
directions of its JSON form. `ChatIngest` runs the webhook (`HandleCallback`, then per text message
`SaveLineChat` and `Commit`) and the Discord listener (`OnMessage`, `SaveDiscordChat`), with `SaveFails`, the
reply that ends the call, and `Die`. `Proceed` is the loop up to the next await: events that are not
text are passed over, a timestamp that is no time raises. A batch contains an event once (events stand for
occurrences, so two equal texts are two events); it may be delivered any number of times. `HistoryIsTheRecentPast` compares the
query with a definition made from the events and not from the rows.

### Commands

What callers are told. A command goes through API or bot (`surface`), and in the bot's `create` and
`rename` commands a second use case reads back the result. The use case itself is reduced to load
and save with the optimistic lock, whose correctness is the business of the modules above;
`versions[i]` is the list of writers of aggregate `i`. `ClassifyError`, `HttpStatusForError` and
`ErrorReply` are the layers an error passes.

### PostgresEventBus

One bus object per process. Pools and connections are named by the `start()` that opened them, as the
bus forgets what a second `start()` replaces. `wire` is what the database has sent to a connection,
`pending` the tasks created for its notifications that have not run (asyncio runs new tasks in the order
of their creation; between the tasks of two connections any order is allowed), `calls` the handlers under way, which nobody awaits across events. `stop()` is three
steps, `start()` four, each of which may fail or be cancelled, and may be called again after that (`StartFails`,
`StopFails`). `forgotten` are the connections that a later `start()` replaced while they listened: only these may outlive
`stop()`, in `StoppedHearsNothing`. A connection that breaks may cost the end of what was sent to it
(nobody looks at it again), but `HeardInOrder` demands that handled and waiting notifications together are a
prefix of what was sent, so nothing before a loss or between two notifications is lost. What `_running` and the keep-alive task do is nothing:
they are left out.

## 3. The runs

| run | instance | shows |
|---|---|---|
| `one_row` | 2 clients, 1 row, 4 changes | no interleaving of reads, updates, deletes, commits, rollbacks, failures and cancellations loses an update, though aggregates are kept through rollbacks and scopes; refusals are earned |
| `two_rows` | 2 clients, 2 rows, 1 index entry, 3 changes | transactions over two rows are all or nothing: acknowledged changes stay, discarded ones never arrive; two committed rows never share an index entry |
| `migrations` | 2 handlers, 1 team, 1 user, 2 periods, 1 message, 5 targets, both databases | the index keeps its promise from the moment it exists; the revision tells the schema, of all but the tables of a torn revision; rows go only with their tables; periods keep their parties |
| `memberships` | 2 concurrent requests out of 4, 1 team, 1 user, 2 periods, 2 roles | the five handlers implement the lifecycle; answers hold; conflicts and rejections have a reason |
| `directory` | 2 concurrent requests out of 3, 1 team, 2 users, 2 emails, fair | memberships refer to stored parties, while these are being created; every request ends, although flushes wait for the locks of others |
| `event_bus` | 2 events, 2 topics, 2 handlers, 3 worker tasks, fair | the bus implements its port under any stops and restarts, one event at a time; a bus left running gets through its queue |
| `worker` | 1 process, 3 users, 2 topics and handlers, 1 periodic task, fair | the process implements `UserSignup`, and what a lasting process has in its queue is welcomed; a stop signal ends it |
| `chat` | 2 deliveries out of 3 batches, 1 Discord message, 3 rows, limits -1 to 3 | a call stores a prefix of its batch, each message once; the history query is right on every table that can come about, and stable |
| `signup` | 3 users; an API process, a worker, and one process that is bot and worker; fair | commit before publication, one welcome, and every Ok accounted for; a process that keeps its worker welcomes whom it announced, or the lookup fails |
| `commands` | 3 commands, 2 aggregates | what callers are told of success, conflict and failure is true |
| `postgres_bus` | 2 processes, 2 starts of one or of each, 2 events, 1 handler | order, no loss while listening, and an end of what was sent at most when a connection goes; nothing but replaced connections outlives `stop()`, after starts and stops that failed halfway too |
| `postgres_bus_live` | 1 process, 1 start, 2 events, 2 handlers, fair | what is sent to a lasting connection is handled |

*Bounds.* `MaxChanges` bounds add and update attempts, `MaxRequests` requests, `MaxEvents` events,
`MaxStarts` worker tasks or calls of `start()`, `MaxRows` messages; everything else is finite by itself.
Conflicts on rows, index entries and periods are between two parties, and the third party that could
matter (a row changed, then changed back) is the same client in another scope, which the instances allow: a
client may enter as many scopes as it likes. Four changes are an insert and three updates, enough for a stale
aggregate that meets a row two versions ahead; three worker tasks are a start during a stop during a restart. The
targets of `migrations` are the revisions at which something is at stake: the empty database, the
deletion of users, the memberships, and the last two. Two handlers that join one user to one team are what
a duplicate needs, and one can commit before and the other after the preflight. In `chat` three rows are
shared by two deliveries and a listener: a batch of two texts stored whole beside one more message, or two
copies of its first and one of its second. In `worker` a restarted process begins with an empty bus, so one `start()` per life is all
that `main()` does. The theorems below remove the bounds for most of these properties.

*Symmetry* is used only in runs without a liveness property, over sets no definition distinguishes members of.

*Deadlock* is checked in all runs but those of the two buses (nobody need publish again) and `commands`
(each command ends). In `UseCases` the bound on requests ends a behaviour (`Exhausted`), in `ChatIngest`
the end of all calls (`AllReturned`).

*Fairness.* `directory` assumes that a handler whose next step stays possible takes it: the asyncio
loop is fair to ready tasks and the database answers statements that no lock delays. It assumes
nothing of arrivals, errors or cancellations. A handler writes one row, so locks cannot form a cycle
in `UseCases`. `event_bus` assumes the same of the loop, and that handlers end: one that hangs
blocks the bus, by construction. `worker` assumes it of `main()`, of timers, tasks and handlers, and of
requests once they have begun; nothing of signals or crashes. `StopIsHeeded` in particular rests on handlers that
end: `stop()` cancels them, but one that does not let go of its await would keep the process alive. `signup` assumes it of requests and of the dispatch of events,
not of processes: that a worker keeps running is the premise of the property. `postgres_bus_live`
assumes that the driver reads its socket, that tasks run and that handlers end; it assumes nothing of
`start()`, `stop()` or the connection.

## 4. The proofs

`RepositoryClientsProofs` proves, for any number of clients, ids, index entries and changes:

* `TypesAreCorrect`: `TypeOK`.
* `RefusalsAreEarned`: `RefusedIffBroken`.
* `NoUpdateIsLost`: the optimistic lock, `NoLostUpdate`.
* `AcknowledgementsHold`: `AcknowledgedChangesStay`.
* `IndexesAreUnique`: `KeysUnique`.
* `DiscardsAreFinal`: `DiscardedChangesStayOut`.
* `NoUpdateIsLostByKeeping`, `KeepingIsSafe`: all of them but the last for the callers of `KeptAggregates`.

The only assumptions are those of the constants: the sentinels are none of the values they stand
beside, and a row's data is a set of changes. The argument is one inductive invariant, `IInv`:

1. `Places_OK`: flags and places agree; in particular a closed scope has no writes, and a scope is
   marked failed exactly when one of its statements failed.
2. `RowsExclusive`: two transactions never hold writes of one row. An UPDATE waits for the lock; an
   INSERT has a fresh id, which needs
3. `OnlyIssued`, `NewIsPrivate`, `InsertIsPrivate`: an id nobody has generated occurs nowhere, and
   nobody but its maker knows an aggregate or a row that is not committed.
4. `WritesKnow`: a flushed row of an unbroken scope carries every change of the committed row, at a
   higher version.
5. `HandKnows`: an aggregate is never ahead of its row, and if the versions agree it carries every
   change of the row.

`NoLostUpdate` needs 4, as only a commit of an unbroken scope changes the table. 4 needs 5, as the
WHERE clause compares versions and nothing else; 5 needs 4, as a commit of somebody else must raise
the version past every aggregate read before; and both need 2 and 3, so that nobody changes a row
under a write. `StepCases` sorts the steps, and each part of the invariant has a lemma with one step
per case.

`KeysUnique` alone is not inductive: a commit installs several rows at once. `KeysInv` adds that what a
transaction sees, its own writes over the table, has every entry once (`EntriesUnique`), and that no two
transactions hold one entry (`EntriesExclusive`, where an entry is held as long as a row with it is
written, replaced or deleted). `DiscardInv` says that a change made by a client carries a moment that has passed
(`ChangesAreDated`), that what two clients know of a row that is there is committed
(`SharedIsCommitted`), and that a discarded change is not in its row and known to nobody whose scope can still
commit (`LostIsForgotten`). The last needs that no aggregate survives its scope (`EmptyHanded`), and indeed
`DiscardedChangesStayOut` is claimed for callers of `RepositoryClients` only: one who keeps a new aggregate
through a rollback may add it again.

Of the callers of `KeptAggregates` `IInv` holds as it stands. They enter a scope with an aggregate in hand, so
what 5 says has to hold of the committed row beforehand: `KnowsCommitted`, of every aggregate not marked
`provisional`. `SettledOutside` says that marked ones never leave their transaction,
which is what `MayKeep` is for. `KeptInvariant` has both.

`UseCasesProofs` proves `TypeOK`, `PartiesExist`, `OkIsFinal`, `ConflictsAreReal`, `RejoinAllowed` and
`ImplementsLifecycle` for any number of requests, teams, users, periods, names, emails and roles. `WorkInOrder`
says what a handler has in hand at each of its awaits, `RowsAreWhole` that a row's entry is the one its data
determine. `WritesAreOwn`: a transaction writes the one row its command is about, as computed from the aggregate,
and if it is an update the row still has the version read. `AggregatesAreCurrent`: if the versions agree,
the handler has computed the aggregate from this very row, so the domain has permitted the change of *this* row;
this is what makes a decision on a snapshot a decision on the table, and with `WritesAreOwn` a commit one step of
`LifecycleSpec`. `KeysInv`, as above, is why no other current period is there when a period is opened. `PartiesFound`
carries what a join has looked up over to its commit (no use case deletes), and `AnswersHold` relates the answers
not yet received to the rows and the counters that `OkIsFinal` is about. The assumptions: what
`NothingsAssumption` says of the values that stand for nothing, and `DirectoryAssumption`, that ids of different
tables differ.

`MigrationsProofs` proves all properties of `Migrations` for any number of periods, teams, users, roles, messages and
handlers and any targets, on both databases. The schema of a revision is defined along the chain; `ColumnsAt` gives it in closed form, and
`UpgradeIsExact` and `DowngradeIsExact` find of all ten revisions that they lead from one schema of the closed form to its
neighbour, and `Revised` what they may do to rows on the way. A revision is also local (`RevisionsAreLocal`): what it makes of a
table depends on that table alone. So it leads from neighbour to neighbour on every table that is not torn, and by `FitTells` and
`ExactBut` that is all a run over a torn schema needs to know. `MInv` then says the same, `Sound`, of two databases: the
committed one and the one the running command sees, because a command that finishes installs what it
sees. `Sound` has the index without duplicates, rows only in tables and ids in each of these, the type of the users' ids (no
torn revision changes it: `a4c872a7f6b8` opens a transaction first), the schema of the
recorded revision but for torn tables, and the parties of periods on PostgreSQL. Three more parts keep the
two databases together: `LocksHold` (a table the command has not locked is as it found it, and no handler has touched
one it has locked), `RowsStay` (rows that the command sees gone are gone with their table or with the type of the
ids), and `JoinsInOrder` (what a handler has found is still there, and the index entry it has written is its own).
That `Targets` are revisions (`TargetsAssumption`) is the one assumption. `OneCurrentPeriod` and `LeftForGood` of
`MembershipLifecycle`, by types and direct induction, are in this module too.

`UserSignupProofs` proves all safety properties of `UserSignup`, for any number of users and processes
in any combination of roles. Its `IInv` adds three parts. `RequestsInOrder`: a request that may publish
has committed, and until it has published its user occurs in no queue, no hand and no welcome. `OnlyAtHome`:
events and welcomes are where the request was, so processes cannot interfere. `OneTrace`: a user is
queued once, or in hand, or welcomed. Lemmas state once what `End`, `Take`, `Publish` and `Welcome` do
to the queues as sets (`EndSets`, ...), and each part has a lemma with one step per action.

`WorkerProcessProofs` proves of the bus `BusTypeOK`, `AtMostOnce`, `StoppedIsQuiet`, `OneEventAtATime` and `ImplementsPort` for any
number of topics, handlers, events and worker tasks. `TasksInOrder`: tasks are created one after the
other, `_task` is the last, and only a dispatching task has an event or handlers. `OneWorker`: a task goes
on only if it is `_task`, or if a `stop()` awaits it and has cancelled it; this is what keeps a restart
during a stop from having two workers. `EventsApart`: an event waits or is in one task's hands, and no
handler has been called for one that waits. The refinement `PortIsImplemented` needs the order besides, `InOrder`:
the queue holds exactly the events behind the last one taken (`TakenSoFar`), one after the other, and a worker that
is not cancelled dispatches that one, so no later event has reached anybody when a handler is called.
`NothingVanishes` counts (`EventsCounted`): the four places an event can be in are disjoint, their sizes add up to what was
published, and no more dispatches were cut off than cancelled tasks have ended (`CutOff`).

The same module proves `ImplementsSignup`, for any number of users, tasks and handlers of the process
(`ProcessIsSignup`). The bus keeps its invariant under the steps of a process: each is one of the bus's own, or its
end, after which the bus is as at first (`BusSteps`, `BusForgotten`). `PInv` adds what relates it to the users.
`ProcessInOrder`: a process that serves has registered all handlers and created one worker task. `OneEventEach`: a user has one
event at most, none before the request has published, and while it waits nobody has heard of the user. `OneInHand`: an event that was
taken and has not been told of is unique, and the task that took it is about to tell it or was cancelled; as a
cancelled worker takes nothing more, the next event is taken with empty hands (`NothingUntold`), which is
what `Take` of `UserSignup` demands. Each step of the process is then a step there, or none (`AnnounceIsPublish`,
`GetIsTake`, `ReturnIsWelcome`, `GoneIsEnd`). What `UserSignupProofs` says of queues, hands and welcomes thus
holds of the whole bus. The assumptions are those of the constants: the topic and the handler of `user.created` exist and are
registered, and `Nobody` is neither a user nor the process.

`CommandsProofs` proves all properties of `Commands` for any number of commands and aggregates. One
fact about a command carries most of it (`InOrder`): what it has written, if anything, is the version
after the one it has loaded. So two winners of one version are one command, and an effect is single. The other half,
`Truthful`, says what may be replied; it survives the steps of others because histories only
grow (`WriteAdds`).

`PostgresEventBusProofs` proves `TypeOK`, `HeardInOrder`, `NothingLostWhileListening` and `StoppedHearsNothing`
for any number of processes, starts, events and handlers. `NothingSkipped` says of every connection that what was
sent to it is what its tasks have begun, then what waits in tasks, then a rest, which is the wire as long as it
listens: a notification only moves from the front of one of these queues to the end of the one before
(`HeadMoves`). `OneEar` says that whatever listens and was not replaced is the connection the bus knows, and that this one is
closed before the pool, whichever `start()` or `stop()` has failed; it needs `StartsInOrder` (what a `start()` has opened at each of its awaits) and
`FutureIsSilent` (a connection that does not listen yet has heard nothing).

`ChatIngestProofs` proves `TypeOK`, `StoresAPrefix` and `OneCopyPerCall` for any number of deliveries, listeners,
rows and events and any set of batches. `CallsInOrder` says where a call is in its batch; `IdsApart` that an id
is one row's, committed or about to be; `RowsAreReached` that the rows of a call are about events it has
reached, and of its current one only after the save has ended (`Reached`); `RowsAreSingle` and
`PassedIsStored` that these are one each, and none is missing. `ProceedStops` says what the loop up to the next
await does, and `TableGrows` and `CommitReaches` carry the rest: a table grows by the row of one scope, whose
call reaches its event in the same step. The assumptions are those of the constants; that a batch
contains an event once is one of them.

The same module proves what users read: `ConversationsAreReadable`, `HistoryIsTheRecentPast` and
`ScrolledOutStaysOut`, for any number of rows and any limit. They need a second invariant, `LogInv`: every row, committed or about to
be, is what a save made of its event (`RowsAreMade`; `ListenersHear` tells Discord's events from LINE's), ids tell rows
apart, and the table is finite. `RowsRestore` says that such a row restores to the message it was made
from and that the filter finds it in the conversation of its event and in no other; `InvalidAssumption` keeps
the error of a conversion apart from messages. The order needs no induction: the number of rows ahead of a
row (`Ahead`) is a rank of its own (`RanksDiffer`), ranks are a bijection with the places of a page, and so there is
a sorted sequence, which `Newest` chooses (`NewestIsSorted`), with each row at its rank (`NewestRanks`). Hence a row is in a window
exactly if it is selected and fewer rows than the limit are ahead of it (`WindowHolds`), and since rows are only
added, that number only grows (`StepScrolls`).

*Type invariants.* Those of `RepositoryClients`, `UseCases`, `MembershipLifecycle`, `UserSignup`, `InMemoryEventBus`,
`Commands`, `PostgresEventBus` and `ChatIngest` are proved and need no run. `KeptAggregates`, `Migrations` and `WorkerProcess` state none of their own; the types of
`Migrations` are in `RunInOrder` and `WellFormed`.

Only model-checked is liveness (`EveryRequestEnds`, `EventsGetHandled`, `AnnouncedUsersAreWelcomed`,
`WelcomesComeAbout`, `NotificationsGetHandled`, `StopIsHeeded`), which is out of the prover's reach.

## 5. Not modelled

Left out for good: text (validation and normalisation of names, emails and contents), audit
timestamps, logging, signatures of webhooks, wiring done once at start-up (mediator, container, mapper
registry, cogs), what the worker's periodic task logs, and the `selectin` loading of the ORM,
which no mapper uses. What the migrations leave out is listed with their module.

## 6. Plan

Done: every component with state that outlives a request has a module, and the state machines have
proofs. Left:

1. Text: idempotence of the normalisation of names and emails, and its effect on uniqueness.
2. The API's and the bot's start and stop around `Commands`.
