----------------------------- MODULE UserSignup -----------------------------
(***************************************************************************)
(* From the creation of a user to its welcome: CreateUser commits, leaves   *)
(* its scope, and only then publishes user.created on the bus of its own    *)
(* process; where a worker runs, it takes the event and welcomes the user,  *)
(* whom it looks up in a scope of its own.  The bot reads the user back     *)
(* before it answers.                                                       *)
(*                                                                         *)
(* A bus lives and dies with its process.  Of InMemoryEventBus this module  *)
(* keeps the queue and the one event being dispatched.                      *)
(***************************************************************************)
EXTENDS Naturals, Sequences, FiniteSets, SequencesExt

CONSTANTS
    Users,          \* the user each request is to create
    Processes,
    Creators,       \* processes that serve requests (bot, API)
    Bots,           \* those that read the created user back
    Workers,        \* processes that run the worker's main
    Nobody

ASSUME SignupAssumption ==
    /\ Creators \subseteq Processes /\ Workers \subseteq Processes
    /\ Bots \subseteq Creators
    /\ Nobody \notin Users \cup Processes

VARIABLES
    users,      \* the committed users
    place,      \* per request, the await it is at
    home,       \* per request, the process that serves it
    up,         \* processes that run
    listening,  \* processes whose bus is started, with the worker's handlers
    queue,      \* per process, the events in its bus
    welcoming,  \* per process, the user whose event is being dispatched
    \* history:
    created,    \* users whose use case has returned Ok
    unannounced,\* users whose publication has failed
    welcomes,   \* per user, the welcomes, each with the process it came from
    skipped,    \* users whose welcome found no user or no database
    lost        \* users whose event ended with its process

vars == <<users, place, home, up, listening, queue, welcoming,
          created, unannounced, welcomes, skipped, lost>>

requestVars == <<place, home, created, unannounced>>
processVars == <<up, listening>>
busVars == <<queue, welcoming, welcomes, skipped, lost>>

Places == {"none", "adding", "committing", "publishing", "reading", "answered"}

InHand == {welcoming[p] : p \in Processes} \ {Nobody}
Queued == UNION {ToSet(queue[p]) : p \in Processes}

TypeOK ==
    /\ users \in SUBSET Users
    /\ place \in [Users -> Places]
    /\ home \in [Users -> Processes \cup {Nobody}]
    /\ listening \subseteq up /\ up \subseteq Processes
    /\ queue \in [Processes -> Seq(Users)]
    /\ welcoming \in [Processes -> Users \cup {Nobody}]
    /\ \A p \in Processes \ up : queue[p] = <<>> /\ welcoming[p] = Nobody
    /\ created \in SUBSET Users /\ unannounced \in SUBSET Users
    /\ welcomes \in [Users -> Seq(Processes)]
    /\ skipped \in SUBSET Users /\ lost \in SUBSET Users

Init ==
    /\ users = {}
    /\ place = [u \in Users |-> "none"]
    /\ home = [u \in Users |-> Nobody]
    /\ up = {} /\ listening = {}
    /\ queue = [p \in Processes |-> <<>>]
    /\ welcoming = [p \in Processes |-> Nobody]
    /\ created = {} /\ unannounced = {}
    /\ welcomes = [u \in Users |-> <<>>]
    /\ skipped = {} /\ lost = {}

Move(u, from, to) == place[u] = from /\ place' = [place EXCEPT ![u] = to]

-----------------------------------------------------------------------------
(* Processes *)

Boot(p) ==
    /\ p \notin up
    /\ up' = up \cup {p}
    /\ UNCHANGED <<users, requestVars, busVars, listening>>

\* The worker configures its mediator, subscribes its handlers and starts the
\* bus; none of these awaits lets another task run.
StartWorker(p) ==
    /\ p \in (Workers \cap up) \ listening
    /\ listening' = listening \cup {p}
    /\ UNCHANGED <<users, requestVars, busVars, up>>

\* A stop signal or a crash: requests are cut off, a commit under way happens or
\* does not, and what was in the bus is gone.
End(p) ==
    /\ p \in up
    /\ up' = up \ {p}
    /\ listening' = listening \ {p}
    /\ LET requests == {u \in Users : home[u] = p}
       IN /\ place' = [u \in Users |-> IF u \in requests THEN "answered" ELSE place[u]]
          /\ \E applied \in SUBSET {u \in requests : place[u] = "committing"} :
                users' = users \cup applied
    /\ lost' = lost \cup ToSet(queue[p]) \cup ({welcoming[p]} \ {Nobody})
    /\ queue' = [queue EXCEPT ![p] = <<>>]
    /\ welcoming' = [welcoming EXCEPT ![p] = Nobody]
    /\ UNCHANGED <<home, created, unannounced, welcomes, skipped>>

-----------------------------------------------------------------------------
(* CreateUser *)

SignUp(u, p) ==
    /\ p \in Creators \cap up
    /\ Move(u, "none", "adding")
    /\ home' = [home EXCEPT ![u] = p]
    /\ UNCHANGED <<users, processVars, busVars, created, unannounced>>

\* Mutant: the event is published before the commit.
AddAndPublish(u) ==
    /\ Move(u, "adding", "committing")
    /\ queue' = [queue EXCEPT ![home[u]] = Append(@, u)]
    /\ UNCHANGED <<users, processVars, home, created, unannounced,
                   welcoming, welcomes, skipped, lost>>

Add(u) ==
    /\ Move(u, "adding", "committing")
    /\ UNCHANGED <<users, processVars, busVars, home, created, unannounced>>

\* Mutant: the use case returns from inside its scope.
CommitAndReturn(u) ==
    /\ Move(u, "committing", "answered")
    /\ users' = users \cup {u}
    /\ created' = created \cup {u}
    /\ UNCHANGED <<processVars, busVars, home, unannounced>>

\* commit() returns Ok; leaving the scope awaits once more.
Commit(u) ==
    /\ Move(u, "committing", "publishing")
    /\ users' = users \cup {u}
    /\ UNCHANGED <<processVars, busVars, home, created, unannounced>>

\* An Err of add() or commit(), or a cancellation, at any await; a commit that
\* fails may have been applied.
Fails(u) ==
    /\ \/ Move(u, "adding", "answered") /\ UNCHANGED users
       \/ Move(u, "committing", "answered") /\ users' \in {users, users \cup {u}}
       \/ Move(u, "publishing", "answered") /\ UNCHANGED users
       \/ Move(u, "reading", "answered") /\ UNCHANGED users
    /\ UNCHANGED <<processVars, busVars, home, created, unannounced>>

\* CreateUser returns Ok to the API, which answers, or to the bot, which reads on.
ReturnsOk(u) ==
    /\ Move(u, "publishing", IF home[u] \in Bots THEN "reading" ELSE "answered")
    /\ created' = created \cup {u}

Publish(u) ==
    /\ ReturnsOk(u)
    /\ queue' = [queue EXCEPT ![home[u]] = Append(@, u)]
    /\ UNCHANGED <<users, processVars, home, unannounced, welcoming, welcomes, skipped, lost>>

\* publish() raises: logged, and Ok all the same.
PublishFails(u) ==
    /\ ReturnsOk(u)
    /\ unannounced' = unannounced \cup {u}
    /\ UNCHANGED <<users, processVars, busVars, home>>

\* users_create goes on with GetUser, which finds the user.
ReadBack(u) ==
    /\ Move(u, "reading", "answered")
    /\ u \in users
    /\ UNCHANGED <<users, processVars, busVars, home, created, unannounced>>

-----------------------------------------------------------------------------
(* WelcomeUser *)

\* Mutant: the event stays in the queue.
Peek(p) ==
    /\ p \in listening
    /\ welcoming[p] = Nobody
    /\ queue[p] # <<>>
    /\ welcoming' = [welcoming EXCEPT ![p] = Head(queue[p])]
    /\ UNCHANGED <<users, requestVars, processVars, queue, welcomes, skipped, lost>>

\* on_user_created sends WelcomeUser.
Take(p) ==
    /\ p \in listening
    /\ welcoming[p] = Nobody
    /\ queue[p] # <<>>
    /\ welcoming' = [welcoming EXCEPT ![p] = Head(queue[p])]
    /\ queue' = [queue EXCEPT ![p] = Tail(@)]
    /\ UNCHANGED <<users, requestVars, processVars, welcomes, skipped, lost>>

Welcome(p) ==
    /\ welcoming[p] \in users
    /\ welcomes' = [welcomes EXCEPT ![welcoming[p]] = Append(@, p)]
    /\ welcoming' = [welcoming EXCEPT ![p] = Nobody]
    /\ UNCHANGED <<users, requestVars, processVars, queue, skipped, lost>>

\* Mutant: a welcome that fails goes back to the queue.
WelcomeRetried(p) ==
    /\ welcoming[p] # Nobody
    /\ queue' = [queue EXCEPT ![p] = Append(@, welcoming[p])]
    /\ welcoming' = [welcoming EXCEPT ![p] = Nobody]
    /\ UNCHANGED <<users, requestVars, processVars, welcomes, skipped, lost>>

\* get_by_id finds nobody or fails: logged, and that was it.
WelcomeSkipped(p) ==
    /\ welcoming[p] # Nobody
    /\ skipped' = skipped \cup {welcoming[p]}
    /\ welcoming' = [welcoming EXCEPT ![p] = Nobody]
    /\ UNCHANGED <<users, requestVars, processVars, queue, welcomes, lost>>

Request(u) == Add(u) \/ Commit(u) \/ Fails(u) \/ Publish(u) \/ PublishFails(u) \/ ReadBack(u)
Dispatch(p) == Take(p) \/ Welcome(p) \/ WelcomeSkipped(p)

Next ==
    \/ \E p \in Processes : Boot(p) \/ StartWorker(p) \/ End(p) \/ Dispatch(p)
    \/ \E u \in Users, p \in Processes : SignUp(u, p)
    \/ \E u \in Users : Request(u)

Spec == Init /\ [][Next]_vars
FairSpec ==
    /\ Spec
    /\ \A u \in Users : WF_vars(Request(u))
    /\ \A p \in Processes : WF_vars(Dispatch(p))

-----------------------------------------------------------------------------
(* Properties *)

\* An event that anybody can see is about a user who is committed (the event is
\* published after the scope has been left).
AnnouncedUsersExist == Queued \cup InHand \subseteq users

\* A user is welcomed once at most, through any restarts of processes and workers.
WelcomedOnce == \A u \in Users : Len(welcomes[u]) <= 1

\* A welcome comes from the process that served the request: where the worker is a
\* process of its own, nobody is ever welcomed.
DeliveryIsProcessLocal ==
    \A u \in Users :
        /\ ToSet(welcomes[u]) \subseteq {home[u]} \cap Workers
        /\ \A p \in Processes : u \in ToSet(queue[p]) => home[u] = p

\* A user whose creation has returned Ok is stored, and accounted for by the bus:
\* it waits, is being welcomed or was, or one of four accidents happened to the
\* event - the publication failed, the process ended, the lookup failed.
OkIsAnnounced ==
    created \subseteq users
        \cap (Queued \cup InHand \cup {u \in Users : welcomes[u] # <<>>}
                \cup unannounced \cup lost \cup skipped)

\* In a process that keeps its worker, every announced user is welcomed in the end,
\* or the lookup fails.
AnnouncedUsersAreWelcomed ==
    \A p \in Workers, u \in Users :
        <>[](p \in listening) =>
            (u \in ToSet(queue[p]) ~> welcomes[u] # <<>> \/ u \in skipped \cup lost)

=============================================================================
