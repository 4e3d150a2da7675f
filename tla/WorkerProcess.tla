---------------------------- MODULE WorkerProcess ----------------------------
(***************************************************************************)
(* One worker process: main() under asyncio.run(), the bus it starts and    *)
(* stops, its periodic tasks, and the use cases that its tasks send through *)
(* the mediator.  The bus is InMemoryEventBus with all its steps; requests  *)
(* are those of UserSignup, whose reduced bus this module justifies.        *)
(*                                                                         *)
(* The memory of the process, the bus included, goes with it; the users     *)
(* stay.  Shutdown is a signal, the bus's stop(), and what asyncio.run()    *)
(* does when main() has returned: it cancels all other tasks and waits for  *)
(* them.                                                                    *)
(***************************************************************************)
EXTENDS InMemoryEventBus

CONSTANTS
    Users,          \* the user each request is to create
    Nobody,
    Self,           \* this process
    registered,     \* registry.registered_handlers: per topic
    scheduled       \* registry.scheduled_tasks

UserCreated == "user.created"
on_user_created == "on_user_created"

ASSUME WorkerAssumption ==
    /\ UserCreated \in Topics /\ on_user_created \in Handlers
    /\ registered \in [Topics -> SUBSET Handlers]
    /\ on_user_created \in registered[UserCreated]
    /\ Nobody \notin Users \cup {Self}

VARIABLES
    main,       \* where main() is
    stop_event, \* set; or main() has been cancelled, where signals do that
    ticks,      \* per scheduled task, whether its function runs
    payload,    \* per event, the user it is about
    users,      \* the committed users
    requests,   \* per request of CreateUser, the await it is at
    \* history, as in UserSignup:
    returned, welcomes, skipped, lost

process == <<main, stop_event, ticks, payload, busVars>>
service == <<users, requests, returned, welcomes, skipped, lost>>
vars == <<process, service>>

Taken == {payload[e] : e \in Published \ ToSet(queue)}
Untold == {u \in Taken : welcomes[u] = <<>> /\ u \notin skipped}
Waiting == [i \in DOMAIN queue |-> payload[queue[i]]]
Serving == main \in {"waiting", "stopping", "leaving"}

\* The signup service as its own module sees it.
Signup == INSTANCE UserSignup WITH
    Processes <- {Self}, Creators <- {Self}, Bots <- {}, Workers <- {Self},
    place <- requests, created <- returned, unannounced <- {},
    home <- [u \in Users |-> IF requests[u] = "none" THEN Nobody ELSE Self],
    up <- IF main = "down" THEN {} ELSE {Self},
    listening <- IF Serving THEN {Self} ELSE {},
    queue <- [p \in {Self} |-> Waiting],
    welcoming <- [p \in {Self} |-> IF Untold = {} THEN Nobody ELSE CHOOSE u \in Untold : TRUE]

NoTicks == [k \in scheduled |-> "none"]

Init ==
    /\ BusInit
    /\ main = "down"
    /\ stop_event = FALSE
    /\ ticks = NoTicks
    /\ payload = <<>>
    /\ users = {}
    /\ requests = [u \in Users |-> "none"]
    /\ returned = {} /\ skipped = {} /\ lost = {}
    /\ welcomes = [u \in Users |-> <<>>]

-----------------------------------------------------------------------------
(* main() *)

Boot ==
    /\ main = "down"
    /\ main' = "loading"
    /\ UNCHANGED <<stop_event, ticks, payload, busVars, service>>

\* The handlers are registered one by one; no other task exists yet.
Register(t, h) ==
    /\ main = "loading"
    /\ h \in registered[t]
    /\ Subscribe(t, h)
    /\ UNCHANGED <<main, stop_event, ticks, payload, service>>

\* Periodic tasks, signal handlers and the bus; then main() waits.
Listen ==
    /\ main = "loading"
    /\ subscribed = registered
    /\ Start
    /\ main' = "waiting"
    /\ ticks' = [k \in scheduled |-> "sleeping"]
    /\ UNCHANGED <<stop_event, payload, service>>

\* handle_stop_signal: a second signal changes nothing.
Signal ==
    /\ Serving
    /\ ~stop_event
    /\ stop_event' = TRUE
    /\ UNCHANGED <<main, ticks, payload, busVars, service>>

\* main() goes on and calls stop().
MainWakes ==
    /\ main = "waiting"
    /\ stop_event
    /\ Stop
    /\ main' = "stopping"
    /\ UNCHANGED <<stop_event, ticks, payload, service>>

MainReturns ==
    /\ main = "stopping"
    /\ StopReturns
    /\ main' = "leaving"
    /\ UNCHANGED <<stop_event, ticks, payload, service>>

\* The bus of a process that is no more.
ForgetBus ==
    /\ subscribed' = [t \in Topics |-> {}]
    /\ topicOf' = <<>> /\ queue' = <<>> /\ payload' = <<>>
    /\ running' = FALSE /\ task' = NoTask /\ created' = 0 /\ stopping' = NoTask
    /\ place' = [w \in Tasks |-> "uncreated"]
    /\ event' = [w \in Tasks |-> NoEvent]
    /\ jobs' = [w \in Tasks |-> NoJobs]
    /\ started' = [p \in Events \X Handlers |-> 0]
    /\ cancelled' = {} /\ handled' = {} /\ interrupted' = {}
    /\ stopped' = FALSE

\* A commit under way happens or does not.
Gone ==
    /\ main' = "down"
    /\ stop_event' = FALSE
    /\ ticks' = NoTicks
    /\ ForgetBus
    /\ lost' = lost \cup ToSet(Waiting) \cup Untold
    /\ requests' = [u \in Users |-> IF requests[u] = "none" THEN "none" ELSE "answered"]
    /\ \E applied \in SUBSET {u \in Users : requests[u] = "committing"} :
            users' = users \cup applied
    /\ UNCHANGED <<returned, welcomes, skipped>>

\* asyncio.run() returns when the tasks it has cancelled have ended.
Exit ==
    /\ main = "leaving"
    /\ ticks = NoTicks
    /\ \A u \in Users : requests[u] \in {"none", "answered"}
    /\ Gone

\* SIGKILL, or a signal that comes before main() handles it.
Crash == main # "down" /\ Gone

-----------------------------------------------------------------------------
(* _run_periodic_task *)

Tick(k, from, to) ==
    /\ ticks[k] = from
    /\ ticks' = [ticks EXCEPT ![k] = to]
    /\ UNCHANGED <<main, stop_event, payload, busVars, service>>

TickBegins(k) == main # "leaving" /\ Tick(k, "sleeping", "running")

\* The function returns, or raises, and the loop goes on.
TickEnds(k) == Tick(k, "running", "sleeping")

\* Only Exception is caught, and CancelledError is none.
TickCancelled(k) ==
    /\ main = "leaving"
    /\ Tick(k, "running", "none") \/ Tick(k, "sleeping", "none")

-----------------------------------------------------------------------------
(* Use cases *)

\* A task of the process sends CreateUser through the mediator, which serves it in
\* every process; the worker's own handlers and its periodic task send none yet.
Request(u) ==
    /\ Serving
    /\ UNCHANGED <<process, welcomes, skipped, lost>>
    /\ Signup!SignUp(u, Self) \/ Signup!Add(u) \/ Signup!Commit(u) \/ Signup!Fails(u)

\* put() on an unbounded queue: it neither waits nor raises.
Announce(u) ==
    /\ requests[u] = "publishing"
    /\ requests' = [requests EXCEPT ![u] = "answered"]
    /\ Publish(UserCreated)
    /\ payload' = Append(payload, u)
    /\ returned' = returned \cup {u}
    /\ UNCHANGED <<main, stop_event, ticks, users, welcomes, skipped, lost>>

\* WelcomeUser has found its user, or not, or it is cut off by a cancellation.
Welcomed(w) ==
    LET u == payload[event[w]] IN
    \/ /\ u \in users
       /\ welcomes' = [welcomes EXCEPT ![u] = Append(@, Self)]
       /\ UNCHANGED skipped
    \/ /\ skipped' = skipped \cup {u}
       /\ UNCHANGED welcomes
    \/ /\ w \in cancelled
       /\ UNCHANGED <<welcomes, skipped>>

HandlerReturns(w, h) ==
    /\ HandlerEnds(w, h)
    /\ IF h = on_user_created THEN Welcomed(w) ELSE UNCHANGED <<welcomes, skipped>>
    /\ UNCHANGED <<main, stop_event, ticks, payload, users, requests, returned, lost>>

Dispatch(w) == Loop(w) /\ UNCHANGED <<main, stop_event, ticks, payload, service>>
Call(w, h) == CallHandler(w, h) /\ UNCHANGED <<main, stop_event, ticks, payload, service>>

Next ==
    \/ Boot \/ Listen \/ Signal \/ MainWakes \/ MainReturns \/ Exit \/ Crash
    \/ \E t \in Topics, h \in Handlers : Register(t, h)
    \/ \E k \in scheduled : TickBegins(k) \/ TickEnds(k) \/ TickCancelled(k)
    \/ \E u \in Users : Request(u) \/ Announce(u)
    \/ \E w \in Tasks : Dispatch(w)
    \/ \E w \in Tasks, h \in Handlers : Call(w, h) \/ HandlerReturns(w, h)

Spec == Init /\ [][Next]_vars

\* The loop is fair to its tasks, timers fire, and what handlers, functions and
\* requests await comes about.
Fairness ==
    /\ WF_vars(MainWakes) /\ WF_vars(MainReturns) /\ WF_vars(Exit)
    /\ \A k \in scheduled :
        /\ WF_vars(TickBegins(k)) /\ WF_vars(TickEnds(k)) /\ WF_vars(TickCancelled(k))
    /\ \A u \in Users :
        WF_vars((requests[u] # "none" /\ Request(u)) \/ Announce(u))
    /\ \A w \in Tasks : WF_vars(Dispatch(w))
    /\ \A w \in Tasks, h \in Handlers : WF_vars(Call(w, h)) /\ WF_vars(HandlerReturns(w, h))

FairSpec == Spec /\ Fairness

-----------------------------------------------------------------------------
(* Properties *)

\* The process is the one of UserSignup: what its bus has not delivered when it
\* ends is lost and nothing else is, and no user is announced early or welcomed
\* twice.
ImplementsSignup == Signup!Spec

\* A process that goes on serving welcomes everybody in its queue, or the lookup
\* fails.
WelcomesComeAbout == Signup!AnnouncedUsersAreWelcomed

\* A stop signal ends the process, whatever its tasks are doing and however
\* many events wait: stop() does not wait for the queue, and no task outlives
\* its cancellation.
StopIsHeeded == stop_event ~> main = "down"

=============================================================================
