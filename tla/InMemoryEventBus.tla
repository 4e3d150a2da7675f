-------------------------- MODULE InMemoryEventBus --------------------------
(***************************************************************************)
(* The process-local event bus: an unbounded queue, one worker task that    *)
(* runs all handlers of an event before it takes the next event, and        *)
(* start() and stop() called by the process that owns the bus.              *)
(*                                                                         *)
(* Everything runs on one asyncio loop: a step lasts until the code awaits  *)
(* something that is not ready.  Task.cancel() only asks; the task sees the *)
(* CancelledError when it runs next, and asyncio.gather() passes it on to   *)
(* the handlers and waits for them.                                         *)
(***************************************************************************)
EXTENDS Naturals, Sequences, FiniteSets, SequencesExt

CONSTANTS
    Topics,
    Handlers,       \* registrations: a callable subscribed again is one more
    MaxEvents,      \* bound on events published
    MaxStarts       \* bound on worker tasks created

ASSUME BusAssumption == MaxEvents \in Nat /\ MaxStarts \in Nat

Events == 1 .. MaxEvents    \* numbered in the order of publication
Tasks == 1 .. MaxStarts     \* numbered in the order of creation
NoTask == 0
NoEvent == 0

VARIABLES
    subscribed, \* _handlers: per topic
    topicOf,    \* the topic of each event published so far
    queue,      \* _queue
    running,    \* _running
    task,       \* _task
    place,      \* per task, where its coroutine is
    cancelled,  \* tasks that cancel() has been called on
    event,      \* per task, the event being dispatched
    jobs,       \* per task and handler, the progress of _execute_handler
    stopping,   \* the task a call of stop() awaits, or NoTask
    \* history:
    created,    \* number of tasks created
    started,    \* per event and handler, how often the handler was called
    handled,    \* events counted by task_done()
    interrupted,\* events whose dispatch was cancelled
    stopped     \* stop() has returned and start() was not called since

busVars ==
    <<subscribed, topicOf, queue, running, task, place, cancelled, event, jobs, stopping,
      created, started, handled, interrupted, stopped>>

Places == {"uncreated", "ready", "getting", "dispatching", "done"}
Progress == {"none", "scheduled", "running"}

BusTypeOK ==
    /\ subscribed \in [Topics -> SUBSET Handlers]
    /\ topicOf \in Seq(Topics) /\ Len(topicOf) <= MaxEvents
    /\ queue \in Seq(Events)
    /\ running \in BOOLEAN
    /\ task \in Tasks \cup {NoTask}
    /\ place \in [Tasks -> Places]
    /\ cancelled \in SUBSET Tasks
    /\ event \in [Tasks -> Events \cup {NoEvent}]
    /\ jobs \in [Tasks -> [Handlers -> Progress]]
    /\ stopping \in Tasks \cup {NoTask}
    /\ created \in 0 .. MaxStarts
    /\ started \in [Events \X Handlers -> Nat]
    /\ handled \in SUBSET Events
    /\ interrupted \in SUBSET Events
    /\ stopped \in BOOLEAN

NoJobs == [h \in Handlers |-> "none"]

BusInit ==
    /\ subscribed = [t \in Topics |-> {}]
    /\ topicOf = <<>>
    /\ queue = <<>>
    /\ running = FALSE
    /\ task = NoTask
    /\ place = [w \in Tasks |-> "uncreated"]
    /\ cancelled = {}
    /\ event = [w \in Tasks |-> NoEvent]
    /\ jobs = [w \in Tasks |-> NoJobs]
    /\ stopping = NoTask
    /\ created = 0
    /\ started = [p \in Events \X Handlers |-> 0]
    /\ handled = {}
    /\ interrupted = {}
    /\ stopped = FALSE

Move(w, p) == place' = [place EXCEPT ![w] = p]
Published == 1 .. Len(topicOf)

-----------------------------------------------------------------------------
(* Calls *)

Publish(t) ==
    /\ Len(topicOf) < MaxEvents
    /\ topicOf' = Append(topicOf, t)
    /\ queue' = Append(queue, Len(topicOf) + 1)
    /\ UNCHANGED <<subscribed, running, task, place, cancelled, event, jobs, stopping,
                   created, started, handled, interrupted, stopped>>

Subscribe(t, h) ==
    /\ h \notin subscribed[t]
    /\ subscribed' = [subscribed EXCEPT ![t] = @ \cup {h}]
    /\ UNCHANGED <<topicOf, queue, running, task, place, cancelled, event, jobs, stopping,
                   created, started, handled, interrupted, stopped>>

\* Mutant: start() does not look at _running.
StartAgain ==
    /\ created < MaxStarts
    /\ running' = TRUE
    /\ created' = created + 1
    /\ task' = created + 1
    /\ Move(created + 1, "ready")
    /\ stopped' = FALSE
    /\ UNCHANGED <<subscribed, topicOf, queue, cancelled, event, jobs, stopping,
                   started, handled, interrupted>>

\* start(), called while the bus is not running; otherwise it does nothing.
Start ==
    /\ ~running
    /\ created < MaxStarts
    /\ running' = TRUE
    /\ created' = created + 1
    /\ task' = created + 1
    /\ Move(created + 1, "ready")
    /\ stopped' = FALSE
    /\ UNCHANGED <<subscribed, topicOf, queue, cancelled, event, jobs, stopping,
                   started, handled, interrupted>>

\* Mutant: stop() empties the queue.
StopAndClear ==
    /\ stopping = NoTask
    /\ running
    /\ running' = FALSE
    /\ queue' = <<>>
    /\ cancelled' = IF place[task] = "done" THEN cancelled ELSE cancelled \cup {task}
    /\ stopping' = task
    /\ UNCHANGED <<subscribed, topicOf, task, place, event, jobs,
                   created, started, handled, interrupted, stopped>>

\* Mutant: stop() lets the task find out by itself.
StopWithoutCancel ==
    /\ stopping = NoTask
    /\ running
    /\ running' = FALSE
    /\ stopping' = task
    /\ UNCHANGED <<subscribed, topicOf, queue, task, place, cancelled, event, jobs,
                   created, started, handled, interrupted, stopped>>

\* stop() up to its await.
Stop ==
    /\ stopping = NoTask
    /\ running
    /\ running' = FALSE
    /\ cancelled' = IF place[task] = "done" THEN cancelled ELSE cancelled \cup {task}
    /\ stopping' = task
    /\ UNCHANGED <<subscribed, topicOf, queue, task, place, event, jobs,
                   created, started, handled, interrupted, stopped>>

\* Mutant: stop() does not await the task it has cancelled.
StopReturnsEarly ==
    /\ stopping # NoTask
    /\ stopping' = NoTask
    /\ stopped' = ~running
    /\ UNCHANGED <<subscribed, topicOf, queue, running, task, place, cancelled, event, jobs,
                   created, started, handled, interrupted>>

\* The awaited task has ended, and stop() returns.
StopReturns ==
    /\ stopping # NoTask
    /\ place[stopping] = "done"
    /\ stopping' = NoTask
    /\ stopped' = ~running
    /\ UNCHANGED <<subscribed, topicOf, queue, running, task, place, cancelled, event, jobs,
                   created, started, handled, interrupted>>

-----------------------------------------------------------------------------
(* The worker task *)

\* The condition of the while loop.
NextRound(w) == Move(w, IF running THEN "getting" ELSE "done")

\* The task runs for the first time; one cancelled before never does.
Begin(w) ==
    /\ place[w] = "ready"
    /\ IF w \in cancelled THEN Move(w, "done") ELSE NextRound(w)
    /\ UNCHANGED <<subscribed, topicOf, queue, running, task, cancelled, event, jobs, stopping,
                   created, started, handled, interrupted, stopped>>

\* queue.get() returns, the handlers of the topic are copied and gather()
\* schedules them.
Get(w) ==
    LET e == Head(queue)
        called == subscribed[topicOf[e]]
    IN
    /\ place[w] = "getting"
    /\ w \notin cancelled
    /\ queue # <<>>
    /\ queue' = Tail(queue)
    /\ IF called = {}
       THEN /\ handled' = handled \cup {e}
            /\ NextRound(w)
            /\ UNCHANGED <<event, jobs>>
       ELSE /\ event' = [event EXCEPT ![w] = e]
            /\ jobs' = [jobs EXCEPT ![w] =
                    [h \in Handlers |-> IF h \in called THEN "scheduled" ELSE "none"]]
            /\ Move(w, "dispatching")
            /\ UNCHANGED handled
    /\ UNCHANGED <<subscribed, topicOf, running, task, cancelled, stopping,
                   created, started, interrupted, stopped>>

\* CancelledError out of queue.get().
GetCancelled(w) ==
    /\ place[w] = "getting"
    /\ w \in cancelled
    /\ Move(w, "done")
    /\ UNCHANGED <<subscribed, topicOf, queue, running, task, cancelled, event, jobs, stopping,
                   created, started, handled, interrupted, stopped>>

\* _execute_handler calls the handler, unless it is cancelled before it runs.
CallHandler(w, h) ==
    /\ jobs[w][h] = "scheduled"
    /\ IF w \in cancelled
       THEN /\ jobs' = [jobs EXCEPT ![w][h] = "none"]
            /\ UNCHANGED started
       ELSE /\ jobs' = [jobs EXCEPT ![w][h] = "running"]
            /\ started' = [started EXCEPT ![<<event[w], h>>] = @ + 1]
    /\ UNCHANGED <<subscribed, topicOf, queue, running, task, place, cancelled, event, stopping,
                   created, handled, interrupted, stopped>>

\* The handler returns, raises, or is done with its cancellation: to the
\* worker it is the same.
HandlerEnds(w, h) ==
    /\ jobs[w][h] = "running"
    /\ jobs' = [jobs EXCEPT ![w][h] = "none"]
    /\ UNCHANGED <<subscribed, topicOf, queue, running, task, place, cancelled, event, stopping,
                   created, started, handled, interrupted, stopped>>

\* Mutants: a cancelled dispatch puts its event back; the worker serves one
\* event and ends.
GatheredRequeues(w) ==
    /\ place[w] = "dispatching"
    /\ jobs[w] = NoJobs
    /\ event' = [event EXCEPT ![w] = NoEvent]
    /\ IF w \in cancelled
       THEN /\ Move(w, "done")
            /\ queue' = Append(queue, event[w])
            /\ UNCHANGED handled
       ELSE /\ NextRound(w)
            /\ handled' = handled \cup {event[w]}
            /\ UNCHANGED queue
    /\ UNCHANGED <<subscribed, topicOf, running, task, cancelled, jobs, stopping,
                   created, started, interrupted, stopped>>
GatheredOnce(w) ==
    /\ place[w] = "dispatching"
    /\ jobs[w] = NoJobs
    /\ event' = [event EXCEPT ![w] = NoEvent]
    /\ Move(w, "done")
    /\ handled' = handled \cup {event[w]}
    /\ UNCHANGED <<subscribed, topicOf, queue, running, task, cancelled, jobs, stopping,
                   created, started, interrupted, stopped>>

\* gather() completes: task_done() and the next round, or the way out.
Gathered(w) ==
    /\ place[w] = "dispatching"
    /\ jobs[w] = NoJobs
    /\ event' = [event EXCEPT ![w] = NoEvent]
    /\ IF w \in cancelled
       THEN /\ Move(w, "done")
            /\ interrupted' = interrupted \cup {event[w]}
            /\ UNCHANGED handled
       ELSE /\ NextRound(w)
            /\ handled' = handled \cup {event[w]}
            /\ UNCHANGED interrupted
    /\ UNCHANGED <<subscribed, topicOf, queue, running, task, cancelled, jobs, stopping,
                   created, started, stopped>>

\* What the event loop runs by itself.
Loop(w) == Begin(w) \/ Get(w) \/ GetCancelled(w) \/ Gathered(w)
Handle(w, h) == CallHandler(w, h) \/ HandlerEnds(w, h)

BusNext ==
    \/ \E t \in Topics : Publish(t)
    \/ \E t \in Topics, h \in Handlers : Subscribe(t, h)
    \/ Start \/ Stop \/ StopReturns
    \/ \E w \in Tasks : Loop(w)
    \/ \E w \in Tasks, h \in Handlers : Handle(w, h)

BusFairness ==
    /\ \A w \in Tasks : WF_busVars(Loop(w))
    /\ \A w \in Tasks, h \in Handlers : WF_busVars(Handle(w, h))
    /\ WF_busVars(StopReturns)

BusSpec == BusInit /\ [][BusNext]_busVars
FairBusSpec == BusSpec /\ BusFairness

-----------------------------------------------------------------------------
(* Properties *)

Dispatched == {event[w] : w \in Tasks} \ {NoEvent}

Port == INSTANCE EventBus WITH log <- topicOf, subscribers <- subscribed, calls <- started

\* The bus keeps the promise of its port, through any number of stops and
\* restarts: a handler is called for published events of its topic, at most once
\* for each, and in the order of their publication.
ImplementsPort == Port!Spec

\* A handler is called at most once for an event, through any number of stops
\* and restarts.
AtMostOnce == \A p \in Events \X Handlers : started[p] <= 1

\* A handler is called only when every handler of every earlier event has
\* ended, but for those of a dispatch that stop() has cancelled
\* (the worker awaits gather() before it takes the next event).
OneEventAtATime ==
    [][\A e \in Events, h \in Handlers :
        started'[<<e, h>>] # started[<<e, h>>] =>
            \A w \in Tasks \ cancelled : jobs[w] # NoJobs => event[w] = e]_busVars

\* An event that has been published is in exactly one place: it waits, is being
\* dispatched, is done, or was cut off by a stop() - each of which costs one
\* event at most.
NoEventVanishes ==
    /\ Published = ToSet(queue) \cup Dispatched \cup handled \cup interrupted
    /\ Len(queue) + Cardinality(Dispatched) + Cardinality(handled)
            + Cardinality(interrupted) = Len(topicOf)
    /\ Cardinality(interrupted) <= Cardinality(cancelled)

\* When stop() has returned, no worker and no handler of the bus runs.
StoppedIsQuiet ==
    stopped => \A w \in Tasks :
        place[w] \in {"uncreated", "done"} /\ jobs[w] = NoJobs

\* If the bus is left running, every event is taken and done with, whatever its
\* handlers raise - provided that handlers end (one that hangs blocks the rest).
EventsGetHandled ==
    <>[]running => \A e \in Events : e \in Published ~> e \in handled \cup interrupted

=============================================================================
