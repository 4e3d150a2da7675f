------------------------- MODULE WorkerProcessProofs -------------------------
(***************************************************************************)
(* Proofs about the in-memory event bus, and about the worker process that *)
(* runs it: the bus keeps its promises in every order of its steps, and the *)
(* process, bus and all, implements UserSignup.                             *)
(***************************************************************************)
EXTENDS WorkerProcess, FiniteSetTheorems, TLAPS

-----------------------------------------------------------------------------
(* Queues: what Append and Tail do to the set of a queue's elements, and to *)
(* a queue without duplicates.                                              *)

\* publish() appends, and get() takes the head.
LEMMA AppendSet ==
    ASSUME NEW S, NEW s \in Seq(S), NEW e \in S
    PROVE  /\ Append(s, e) \in Seq(S)
           /\ ToSet(Append(s, e)) = ToSet(s) \cup {e}
<1>1. /\ Append(s, e) \in Seq(S)
      /\ DOMAIN s = 1 .. Len(s)
      /\ Len(s) \in Nat
      /\ DOMAIN Append(s, e) = 1 .. Len(s) + 1
      /\ \A i \in 1 .. Len(s) : Append(s, e)[i] = s[i]
      /\ Append(s, e)[Len(s) + 1] = e
  OBVIOUS
<1>2. 1 .. Len(s) + 1 = (1 .. Len(s)) \cup {Len(s) + 1}
  BY <1>1
<1> QED BY <1>1, <1>2 DEF ToSet

LEMMA HeadSet ==
    ASSUME NEW S, NEW s \in Seq(S), s # <<>>
    PROVE  /\ Head(s) \in S
           /\ Tail(s) \in Seq(S)
           /\ ToSet(s) = ToSet(Tail(s)) \cup {Head(s)}
<1>1. /\ Head(s) \in S /\ Tail(s) \in Seq(S)
      /\ Len(s) \in Nat \ {0}
      /\ DOMAIN s = 1 .. Len(s)
      /\ DOMAIN Tail(s) = 1 .. Len(s) - 1
      /\ Head(s) = s[1]
      /\ \A i \in 1 .. Len(s) - 1 : Tail(s)[i] = s[i + 1]
  OBVIOUS
<1>2. ASSUME NEW i \in 1 .. Len(s) PROVE s[i] \in ToSet(Tail(s)) \cup {Head(s)}
  <2>1. CASE i = 1 BY <1>1, <2>1
  <2>2. CASE i # 1
    <3>1. i - 1 \in 1 .. Len(s) - 1 /\ Tail(s)[i - 1] = s[i]
      BY <1>1, <2>2
    <3> QED BY <1>1, <3>1 DEF ToSet
  <2> QED BY <2>1, <2>2
<1>3. ASSUME NEW i \in 1 .. Len(s) - 1 PROVE Tail(s)[i] \in ToSet(s)
  <2>1. i + 1 \in 1 .. Len(s) /\ Tail(s)[i] = s[i + 1]
    BY <1>1
  <2> QED BY <1>1, <2>1 DEF ToSet
<1> QED BY <1>1, <1>2, <1>3 DEF ToSet

LEMMA EmptySet == ToSet(<<>>) = {}
BY DEF ToSet

LEMMA AppendFresh ==
    ASSUME NEW S, NEW s \in Seq(S), NEW e \in S, IsInjective(s), e \notin ToSet(s)
    PROVE  IsInjective(Append(s, e))
<1>1. /\ DOMAIN s = 1 .. Len(s)
      /\ Len(s) \in Nat
      /\ DOMAIN Append(s, e) = 1 .. Len(s) + 1
      /\ \A i \in 1 .. Len(s) : Append(s, e)[i] = s[i]
      /\ Append(s, e)[Len(s) + 1] = e
  OBVIOUS
<1>2. ASSUME NEW i \in 1 .. Len(s) PROVE s[i] # e
  BY <1>1 DEF ToSet
<1>3. ASSUME NEW i \in 1 .. Len(s) + 1, NEW j \in 1 .. Len(s) + 1,
             Append(s, e)[i] = Append(s, e)[j]
      PROVE  i = j
  <2>1. /\ i \in 1 .. Len(s) \/ i = Len(s) + 1
        /\ j \in 1 .. Len(s) \/ j = Len(s) + 1
    BY <1>1
  <2>2. \A k, l \in 1 .. Len(s) : s[k] = s[l] => k = l
    BY <1>1 DEF IsInjective
  <2> QED BY <1>1, <1>2, <1>3, <2>1, <2>2
<1>4. \A i, j \in DOMAIN Append(s, e) : Append(s, e)[i] = Append(s, e)[j] => i = j
  BY <1>1, <1>3
<1> QED BY <1>4, Zenon DEF IsInjective

LEMMA TailForgets ==
    ASSUME NEW S, NEW s \in Seq(S), s # <<>>, IsInjective(s)
    PROVE  IsInjective(Tail(s)) /\ Head(s) \notin ToSet(Tail(s))
<1>1. /\ Len(s) \in Nat \ {0}
      /\ DOMAIN s = 1 .. Len(s)
      /\ DOMAIN Tail(s) = 1 .. Len(s) - 1
      /\ Head(s) = s[1]
      /\ \A i \in 1 .. Len(s) - 1 : Tail(s)[i] = s[i + 1]
  OBVIOUS
<1>2. \A i \in 1 .. Len(s) - 1 : i + 1 \in 1 .. Len(s) /\ i + 1 # 1
  BY <1>1
<1>3. \A i, j \in 1 .. Len(s) - 1 : i + 1 = j + 1 => i = j
  BY <1>1
<1>4. IsInjective(Tail(s))
  BY <1>1, <1>2, <1>3 DEF IsInjective
<1>5. \A i \in 1 .. Len(s) - 1 : Tail(s)[i] # Head(s)
  BY <1>1, <1>2 DEF IsInjective
<1> QED BY <1>1, <1>4, <1>5 DEF ToSet

-----------------------------------------------------------------------------
(* The inductive invariant *)

Live(w) == place[w] \in {"ready", "getting", "dispatching"}

\* Tasks come into being in their order; _task is the last of them, and only a
\* task that dispatches has an event or handlers.
TasksInOrder ==
    /\ task = created
    /\ running => task # NoTask
    /\ stopping <= created
    /\ \A w \in Tasks : place[w] = "uncreated" <=> w > created
    /\ \A w \in Tasks : place[w] = "dispatching" <=> event[w] # NoEvent
    /\ \A w \in Tasks : place[w] # "dispatching" => jobs[w] = NoJobs

\* A task runs on only if it is the bus's own, or if a stop() awaits it and has
\* cancelled it.
OneWorker ==
    /\ \A w \in Tasks : Live(w) => w = task \/ w = stopping
    /\ \A w \in Tasks : Live(w) /\ w = stopping => w \in cancelled
    /\ task \in Tasks /\ ~running /\ Live(task) => stopping = task
    /\ running => stopping # task
    /\ stopped => ~running /\ stopping = NoTask

\* An event is in one place at a time, and no handler knows it before it is
\* dispatched.
EventsApart ==
    /\ IsInjective(queue)
    /\ \A e \in ToSet(queue) : e \in Published
    /\ \A w \in Tasks : event[w] # NoEvent => event[w] \in Published \ ToSet(queue)
    /\ \A v, w \in Tasks : event[v] = event[w] /\ event[v] # NoEvent => v = w
    /\ \A e \in Events, h \in Handlers :
        started[<<e, h>>] # 0 => e \in Published \ ToSet(queue)
    /\ \A w \in Tasks, h \in Handlers :
        jobs[w][h] = "scheduled" => event[w] # NoEvent /\ started[<<event[w], h>>] = 0
    /\ AtMostOnce

IInv == BusTypeOK /\ TasksInOrder /\ OneWorker /\ EventsApart

LEMMA InitIInv == BusInit => IInv
<1> SUFFICES ASSUME BusInit PROVE IInv
  OBVIOUS
<1> USE BusAssumption DEF BusInit
<1>1. BusTypeOK
  <2>1. NoJobs \in [Handlers -> Progress]
    BY DEF NoJobs, Progress
  <2>2. <<>> \in Seq(Topics) /\ Len(<<>>) = 0 /\ <<>> \in Seq(Events)
    OBVIOUS
  <2>3. [p \in Events \X Handlers |-> 0] \in [Events \X Handlers -> Nat]
    OBVIOUS
  <2>4. place \in [Tasks -> Places]
    BY DEF Places
  <2>5. jobs \in [Tasks -> [Handlers -> Progress]] /\ event \in [Tasks -> Events \cup {NoEvent}]
    BY <2>1
  <2>6. subscribed \in [Topics -> SUBSET Handlers]
    OBVIOUS
  <2>7. created \in 0 .. MaxStarts /\ Len(topicOf) <= MaxEvents
    BY <2>2
  <2> QED BY <2>2, <2>3, <2>4, <2>5, <2>6, <2>7 DEF BusTypeOK, NoTask
<1>2. TasksInOrder
  BY DEF TasksInOrder, Tasks, NoTask
<1>3. OneWorker
  BY DEF OneWorker, Live
<1>4. EventsApart
  BY EmptySet DEF EventsApart, AtMostOnce, IsInjective, NoJobs
<1> QED BY <1>1, <1>2, <1>3, <1>4 DEF IInv

\* The disjuncts of a step.
LEMMA StepCases ==
    ASSUME BusNext
    PROVE  \/ \E t \in Topics : Publish(t) \/ \E h \in Handlers : Subscribe(t, h)
           \/ Start \/ Stop \/ StopReturns
           \/ \E w \in Tasks : Begin(w) \/ Get(w) \/ GetCancelled(w) \/ Gathered(w)
           \/ \E w \in Tasks, h \in Handlers : CallHandler(w, h) \/ HandlerEnds(w, h)
BY DEF BusNext, Loop, Handle

-----------------------------------------------------------------------------
(* Types *)

LEMMA StepTypes == IInv /\ [BusNext]_busVars => BusTypeOK'
<1> SUFFICES ASSUME IInv, [BusNext]_busVars PROVE BusTypeOK'
  OBVIOUS
<1> USE BusAssumption DEF IInv, BusTypeOK, NoTask, NoEvent
<1>1. ASSUME NEW t \in Topics, Publish(t) PROVE BusTypeOK'
  <2>1. Len(topicOf) + 1 \in Events
    BY <1>1 DEF Publish, Events
  <2> QED BY <1>1, <2>1 DEF Publish, Events
<1>2. ASSUME NEW t \in Topics, NEW h \in Handlers, Subscribe(t, h) PROVE BusTypeOK'
  BY <1>2 DEF Subscribe
<1>3. CASE Start
  <2>1. created + 1 \in Tasks /\ created + 1 \in 0 .. MaxStarts
    BY <1>3 DEF Start, Tasks
  <2> QED BY <1>3, <2>1 DEF Start, Move, Places
<1>4. CASE Stop
  BY <1>4 DEF Stop, TasksInOrder
<1>5. CASE StopReturns
  BY <1>5 DEF StopReturns
<1>6. ASSUME NEW w \in Tasks, Begin(w) PROVE BusTypeOK'
  BY <1>6 DEF Begin, NextRound, Move, Places
<1>7. ASSUME NEW w \in Tasks, Get(w) PROVE BusTypeOK'
  <2>1. Head(queue) \in Events /\ Tail(queue) \in Seq(Events)
    BY <1>7 DEF Get
  <2> DEFINE called == subscribed[topicOf[Head(queue)]]
             calls == [h \in Handlers |-> IF h \in called THEN "scheduled" ELSE "none"]
  <2>2. calls \in [Handlers -> Progress]
    BY DEF Progress
  <2>3. CASE called = {}
    <3>1. /\ handled' = handled \cup {Head(queue)}
          /\ queue' = Tail(queue)
          /\ UNCHANGED <<subscribed, topicOf, running, task, cancelled, event, jobs, stopping,
                         created, started, interrupted, stopped>>
      BY <1>7, <2>3 DEF Get, called
    <3>2. place' \in [Tasks -> Places]
      BY <1>7, <2>3 DEF Get, called, NextRound, Move, Places
    <3> QED BY <2>1, <3>1, <3>2
  <2>4. CASE called # {}
    <3> HIDE DEF calls, called
    <3>1. /\ event' = [event EXCEPT ![w] = Head(queue)]
          /\ jobs' = [jobs EXCEPT ![w] = calls]
          /\ place' = [place EXCEPT ![w] = "dispatching"]
          /\ queue' = Tail(queue)
          /\ UNCHANGED <<subscribed, topicOf, running, task, cancelled, stopping,
                         created, started, handled, interrupted, stopped>>
      BY <1>7, <2>4 DEF Get, Move, calls, called
    <3> QED BY <2>1, <2>2, <3>1 DEF Places
  <2> QED BY <2>3, <2>4
<1>8. ASSUME NEW w \in Tasks, GetCancelled(w) PROVE BusTypeOK'
  BY <1>8 DEF GetCancelled, Move, Places
<1>9. ASSUME NEW w \in Tasks, Gathered(w) PROVE BusTypeOK'
  <2>1. event[w] \in Events
    BY <1>9 DEF Gathered, TasksInOrder
  <2> QED BY <1>9, <2>1 DEF Gathered, NextRound, Move, Places
<1>10. ASSUME NEW w \in Tasks, NEW h \in Handlers, CallHandler(w, h) PROVE BusTypeOK'
  <2>1. <<event[w], h>> \in Events \X Handlers
    BY <1>10 DEF CallHandler, EventsApart
  <2>2. UNCHANGED <<subscribed, topicOf, queue, running, task, place, cancelled, event,
                    stopping, created, handled, interrupted, stopped>>
    BY <1>10 DEF CallHandler
  <2>3. \E j \in Progress : jobs' = [jobs EXCEPT ![w][h] = j]
    BY <1>10 DEF CallHandler, Progress
  <2>4. jobs' \in [Tasks -> [Handlers -> Progress]]
    BY <2>3
  <2> DEFINE call == <<event[w], h>>
  <2> HIDE DEF call
  <2>5. started' = started \/ started' = [started EXCEPT ![call] = started[call] + 1]
    BY <1>10 DEF CallHandler, call
  <2>6. call \in Events \X Handlers
    BY <2>1 DEF call
  <2>7. started' \in [Events \X Handlers -> Nat]
    BY <2>5, <2>6
  <2> QED BY <2>2, <2>4, <2>7
<1>11. ASSUME NEW w \in Tasks, NEW h \in Handlers, HandlerEnds(w, h) PROVE BusTypeOK'
  BY <1>11 DEF HandlerEnds, Progress
<1>12. CASE UNCHANGED busVars
  BY <1>12 DEF busVars
<1> QED
  BY <1>1, <1>2, <1>3, <1>4, <1>5, <1>6, <1>7, <1>8, <1>9, <1>10, <1>11, <1>12, StepCases

-----------------------------------------------------------------------------
(* Tasks *)

LEMMA StepTasks == IInv /\ [BusNext]_busVars => TasksInOrder'
<1> SUFFICES ASSUME IInv, [BusNext]_busVars PROVE TasksInOrder'
  OBVIOUS
<1> USE BusAssumption DEF IInv, TasksInOrder, NoTask
<1>1. ASSUME NEW t \in Topics, Publish(t) \/ \E h \in Handlers : Subscribe(t, h)
      PROVE  TasksInOrder'
  BY <1>1 DEF Publish, Subscribe
<1>2. CASE Start
  <2>1. /\ created + 1 \in Tasks
        /\ place[created + 1] = "uncreated"
        /\ place' = [place EXCEPT ![created + 1] = "ready"]
        /\ UNCHANGED <<event, jobs, stopping>>
        /\ task' = created + 1 /\ created' = created + 1
    BY <1>2 DEF Start, Move, Tasks, BusTypeOK
  <2>2. /\ \A w \in Tasks : w > created + 1 <=> w > created /\ w # created + 1
        /\ stopping <= created + 1 /\ created + 1 # 0
    BY DEF Tasks, BusTypeOK
  <2> QED BY <2>1, <2>2 DEF BusTypeOK
<1>3. CASE Stop \/ StopReturns
  <2>1. stopping' <= created
    BY <1>3 DEF Stop, StopReturns, BusTypeOK
  <2> QED BY <1>3, <2>1 DEF Stop, StopReturns
<1>4. ASSUME NEW w \in Tasks, Begin(w) \/ GetCancelled(w) PROVE TasksInOrder'
  BY <1>4 DEF Begin, GetCancelled, NextRound, Move, BusTypeOK
<1>5. ASSUME NEW w \in Tasks, Get(w) PROVE TasksInOrder'
  <2>1. Head(queue) \in Events /\ Head(queue) # NoEvent
    BY <1>5 DEF Get, BusTypeOK, Events, NoEvent
  <2> QED BY <1>5, <2>1 DEF Get, NextRound, Move, BusTypeOK
<1>6. ASSUME NEW w \in Tasks, Gathered(w) PROVE TasksInOrder'
  BY <1>6 DEF Gathered, NextRound, Move, BusTypeOK
<1>7. ASSUME NEW w \in Tasks, NEW h \in Handlers, CallHandler(w, h) \/ HandlerEnds(w, h)
      PROVE  TasksInOrder'
  <2>1. place[w] = "dispatching"
    BY <1>7 DEF CallHandler, HandlerEnds, NoJobs
  <2> QED BY <1>7, <2>1 DEF CallHandler, HandlerEnds, BusTypeOK
<1>8. CASE UNCHANGED busVars
  BY <1>8 DEF busVars
<1> QED
  BY <1>1, <1>2, <1>3, <1>4, <1>5, <1>6, <1>7, <1>8, StepCases

LEMMA StepOneWorker == IInv /\ [BusNext]_busVars => OneWorker'
<1> SUFFICES ASSUME IInv, [BusNext]_busVars PROVE OneWorker'
  OBVIOUS
<1> USE DEF IInv, OneWorker, Live
<1>1. CASE Start
  <2>1. /\ created + 1 \in Tasks /\ created + 1 # stopping
        /\ place' = [place EXCEPT ![created + 1] = "ready"]
        /\ task' = created + 1 /\ running' /\ ~stopped'
        /\ UNCHANGED <<stopping, cancelled>>
    <3>1. created + 1 \in Tasks /\ place[created + 1] = "uncreated"
      BY <1>1, BusAssumption DEF Start, Tasks, BusTypeOK, TasksInOrder
    <3>2. created + 1 # stopping
      BY DEF Tasks, BusTypeOK, TasksInOrder, NoTask
    <3> QED BY <1>1, <3>1, <3>2 DEF Start, Move
  <2>2. ASSUME NEW w \in Tasks, Live(w), w # created + 1 PROVE w = stopping
    BY <1>1, <2>2 DEF Start
  <2> QED BY <2>1, <2>2 DEF BusTypeOK
<1>2. CASE Stop
  <2>1. /\ running /\ ~running' /\ task \in Tasks /\ stopping' = task
        /\ Live(task) => task \in cancelled'
        /\ \A w \in Tasks : w # stopping
        /\ UNCHANGED <<place, task, stopped>>
    BY <1>2 DEF Stop, BusTypeOK, TasksInOrder, NoTask, Tasks
  <2> QED BY <2>1
<1>3. CASE StopReturns
  <2>1. /\ place[stopping] = "done" /\ stopping \in Tasks /\ stopping' = NoTask
        /\ stopped' = ~running
        /\ running => task # NoTask
        /\ UNCHANGED <<place, task, running, cancelled>>
    BY <1>3 DEF StopReturns, BusTypeOK, TasksInOrder
  <2>2. \A w \in Tasks : w # NoTask
    BY DEF Tasks, NoTask
  <2> QED BY <2>1, <2>2
<1>4. ASSUME NEW w \in Tasks, Begin(w) \/ Get(w) \/ GetCancelled(w) \/ Gathered(w)
      PROVE  OneWorker'
  <2>1. /\ Live(w)
        /\ \E p \in {"getting", "dispatching", "done"} : place' = [place EXCEPT ![w] = p]
        /\ UNCHANGED <<running, task, cancelled, stopping, stopped>>
    <3>1. CASE Begin(w) BY <3>1 DEF Begin, NextRound, Move
    <3>2. CASE Get(w) BY <3>2 DEF Get, NextRound, Move
    <3>3. CASE GetCancelled(w) BY <3>3 DEF GetCancelled, Move
    <3>4. CASE Gathered(w) BY <3>4 DEF Gathered, NextRound, Move
    <3> QED BY <1>4, <3>1, <3>2, <3>3, <3>4
  <2>2. \A v \in Tasks : Live(v)' => Live(v)
    BY <2>1 DEF BusTypeOK
  <2> QED BY <2>1, <2>2
<1>5. CASE UNCHANGED <<place, running, task, cancelled, stopping, stopped>>
  BY <1>5
<1>6. ASSUME NEW t \in Topics, Publish(t) \/ \E h \in Handlers : Subscribe(t, h)
      PROVE  OneWorker'
  BY <1>5, <1>6 DEF Publish, Subscribe
<1>7. ASSUME NEW w \in Tasks, NEW h \in Handlers, CallHandler(w, h) \/ HandlerEnds(w, h)
      PROVE  OneWorker'
  BY <1>5, <1>7 DEF CallHandler, HandlerEnds
<1>8. CASE UNCHANGED busVars
  BY <1>5, <1>8 DEF busVars
<1> QED
  BY <1>1, <1>2, <1>3, <1>4, <1>6, <1>7, <1>8, StepCases

-----------------------------------------------------------------------------
(* Events *)

\* What matters of a step in which no event moves and no handler begins.
LEMMA EventsStay ==
    ASSUME IInv, UNCHANGED <<queue, event, started, topicOf>>,
           \A w \in Tasks, h \in Handlers :
                jobs'[w][h] = "scheduled" => jobs[w][h] = "scheduled"
    PROVE  EventsApart'
BY DEF IInv, EventsApart, AtMostOnce, Published

LEMMA StepEventsApart == IInv /\ [BusNext]_busVars => EventsApart'
<1> SUFFICES ASSUME IInv, [BusNext]_busVars PROVE EventsApart'
  OBVIOUS
<1>1. queue \in Seq(Events) /\ event \in [Tasks -> Events \cup {NoEvent}]
      /\ started \in [Events \X Handlers -> Nat]
      /\ jobs \in [Tasks -> [Handlers -> Progress]] /\ topicOf \in Seq(Topics)
  BY DEF IInv, BusTypeOK
<1>2. ASSUME NEW t \in Topics, Publish(t) PROVE EventsApart'
  <2> DEFINE new == Len(topicOf) + 1
  <2>1. /\ new \in Events /\ new \notin Published /\ new # NoEvent
        /\ Published' = Published \cup {new}
    <3>1. Len(topicOf) \in Nat /\ Len(topicOf') = Len(topicOf) + 1 /\ Len(topicOf) < MaxEvents
      BY <1>1, <1>2 DEF Publish
    <3> QED BY <3>1, BusAssumption DEF Events, Published, NoEvent
  <2>2. new \notin ToSet(queue)
    BY <2>1 DEF IInv, EventsApart
  <2>3. ToSet(queue') = ToSet(queue) \cup {new} /\ IsInjective(queue')
    <3>1. queue' = Append(queue, new) /\ IsInjective(queue)
      BY <1>2 DEF Publish, IInv, EventsApart
    <3> HIDE DEF new
    <3> QED BY <1>1, <2>1, <2>2, <3>1, AppendSet, AppendFresh
  <2>4. UNCHANGED <<event, jobs, started>>
    BY <1>2 DEF Publish
  <2> HIDE DEF new
  <2> QED BY <2>1, <2>2, <2>3, <2>4 DEF IInv, EventsApart, AtMostOnce
<1>3. ASSUME NEW w \in Tasks, Get(w) PROVE EventsApart'
  <2> DEFINE e == Head(queue)
  <2>1. /\ e \in Events /\ e # NoEvent
        /\ ToSet(queue) = ToSet(queue') \cup {e}
        /\ e \notin ToSet(queue') /\ IsInjective(queue')
    <3>1. queue # <<>> /\ queue' = Tail(queue) /\ IsInjective(queue)
      BY <1>3 DEF Get, IInv, EventsApart
    <3>2. e \in Events /\ ToSet(queue) = ToSet(Tail(queue)) \cup {e}
      BY <1>1, <3>1, HeadSet
    <3>3. e \notin ToSet(Tail(queue)) /\ IsInjective(Tail(queue))
      BY <1>1, <3>1, TailForgets
    <3> QED BY <3>1, <3>2, <3>3 DEF Events, NoEvent
  <2>2. \/ event' = event /\ jobs' = jobs
        \/ /\ event' = [event EXCEPT ![w] = e]
           /\ \A v \in Tasks \ {w} : jobs'[v] = jobs[v]
    BY <1>1, <1>3 DEF Get
  <2>3. UNCHANGED <<started, topicOf>>
    BY <1>3 DEF Get
  <2>4. e \in Published /\ \A h \in Handlers : started[<<e, h>>] = 0
    BY <2>1 DEF IInv, EventsApart
  <2>5. \A v \in Tasks : event[v] # e
    BY <2>1 DEF IInv, EventsApart
  <2> HIDE DEF e
  <2>6. CASE event' = event /\ jobs' = jobs
    BY <2>1, <2>3, <2>6 DEF IInv, EventsApart, AtMostOnce, Published
  <2>7. CASE /\ event' = [event EXCEPT ![w] = e]
             /\ \A v \in Tasks \ {w} : jobs'[v] = jobs[v]
    <3>1. event'[w] = e /\ \A v \in Tasks \ {w} : event'[v] = event[v]
      BY <1>1, <2>7
    <3> QED BY <2>1, <2>3, <2>4, <2>5, <2>7, <3>1 DEF IInv, EventsApart, AtMostOnce, Published
  <2> QED BY <2>2, <2>6, <2>7
<1>4. ASSUME NEW w \in Tasks, Gathered(w) PROVE EventsApart'
  <2>1. /\ event' = [event EXCEPT ![w] = NoEvent]
        /\ jobs[w] = NoJobs
        /\ UNCHANGED <<queue, started, topicOf, jobs>>
    BY <1>4 DEF Gathered
  <2>2. event'[w] = NoEvent /\ \A v \in Tasks \ {w} : event'[v] = event[v]
    BY <1>1, <2>1
  <2> QED BY <2>1, <2>2 DEF IInv, EventsApart, AtMostOnce, Published, NoJobs
<1>5. ASSUME NEW w \in Tasks, NEW h \in Handlers, CallHandler(w, h) PROVE EventsApart'
  <2>1. /\ jobs[w][h] = "scheduled"
        /\ UNCHANGED <<queue, event, topicOf>>
        /\ jobs'[w][h] # "scheduled"
        /\ \A v \in Tasks, g \in Handlers :
                v # w \/ g # h => jobs'[v][g] = jobs[v][g]
    BY <1>1, <1>5 DEF CallHandler
  <2>2. CASE w \in cancelled
    <3>1. UNCHANGED started
      BY <1>5, <2>2 DEF CallHandler
    <3> QED BY <2>1, <3>1, EventsStay
  <2>3. CASE w \notin cancelled
    <3> DEFINE call == <<event[w], h>>
    <3>1. /\ event[w] \in Events /\ event[w] # NoEvent /\ started[call] = 0
          /\ event[w] \in Published \ ToSet(queue)
      BY <1>1, <2>1 DEF IInv, EventsApart
    <3>2. call \in Events \X Handlers
      BY <3>1
    <3> HIDE DEF call
    <3>3. started' = [started EXCEPT ![call] = started[call] + 1]
      BY <1>5, <2>3 DEF CallHandler, call
    <3>4. started'[call] = 1 /\ \A p \in Events \X Handlers : p # call => started'[p] = started[p]
      BY <1>1, <3>1, <3>2, <3>3
    <3>5. \A e \in Events, g \in Handlers : <<e, g>> = call <=> e = event[w] /\ g = h
      BY DEF call
    <3>6. AtMostOnce'
      BY <3>4 DEF AtMostOnce, IInv, EventsApart
    <3>7. \A e \in Events, g \in Handlers :
            started'[<<e, g>>] # 0 => e \in Published \ ToSet(queue)
      BY <3>1, <3>4, <3>5 DEF IInv, EventsApart
    <3>8. \A v \in Tasks, g \in Handlers : jobs'[v][g] = "scheduled" =>
            event[v] # NoEvent /\ started'[<<event[v], g>>] = 0
      <4>1. SUFFICES ASSUME NEW v \in Tasks, NEW g \in Handlers, jobs'[v][g] = "scheduled"
                     PROVE  event[v] # NoEvent /\ started'[<<event[v], g>>] = 0
        OBVIOUS
      <4>2. (v # w \/ g # h) /\ jobs[v][g] = "scheduled"
        BY <2>1, <4>1
      <4>3. event[v] # NoEvent /\ started[<<event[v], g>>] = 0
        BY <4>2 DEF IInv, EventsApart
      <4>4. event[v] \in Events /\ <<event[v], g>> # call
        BY <1>1, <3>1, <3>5, <4>2, <4>3 DEF IInv, EventsApart
      <4> QED BY <3>4, <4>3, <4>4
    <3> QED BY <2>1, <3>6, <3>7, <3>8 DEF IInv, EventsApart, Published
  <2> QED BY <2>2, <2>3
<1>6. ASSUME NEW w \in Tasks, NEW h \in Handlers, HandlerEnds(w, h) PROVE EventsApart'
  <2>1. \A v \in Tasks, g \in Handlers :
            jobs'[v][g] = "scheduled" => jobs[v][g] = "scheduled"
    BY <1>1, <1>6 DEF HandlerEnds
  <2> QED BY <1>6, <2>1, EventsStay DEF HandlerEnds
<1>7. CASE UNCHANGED <<queue, event, started, topicOf, jobs>>
  BY <1>7, EventsStay
<1>8. CASE Start \/ Stop \/ StopReturns
  BY <1>7, <1>8 DEF Start, Stop, StopReturns
<1>9. ASSUME NEW t \in Topics, NEW h \in Handlers, Subscribe(t, h) PROVE EventsApart'
  BY <1>7, <1>9 DEF Subscribe
<1>10. ASSUME NEW w \in Tasks, Begin(w) \/ GetCancelled(w) PROVE EventsApart'
  BY <1>7, <1>10 DEF Begin, GetCancelled
<1>11. CASE UNCHANGED busVars
  BY <1>7, <1>11 DEF busVars
<1> QED
  BY <1>2, <1>3, <1>4, <1>5, <1>6, <1>8, <1>9, <1>10, <1>11, StepCases

-----------------------------------------------------------------------------
(* The theorems *)

\* The inductive invariant holds in every reachable state.
THEOREM Invariant == BusSpec => []IInv
<1>1. IInv /\ [BusNext]_busVars => IInv'
  BY StepTypes, StepTasks, StepOneWorker, StepEventsApart DEF IInv
<1> QED BY InitIInv, <1>1, PTL DEF BusSpec

\* The queue, the tasks and what they dispatch have their types.
THEOREM TypesAreCorrect == BusSpec => []BusTypeOK
BY Invariant, PTL DEF IInv

\* No handler is called twice for one event, whenever stop() and start() come.
THEOREM DeliveryIsAtMostOnce == BusSpec => []AtMostOnce
<1>1. IInv => AtMostOnce
  BY DEF IInv, EventsApart
<1> QED BY Invariant, <1>1, PTL

\* When stop() has returned, nothing of the bus runs.
THEOREM StopIsComplete == BusSpec => []StoppedIsQuiet
<1>1. IInv => StoppedIsQuiet
  <2> SUFFICES ASSUME IInv, stopped, NEW w \in Tasks
              PROVE  place[w] \in {"uncreated", "done"} /\ jobs[w] = NoJobs
    BY DEF StoppedIsQuiet
  <2>1. stopping \notin Tasks /\ ~running
    BY DEF IInv, OneWorker, NoTask, Tasks
  <2>2. ~Live(w)
    BY <2>1 DEF IInv, OneWorker
  <2> QED BY <2>2 DEF IInv, BusTypeOK, TasksInOrder, Live, Places
<1> QED BY Invariant, <1>1, PTL

\* A handler starts only when all handlers of the events before have ended.
THEOREM EventsDoNotOverlap == BusSpec => OneEventAtATime
<1> DEFINE Alone(e) == \A v \in Tasks \ cancelled : jobs[v] # NoJobs => event[v] = e
<1>1. ASSUME IInv, BusNext, NEW e \in Events, NEW h \in Handlers,
             started'[<<e, h>>] # started[<<e, h>>]
      PROVE  Alone(e)
  <2>1. PICK w \in Tasks, g \in Handlers : CallHandler(w, g)
    <3>1. ASSUME NEW t \in Topics, Publish(t) \/ \E g \in Handlers : Subscribe(t, g)
          PROVE  UNCHANGED started
      BY <3>1 DEF Publish, Subscribe
    <3>2. CASE Start \/ Stop \/ StopReturns
      BY <1>1, <3>2 DEF Start, Stop, StopReturns
    <3>3. ASSUME NEW w \in Tasks, Begin(w) \/ Get(w) \/ GetCancelled(w) \/ Gathered(w)
          PROVE  UNCHANGED started
      BY <3>3 DEF Begin, Get, GetCancelled, Gathered
    <3>4. ASSUME NEW w \in Tasks, NEW g \in Handlers, HandlerEnds(w, g)
          PROVE  UNCHANGED started
      BY <3>4 DEF HandlerEnds
    <3> QED BY <1>1, <3>1, <3>2, <3>3, <3>4, StepCases
  <2>2. /\ w \notin cancelled
        /\ started' = [started EXCEPT ![<<event[w], g>>] = @ + 1]
        /\ jobs[w][g] = "scheduled"
    BY <1>1, <2>1 DEF CallHandler
  <2>3. event[w] = e
    <3> DEFINE call == <<event[w], g>>
    <3>1. <<e, h>> # call => started'[<<e, h>>] = started[<<e, h>>]
      BY <1>1, <2>2 DEF IInv, BusTypeOK
    <3> QED BY <1>1, <3>1
  <2>4. Live(w) /\ w = task
    BY <1>1, <2>2 DEF IInv, TasksInOrder, OneWorker, Live, NoJobs
  <2>5. ASSUME NEW v \in Tasks \ cancelled, jobs[v] # NoJobs PROVE v = w
    BY <1>1, <2>4, <2>5 DEF IInv, TasksInOrder, OneWorker, Live
  <2> QED BY <2>3, <2>5
<1>2. IInv /\ [BusNext]_busVars =>
        [\A e \in Events, h \in Handlers :
            started'[<<e, h>>] # started[<<e, h>>] =>
                \A w \in Tasks \ cancelled : jobs[w] # NoJobs => event[w] = e]_busVars
  BY <1>1
<1> QED BY Invariant, <1>2, PTL DEF BusSpec, OneEventAtATime

-----------------------------------------------------------------------------
(* The order of events, and the port *)

\* The number of the event that was taken last.
TakenSoFar == Len(topicOf) - Len(queue)

\* The queue holds exactly the events after the last one taken, in order; the
\* worker that is not cancelled dispatches that one; and a scheduled handler is
\* a subscriber.
InOrder ==
    /\ TakenSoFar >= 0
    /\ \A i \in 1 .. Len(queue) : queue[i] = TakenSoFar + i
    /\ \A w \in Tasks \ cancelled : event[w] # NoEvent => event[w] = TakenSoFar
    /\ \A w \in Tasks, h \in Handlers :
        jobs[w][h] = "scheduled" => h \in subscribed[topicOf[event[w]]]

\* A step that neither publishes nor takes an event.
LEMMA OrderStays ==
    ASSUME InOrder, UNCHANGED <<queue, topicOf>>, cancelled \subseteq cancelled',
           \A w \in Tasks : event'[w] = event[w] \/ event'[w] = NoEvent,
           \A w \in Tasks, h \in Handlers : jobs'[w][h] = "scheduled" =>
                jobs[w][h] = "scheduled" /\ event'[w] = event[w],
           \A w \in Tasks, h \in Handlers : jobs[w][h] = "scheduled" =>
                subscribed[topicOf[event[w]]] \subseteq subscribed'[topicOf[event[w]]]
    PROVE  InOrder'
BY DEF InOrder, TakenSoFar

LEMMA StepInOrder == IInv /\ InOrder /\ [BusNext]_busVars => InOrder'
<1> SUFFICES ASSUME IInv, InOrder, [BusNext]_busVars PROVE InOrder'
  OBVIOUS
<1>1. /\ queue \in Seq(Events) /\ event \in [Tasks -> Events \cup {NoEvent}]
      /\ jobs \in [Tasks -> [Handlers -> Progress]] /\ topicOf \in Seq(Topics)
      /\ subscribed \in [Topics -> SUBSET Handlers]
      /\ Len(queue) \in Nat /\ Len(topicOf) \in Nat
  BY DEF IInv, BusTypeOK
<1>2. ASSUME NEW t \in Topics, Publish(t) PROVE InOrder'
  <2>1. /\ topicOf' = Append(topicOf, t) /\ queue' = Append(queue, Len(topicOf) + 1)
        /\ Len(topicOf) + 1 \in Events
        /\ UNCHANGED <<event, jobs, cancelled, subscribed>>
    BY <1>1, <1>2, BusAssumption DEF Publish, Events
  <2>2. /\ Len(topicOf') = Len(topicOf) + 1 /\ Len(queue') = Len(queue) + 1
        /\ \A i \in 1 .. Len(queue) : queue'[i] = queue[i]
        /\ queue'[Len(queue) + 1] = Len(topicOf) + 1
        /\ \A e \in Published : topicOf'[e] = topicOf[e]
    BY <1>1, <2>1 DEF Published
  <2>3. TakenSoFar' = TakenSoFar
    BY <1>1, <2>2 DEF TakenSoFar
  <2>4. \A i \in 1 .. Len(queue') : queue'[i] = TakenSoFar + i
    BY <1>1, <2>2 DEF InOrder, TakenSoFar
  <2>5. \A w \in Tasks, h \in Handlers :
            jobs[w][h] = "scheduled" => h \in subscribed[topicOf'[event[w]]]
    BY <2>2 DEF IInv, EventsApart, InOrder
  <2> QED BY <2>1, <2>3, <2>4, <2>5 DEF InOrder
<1>3. ASSUME NEW w \in Tasks, Get(w) PROVE InOrder'
  <2>1. /\ queue # <<>> /\ queue' = Tail(queue) /\ place[w] = "getting" /\ w \notin cancelled
        /\ UNCHANGED <<topicOf, cancelled, subscribed>>
    BY <1>3 DEF Get
  <2>2. /\ Len(queue') = Len(queue) - 1 /\ Len(queue) >= 1
        /\ \A i \in 1 .. Len(queue) - 1 : queue'[i] = queue[i + 1]
        /\ Head(queue) = TakenSoFar + 1
    BY <1>1, <2>1 DEF InOrder
  <2>3. TakenSoFar' = TakenSoFar + 1
    BY <1>1, <2>1, <2>2 DEF TakenSoFar
  <2>4. \A i \in 1 .. Len(queue') : queue'[i] = TakenSoFar' + i
    <3>1. ASSUME NEW i \in 1 .. Len(queue') PROVE queue'[i] = TakenSoFar' + i
      <4>1. i + 1 \in 1 .. Len(queue) /\ queue'[i] = queue[i + 1]
        BY <1>1, <2>2
      <4>2. queue'[i] = TakenSoFar + (i + 1)
        BY <4>1 DEF InOrder
      <4>3. TakenSoFar \in Int /\ i \in Int
        BY <1>1 DEF TakenSoFar
      <4>4. TakenSoFar + (i + 1) = (TakenSoFar + 1) + i
        BY <4>3
      <4> QED BY <2>3, <4>2, <4>4
    <3> QED BY <3>1
  <2>5. ASSUME NEW v \in Tasks \ cancelled, event[v] # NoEvent PROVE FALSE
    <3>1. Live(w) /\ Live(v) /\ v # w
      BY <2>1, <2>5 DEF IInv, TasksInOrder, Live
    <3>2. w = task /\ v = task
      BY <2>1, <2>5, <3>1 DEF IInv, OneWorker
    <3> QED BY <3>1, <3>2
  <2> DEFINE called == subscribed[topicOf[Head(queue)]]
             calls == [h \in Handlers |-> IF h \in called THEN "scheduled" ELSE "none"]
  <2>6. CASE called = {}
    <3>1. UNCHANGED <<event, jobs>>
      BY <1>3, <2>6 DEF Get
    <3> QED BY <2>1, <2>3, <2>4, <2>5, <3>1, <1>1 DEF InOrder, TakenSoFar
  <2>7. CASE called # {}
    <3>1. event' = [event EXCEPT ![w] = Head(queue)] /\ jobs' = [jobs EXCEPT ![w] = calls]
      BY <1>3, <2>7 DEF Get
    <3>2. /\ event'[w] = TakenSoFar' /\ jobs'[w] = calls
          /\ \A v \in Tasks \ {w} : event'[v] = event[v] /\ jobs'[v] = jobs[v]
      <4> HIDE DEF calls
      <4> QED BY <1>1, <2>2, <2>3, <3>1
    <3>3. \A h \in Handlers : calls[h] = "scheduled" => h \in subscribed[topicOf[event'[w]]]
      BY <2>2, <2>3, <3>2
    <3>4. \A v \in Tasks \ cancelled : event'[v] # NoEvent => event'[v] = TakenSoFar'
      BY <2>5, <3>2
    <3> HIDE DEF calls, called
    <3>5. \A v \in Tasks, h \in Handlers :
            jobs'[v][h] = "scheduled" => h \in subscribed[topicOf[event'[v]]]
      BY <3>2, <3>3 DEF InOrder
    <3>6. TakenSoFar' >= 0
      BY <1>1, <2>3 DEF InOrder, TakenSoFar
    <3> QED BY <2>1, <2>4, <3>4, <3>5, <3>6 DEF InOrder
  <2> QED BY <2>6, <2>7
<1>4. ASSUME NEW w \in Tasks, Gathered(w) PROVE InOrder'
  <2>1. /\ event' = [event EXCEPT ![w] = NoEvent] /\ jobs[w] = NoJobs
        /\ UNCHANGED <<queue, topicOf, cancelled, jobs, subscribed>>
    BY <1>4 DEF Gathered
  <2>2. \A v \in Tasks : event'[v] = event[v] \/ event'[v] = NoEvent
    BY <1>1, <2>1
  <2>3. \A v \in Tasks, h \in Handlers : jobs[v][h] = "scheduled" => event'[v] = event[v]
    BY <1>1, <2>1 DEF NoJobs
  <2> QED BY <2>1, <2>2, <2>3, OrderStays
<1>5. ASSUME NEW w \in Tasks, NEW h \in Handlers, CallHandler(w, h) \/ HandlerEnds(w, h)
      PROVE  InOrder'
  <2>1. \A v \in Tasks, g \in Handlers : jobs'[v][g] = "scheduled" => jobs[v][g] = "scheduled"
    BY <1>1, <1>5 DEF CallHandler, HandlerEnds
  <2>2. UNCHANGED <<queue, topicOf, cancelled, event, subscribed>>
    BY <1>5 DEF CallHandler, HandlerEnds
  <2> QED BY <2>1, <2>2, OrderStays
<1>6. ASSUME NEW t \in Topics, NEW h \in Handlers, Subscribe(t, h) PROVE InOrder'
  <2>1. \A u \in Topics : subscribed[u] \subseteq subscribed'[u]
    BY <1>1, <1>6 DEF Subscribe
  <2>2. \A v \in Tasks, g \in Handlers : jobs[v][g] = "scheduled" => topicOf[event[v]] \in Topics
    <3>1. \A v \in Tasks, g \in Handlers :
            jobs[v][g] = "scheduled" => event[v] \in Published
      BY DEF IInv, EventsApart
    <3>2. \A e \in Published : topicOf[e] \in Topics
      BY <1>1 DEF Published
    <3> QED BY <3>1, <3>2
  <2>3. UNCHANGED <<queue, topicOf, cancelled, event, jobs>>
    BY <1>6 DEF Subscribe
  <2> QED BY <2>1, <2>2, <2>3, OrderStays
<1>7. CASE UNCHANGED <<queue, topicOf, event, jobs, subscribed>> /\ cancelled \subseteq cancelled'
  BY <1>7, OrderStays
<1>8. CASE Start \/ Stop \/ StopReturns
  BY <1>7, <1>8 DEF Start, Stop, StopReturns
<1>9. ASSUME NEW w \in Tasks, Begin(w) \/ GetCancelled(w) PROVE InOrder'
  BY <1>7, <1>9 DEF Begin, GetCancelled
<1>10. CASE UNCHANGED busVars
  BY <1>7, <1>10 DEF busVars
<1> QED
  BY <1>2, <1>3, <1>4, <1>5, <1>6, <1>8, <1>9, <1>10, StepCases

\* Calling a handler is what the port calls a delivery: the event is the last
\* one taken, so whatever came after it still waits.
LEMMA CallIsDelivery ==
    ASSUME IInv, InOrder, NEW w \in Tasks, NEW h \in Handlers, CallHandler(w, h)
    PROVE  (Port!Deliver(event[w], h) /\ event[w] \in Events) \/ UNCHANGED Port!interface
<1>1. UNCHANGED <<topicOf, subscribed>> /\ jobs[w][h] = "scheduled"
  BY DEF CallHandler
<1>2. CASE w \in cancelled
  BY <1>1, <1>2 DEF CallHandler, Port!interface
<1>3. CASE w \notin cancelled
  <2>1. /\ event[w] # NoEvent /\ started[<<event[w], h>>] = 0
        /\ event[w] \in Published \ ToSet(queue) /\ event[w] \in Events
    BY <1>1 DEF IInv, EventsApart, BusTypeOK
  <2>2. event[w] = TakenSoFar /\ h \in subscribed[topicOf[event[w]]]
    BY <1>1, <1>3, <2>1 DEF InOrder
  <2>3. ASSUME NEW later \in event[w] .. Len(topicOf) PROVE started[<<later, h>>] = 0
    <3>1. CASE later = event[w]
      BY <2>1, <3>1
    <3>2. CASE later # event[w]
      <4>1. Len(queue) \in Nat /\ Len(topicOf) \in Nat /\ Len(topicOf) <= MaxEvents
            /\ DOMAIN queue = 1 .. Len(queue)
        BY DEF IInv, BusTypeOK
      <4>2. later - TakenSoFar \in 1 .. Len(queue) /\ later \in Events
        BY <2>1, <2>2, <3>2, <4>1, BusAssumption DEF TakenSoFar, Events
      <4>3. queue[later - TakenSoFar] = TakenSoFar + (later - TakenSoFar)
        BY <4>2 DEF InOrder
      <4>4. TakenSoFar + (later - TakenSoFar) = later
        BY <2>2, <4>1 DEF TakenSoFar
      <4>5. later \in ToSet(queue)
        BY <4>1, <4>2, <4>3, <4>4 DEF ToSet
      <4> QED BY <4>2, <4>5 DEF IInv, EventsApart
    <3> QED BY <3>1, <3>2
  <2>4. started' = [started EXCEPT ![<<event[w], h>>] = @ + 1]
    BY <1>3 DEF CallHandler
  <2>5. event[w] \in DOMAIN topicOf
    BY <2>1 DEF Published, IInv, BusTypeOK
  <2> QED BY <1>1, <2>1, <2>2, <2>3, <2>4, <2>5 DEF Port!Deliver
<1> QED BY <1>2, <1>3

LEMMA StepImplementsPort ==
    IInv /\ InOrder /\ [BusNext]_busVars => [Port!Next]_(Port!interface)
<1> SUFFICES ASSUME IInv, InOrder, [BusNext]_busVars
             PROVE  Port!Next \/ UNCHANGED Port!interface
  OBVIOUS
<1>1. ASSUME NEW t \in Topics, Publish(t) PROVE Port!Next
  BY <1>1 DEF Publish, Port!Publish, Port!Next
<1>2. ASSUME NEW t \in Topics, NEW h \in Handlers, Subscribe(t, h) PROVE Port!Next
  BY <1>2 DEF Subscribe, Port!Subscribe, Port!Next
<1>3. CASE Start \/ Stop \/ StopReturns
  BY <1>3 DEF Start, Stop, StopReturns, Port!interface
<1>4. ASSUME NEW w \in Tasks, Begin(w) \/ Get(w) \/ GetCancelled(w) \/ Gathered(w)
      PROVE  UNCHANGED Port!interface
  BY <1>4 DEF Begin, Get, GetCancelled, Gathered, Port!interface
<1>5. ASSUME NEW w \in Tasks, NEW h \in Handlers, CallHandler(w, h)
      PROVE  Port!Next \/ UNCHANGED Port!interface
  BY <1>5, CallIsDelivery DEF Port!Next, Events
<1>6. ASSUME NEW w \in Tasks, NEW h \in Handlers, HandlerEnds(w, h)
      PROVE  UNCHANGED Port!interface
  BY <1>6 DEF HandlerEnds, Port!interface
<1>7. CASE UNCHANGED busVars
  BY <1>7 DEF busVars, Port!interface
<1> QED BY <1>1, <1>2, <1>3, <1>4, <1>5, <1>6, <1>7, StepCases

\* The bus implements its port: it delivers published events only, to their
\* subscribers, at most once each and in the order of publication.
THEOREM PortIsImplemented == BusSpec => ImplementsPort
<1>1. BusInit => InOrder /\ Port!Init
  BY DEF BusInit, InOrder, TakenSoFar, NoJobs, Port!Init, Events
<1>2. IInv /\ InOrder /\ [BusNext]_busVars => InOrder'
  BY StepInOrder
<1>3. BusSpec => [](IInv /\ InOrder)
  BY <1>1, <1>2, Invariant, PTL DEF BusSpec
<1> QED BY <1>1, <1>3, StepImplementsPort, PTL DEF BusSpec, ImplementsPort, Port!Spec

-----------------------------------------------------------------------------
(* No event vanishes *)

\* The tasks that have ended by a cancellation; each has cost one event at most.
CutOff == {w \in cancelled : place[w] = "done"}

\* An event is in one place at a time: the four places make up what was
\* published, and their sizes add up.
EventsCounted ==
    /\ Published = ToSet(queue) \cup Dispatched \cup handled \cup interrupted
    /\ Len(queue) + Cardinality(Dispatched) + Cardinality(handled)
            + Cardinality(interrupted) = Len(topicOf)
    /\ (ToSet(queue) \cup Dispatched) \cap (handled \cup interrupted) = {}
    /\ Cardinality(interrupted) <= Cardinality(CutOff)

LEMMA PlacesAreFinite ==
    ASSUME BusTypeOK
    PROVE  /\ IsFiniteSet(Dispatched) /\ IsFiniteSet(handled) /\ IsFiniteSet(interrupted)
           /\ IsFiniteSet(CutOff) /\ IsFiniteSet(cancelled)
<1>1. IsFiniteSet(Events) /\ IsFiniteSet(Tasks)
  BY BusAssumption, FS_Interval DEF Events, Tasks
<1>2. Dispatched \in SUBSET Events /\ handled \in SUBSET Events /\ interrupted \in SUBSET Events
  BY DEF BusTypeOK, Dispatched
<1>3. CutOff \in SUBSET Tasks /\ cancelled \in SUBSET Tasks
  BY DEF BusTypeOK, CutOff
<1> QED BY <1>1, <1>2, <1>3, FS_Subset

\* A step in which no event moves.
LEMMA CountStays ==
    ASSUME BusTypeOK, BusTypeOK', EventsCounted,
           UNCHANGED <<queue, event, handled, interrupted, topicOf>>, CutOff \subseteq CutOff'
    PROVE  EventsCounted'
<1>1. Dispatched' = Dispatched /\ Published' = Published
  BY DEF Dispatched, Published
<1>2. IsFiniteSet(CutOff') /\ IsFiniteSet(CutOff) /\ IsFiniteSet(interrupted)
  <2>1. IsFiniteSet(CutOff) /\ IsFiniteSet(interrupted)
    BY PlacesAreFinite
  <2>2. CutOff' \in SUBSET Tasks
    BY DEF BusTypeOK, CutOff
  <2>3. IsFiniteSet(Tasks)
    BY BusAssumption, FS_Interval DEF Tasks
  <2> QED BY <2>1, <2>2, <2>3, FS_Subset
<1>3. Cardinality(CutOff) <= Cardinality(CutOff')
  BY <1>2, FS_Subset
<1>4. /\ Cardinality(interrupted) \in Nat /\ Cardinality(CutOff) \in Nat
      /\ Cardinality(CutOff') \in Nat
  BY <1>2, FS_CardinalityType
<1>5. Cardinality(interrupted) <= Cardinality(CutOff')
  BY <1>3, <1>4 DEF EventsCounted
<1> QED BY <1>1, <1>5 DEF EventsCounted

LEMMA StepCounts == IInv /\ EventsCounted /\ [BusNext]_busVars => EventsCounted'
<1> SUFFICES ASSUME IInv, EventsCounted, [BusNext]_busVars PROVE EventsCounted'
  OBVIOUS
<1>1. BusTypeOK /\ BusTypeOK'
  BY StepTypes DEF IInv
<1>2. /\ queue \in Seq(Events) /\ event \in [Tasks -> Events \cup {NoEvent}]
      /\ topicOf \in Seq(Topics) /\ place \in [Tasks -> Places] /\ cancelled \subseteq Tasks
  BY <1>1 DEF BusTypeOK
<1>3. /\ IsFiniteSet(Dispatched) /\ IsFiniteSet(handled) /\ IsFiniteSet(interrupted)
      /\ IsFiniteSet(CutOff)
  BY <1>1, PlacesAreFinite
<1>4. /\ Cardinality(Dispatched) \in Nat /\ Cardinality(handled) \in Nat
      /\ Cardinality(interrupted) \in Nat /\ Cardinality(CutOff) \in Nat
      /\ Len(queue) \in Nat /\ Len(topicOf) \in Nat
  BY <1>2, <1>3, FS_CardinalityType
<1>5. ASSUME UNCHANGED <<queue, event, handled, interrupted, topicOf>>,
             \A w \in cancelled : place[w] = "done" => w \in cancelled' /\ place'[w] = "done"
      PROVE  EventsCounted'
  <2>1. CutOff \subseteq CutOff'
    BY <1>5 DEF CutOff
  <2> QED BY <1>1, <1>5, <2>1, CountStays
<1>6. ASSUME NEW t \in Topics, Publish(t) PROVE EventsCounted'
  <2> DEFINE new == Len(topicOf) + 1
  <2>1. /\ new \in Events /\ new \notin Published /\ Published' = Published \cup {new}
        /\ Len(topicOf') = Len(topicOf) + 1
    <3>1. Len(topicOf') = Len(topicOf) + 1 /\ Len(topicOf) < MaxEvents
      BY <1>2, <1>6 DEF Publish
    <3> QED BY <1>4, <3>1, BusAssumption DEF Events, Published
  <2>2. queue' = Append(queue, new) /\ UNCHANGED <<event, handled, interrupted, cancelled, place>>
    BY <1>6 DEF Publish
  <2> HIDE DEF new
  <2>3. ToSet(queue') = ToSet(queue) \cup {new} /\ Len(queue') = Len(queue) + 1
    BY <1>2, <2>1, <2>2, AppendSet
  <2>4. Dispatched' = Dispatched /\ CutOff' = CutOff
    BY <2>2 DEF Dispatched, CutOff
  <2> QED BY <1>4, <2>1, <2>2, <2>3, <2>4 DEF EventsCounted
<1>7. ASSUME NEW w \in Tasks, Get(w) PROVE EventsCounted'
  <2> DEFINE e == Head(queue)
  <2>1. /\ place[w] = "getting" /\ w \notin cancelled /\ queue # <<>> /\ queue' = Tail(queue)
        /\ UNCHANGED <<topicOf, cancelled, interrupted>>
    BY <1>7 DEF Get
  <2>2. /\ e \in Events /\ ToSet(queue) = ToSet(queue') \cup {e} /\ e \notin ToSet(queue')
        /\ Len(queue') = Len(queue) - 1
    <3>1. IsInjective(queue)
      BY DEF IInv, EventsApart
    <3> QED BY <1>2, <2>1, <3>1, HeadSet, TailForgets
  <2>3. event[w] = NoEvent /\ e # NoEvent
    BY <2>1, <2>2 DEF IInv, TasksInOrder, Events, NoEvent
  <2>4. e \notin Dispatched
    BY <2>2 DEF IInv, EventsApart, Dispatched
  <2>5. e \notin handled /\ e \notin interrupted /\ e \in Published
    BY <2>2 DEF EventsCounted
  <2>6. Published' = Published /\ CutOff' = CutOff
    <3>1. \A v \in Tasks \ {w} : place'[v] = place[v]
      BY <1>2, <1>7 DEF Get, NextRound, Move
    <3> QED BY <1>2, <2>1, <3>1 DEF Published, CutOff
  <2>7. \/ event' = event /\ handled' = handled \cup {e}
        \/ event' = [event EXCEPT ![w] = e] /\ handled' = handled
    BY <1>7 DEF Get
  <2> HIDE DEF e
  <2>8. CASE event' = event /\ handled' = handled \cup {e}
    <3>1. Cardinality(handled') = Cardinality(handled) + 1
      BY <1>3, <2>5, <2>8, FS_AddElement
    <3>2. Dispatched' = Dispatched
      BY <2>8 DEF Dispatched
    <3> QED BY <1>4, <2>1, <2>2, <2>4, <2>6, <2>8, <3>1, <3>2 DEF EventsCounted
  <2>9. CASE event' = [event EXCEPT ![w] = e] /\ handled' = handled
    <3>1. Dispatched' = Dispatched \cup {e}
      BY <1>2, <2>3, <2>9 DEF Dispatched
    <3>2. Cardinality(Dispatched') = Cardinality(Dispatched) + 1
      BY <1>3, <2>4, <3>1, FS_AddElement
    <3>3. Published' = ToSet(queue') \cup Dispatched' \cup handled' \cup interrupted'
      BY <2>1, <2>2, <2>6, <2>9, <3>1 DEF EventsCounted
    <3>4. (ToSet(queue') \cup Dispatched') \cap (handled' \cup interrupted') = {}
      BY <2>1, <2>2, <2>5, <2>9, <3>1 DEF EventsCounted
    <3>5. Len(queue') + Cardinality(Dispatched') + Cardinality(handled')
            + Cardinality(interrupted') = Len(topicOf')
      BY <1>4, <2>1, <2>2, <2>9, <3>2 DEF EventsCounted
    <3> QED BY <2>1, <2>6, <3>3, <3>4, <3>5 DEF EventsCounted
  <2> QED BY <2>7, <2>8, <2>9
<1>8. ASSUME NEW w \in Tasks, Gathered(w) PROVE EventsCounted'
  <2> DEFINE e == event[w]
  <2>1. /\ place[w] = "dispatching" /\ event' = [event EXCEPT ![w] = NoEvent]
        /\ UNCHANGED <<queue, topicOf, cancelled>>
    BY <1>8 DEF Gathered
  <2>2. e # NoEvent /\ e \in Events /\ e \in Dispatched
    BY <1>2, <2>1 DEF IInv, TasksInOrder, Dispatched
  <2>3. \A v \in Tasks \ {w} : event[v] # e
    BY <2>2 DEF IInv, EventsApart
  <2>4. e \notin handled /\ e \notin interrupted /\ e \notin ToSet(queue)
    BY <2>2 DEF EventsCounted, IInv, EventsApart
  <2>5. Dispatched' = Dispatched \ {e}
    BY <1>2, <2>1, <2>2, <2>3 DEF Dispatched
  <2>6. Cardinality(Dispatched') = Cardinality(Dispatched) - 1
    BY <1>3, <2>2, <2>5, FS_RemoveElement
  <2>7. Published' = Published
    BY <2>1 DEF Published
  <2>8. \A v \in Tasks \ {w} : place'[v] = place[v]
    BY <1>2, <1>8 DEF Gathered, NextRound, Move
  <2>9. CASE w \in cancelled
    <3>1. interrupted' = interrupted \cup {e} /\ handled' = handled /\ place'[w] = "done"
      BY <1>2, <1>8, <2>9 DEF Gathered, Move
    <3>2. CutOff' = CutOff \cup {w} /\ w \notin CutOff
      BY <1>2, <2>1, <2>8, <2>9, <3>1 DEF CutOff
    <3> HIDE DEF e
    <3>3. /\ Cardinality(interrupted') = Cardinality(interrupted) + 1
          /\ Cardinality(CutOff') = Cardinality(CutOff) + 1
      BY <1>3, <2>4, <3>1, <3>2, FS_AddElement
    <3> QED BY <1>4, <2>1, <2>2, <2>4, <2>5, <2>6, <2>7, <3>1, <3>3 DEF EventsCounted
  <2>10. CASE w \notin cancelled
    <3>1. handled' = handled \cup {e} /\ interrupted' = interrupted
      BY <1>8, <2>10 DEF Gathered
    <3>2. CutOff' = CutOff
      BY <1>2, <2>1, <2>8, <2>10 DEF CutOff
    <3> HIDE DEF e
    <3>3. Cardinality(handled') = Cardinality(handled) + 1
      BY <1>3, <2>4, <3>1, FS_AddElement
    <3> QED BY <1>4, <2>1, <2>2, <2>4, <2>5, <2>6, <2>7, <3>1, <3>2, <3>3 DEF EventsCounted
  <2> QED BY <2>9, <2>10
<1>9. CASE Start
  <2>1. created + 1 \in Tasks /\ place[created + 1] = "uncreated"
    BY <1>1, <1>9, BusAssumption DEF Start, Tasks, BusTypeOK, IInv, TasksInOrder
  <2>2. UNCHANGED <<queue, event, handled, interrupted, topicOf, cancelled>>
        /\ place' = [place EXCEPT ![created + 1] = "ready"]
    BY <1>9 DEF Start, Move
  <2> QED BY <1>2, <1>5, <2>1, <2>2
<1>10. CASE Stop \/ StopReturns
  BY <1>5, <1>10 DEF Stop, StopReturns
<1>11. ASSUME NEW t \in Topics, NEW h \in Handlers, Subscribe(t, h) PROVE EventsCounted'
  BY <1>5, <1>11 DEF Subscribe
<1>12. ASSUME NEW w \in Tasks, Begin(w) \/ GetCancelled(w) PROVE EventsCounted'
  <2>1. place[w] # "done" /\ UNCHANGED <<queue, event, handled, interrupted, topicOf, cancelled>>
    BY <1>12 DEF Begin, GetCancelled
  <2>2. \A v \in Tasks \ {w} : place'[v] = place[v]
    BY <1>2, <1>12 DEF Begin, GetCancelled, NextRound, Move
  <2> QED BY <1>2, <1>5, <2>1, <2>2
<1>13. ASSUME NEW w \in Tasks, NEW h \in Handlers, CallHandler(w, h) \/ HandlerEnds(w, h)
       PROVE  EventsCounted'
  BY <1>5, <1>13 DEF CallHandler, HandlerEnds
<1>14. CASE UNCHANGED busVars
  BY <1>5, <1>14 DEF busVars
<1> QED
  BY <1>6, <1>7, <1>8, <1>9, <1>10, <1>11, <1>12, <1>13, <1>14, StepCases

\* Every event that was published waits, is dispatched, is done or was cut off by a
\* stop(), in one of these places only; and a stop() costs one event at most.
THEOREM NothingVanishes == BusSpec => []NoEventVanishes
<1>1. BusInit => EventsCounted
  <2> SUFFICES ASSUME BusInit PROVE EventsCounted
    OBVIOUS
  <2>1. queue = <<>> /\ topicOf = <<>> /\ handled = {} /\ interrupted = {} /\ cancelled = {}
    BY DEF BusInit
  <2>2. Dispatched = {} /\ CutOff = {} /\ Published = {}
    BY <2>1 DEF BusInit, Dispatched, CutOff, Published
  <2>3. Cardinality({}) = 0 /\ Len(queue) = 0 /\ Len(topicOf) = 0
    BY <2>1, FS_EmptySet
  <2> QED BY <2>1, <2>2, <2>3, EmptySet DEF EventsCounted
<1>2. BusSpec => []EventsCounted
  BY <1>1, Invariant, StepCounts, PTL DEF BusSpec
<1>3. IInv /\ EventsCounted => NoEventVanishes
  <2> SUFFICES ASSUME IInv, EventsCounted PROVE Cardinality(interrupted) <= Cardinality(cancelled)
    BY DEF EventsCounted, NoEventVanishes
  <2>1. /\ IsFiniteSet(CutOff) /\ IsFiniteSet(cancelled) /\ IsFiniteSet(interrupted)
    BY PlacesAreFinite DEF IInv
  <2>2. Cardinality(CutOff) <= Cardinality(cancelled)
    BY <2>1, FS_Subset DEF CutOff
  <2> QED BY <2>1, <2>2, FS_CardinalityType DEF EventsCounted
<1> QED BY <1>2, <1>3, Invariant, PTL

-----------------------------------------------------------------------------
(* The process around the bus *)

\* Nobody has heard of this user's creation.
Fresh(u) == welcomes[u] = <<>> /\ u \notin skipped

\* The bus of a process that serves has the registered handlers, and one worker
\* task in its life; every event is about a user.
ProcessInOrder ==
    /\ main \in {"down", "loading", "waiting", "stopping", "leaving"}
    /\ requests \in [Users -> Signup!Places]
    /\ welcomes \in [Users -> Seq({Self})]
    /\ Serving => subscribed = registered
    /\ created = IF Serving THEN 1 ELSE 0
    /\ payload \in Seq(Users) /\ Len(payload) = Len(topicOf)
    /\ \A e \in Published : topicOf[e] = UserCreated

\* A user has one event at most, after its request; and while it waits, nobody
\* has heard of it.
OneEventEach ==
    /\ \A d, e \in Published : payload[d] = payload[e] => d = e
    /\ \A u \in Users : requests[u] # "answered" =>
            Fresh(u) /\ \A e \in Published : payload[e] # u
    /\ \A e \in ToSet(queue) : Fresh(payload[e])

\* Its handler runs on behalf of user u.
Telling(w, u) == jobs[w][on_user_created] # "none" /\ payload[event[w]] = u

\* A handler that is to welcome a user has not done it yet.  An event that has been
\* taken is told unless the task that took it tells it now or has been cancelled.
OneInHand ==
    /\ \A w \in Tasks, u \in Users : Telling(w, u) => Fresh(u)
    /\ \A u \in Untold : \E w \in Tasks :
            place[w] # "uncreated" /\ (w \in cancelled \/ Telling(w, u))
    /\ \A u, v \in Untold : u = v

PInv == IInv /\ ProcessInOrder /\ OneEventEach /\ OneInHand

LEMMA InitPInv == Init => PInv
<1> SUFFICES ASSUME Init PROVE PInv
  OBVIOUS
<1>1. IInv
  BY InitIInv DEF Init
<1>2. Published = {} /\ queue = <<>> /\ ToSet(<<>>) = {} /\ Taken = {} /\ Untold = {}
  BY EmptySet DEF Init, BusInit, Published, Taken, Untold
<1>3. <<>> \in Seq(Users) /\ <<>> \in Seq({Self}) /\ Len(<<>>) = 0
  OBVIOUS
<1>4. ProcessInOrder
  BY <1>2, <1>3 DEF Init, BusInit, ProcessInOrder, Serving, Signup!Places
<1>5. OneEventEach
  BY <1>2 DEF Init, OneEventEach, Fresh
<1>6. OneInHand
  <2>1. on_user_created \in Handlers
    BY WorkerAssumption
  <2> QED BY <1>2, <2>1 DEF Init, BusInit, OneInHand, Telling, NoJobs
<1> QED BY <1>1, <1>4, <1>5, <1>6 DEF PInv

\* To the bus a step of the process is one of its own, or its end.
LEMMA BusSteps ==
    ASSUME Next
    PROVE  [BusNext]_busVars \/ ForgetBus
<1>1. ASSUME NEW t \in Topics, NEW h \in Handlers, Register(t, h) PROVE BusNext
  BY <1>1 DEF Register, BusNext
<1>2. CASE Listen \/ MainWakes \/ MainReturns
  BY <1>2 DEF Listen, MainWakes, MainReturns, BusNext
<1>3. CASE Exit \/ Crash
  BY <1>3 DEF Exit, Crash, Gone
<1>4. CASE Boot \/ Signal
  BY <1>4 DEF Boot, Signal
<1>5. ASSUME NEW k \in scheduled, TickBegins(k) \/ TickEnds(k) \/ TickCancelled(k)
      PROVE  UNCHANGED busVars
  BY <1>5 DEF TickBegins, TickEnds, TickCancelled, Tick
<1>6. ASSUME NEW u \in Users, Request(u) PROVE UNCHANGED busVars
  BY <1>6 DEF Request, process
<1>7. ASSUME NEW u \in Users, Announce(u) PROVE BusNext
  BY <1>7, WorkerAssumption DEF Announce, BusNext
<1>8. ASSUME NEW w \in Tasks, Dispatch(w) PROVE BusNext
  BY <1>8 DEF Dispatch, BusNext
<1>9. ASSUME NEW w \in Tasks, NEW h \in Handlers, Call(w, h) \/ HandlerReturns(w, h)
      PROVE  BusNext
  BY <1>9 DEF Call, HandlerReturns, BusNext, Handle
<1> QED
  BY <1>1, <1>2, <1>3, <1>4, <1>5, <1>6, <1>7, <1>8, <1>9 DEF Next

LEMMA BusForgotten == ForgetBus => BusInit'
BY DEF ForgetBus, BusInit

LEMMA ProcessKeepsBus ==
    ASSUME IInv, Next
    PROVE  IInv'
<1>1. BusInit' => IInv'
  BY InitIInv, PTL
<1>2. [BusNext]_busVars => IInv'
  BY StepTypes, StepTasks, StepOneWorker, StepEventsApart DEF IInv
<1> QED BY <1>1, <1>2, BusSteps, BusForgotten

\* A request moves on; nothing else of the process does.
LEMMA RequestMoves ==
    ASSUME NEW u \in Users, Request(u)
    PROVE  /\ \E to \in Signup!Places : requests' = [requests EXCEPT ![u] = to]
           /\ requests[u] # "answered"
           /\ UNCHANGED <<main, payload, busVars, welcomes, skipped>>
<1>1. UNCHANGED <<main, payload, busVars, welcomes, skipped>>
  BY DEF Request, process
<1>2. PICK from \in Signup!Places \ {"answered"}, to \in Signup!Places : Signup!Move(u, from, to)
  <2>1. CASE Signup!SignUp(u, Self)
    <3>1. Signup!Move(u, "none", "adding")
      BY <2>1, Zenon DEF Signup!SignUp
    <3> QED BY <3>1 DEF Signup!Places
  <2>2. CASE Signup!Add(u)
    <3>1. Signup!Move(u, "adding", "committing")
      BY <2>2, Zenon DEF Signup!Add
    <3> QED BY <3>1 DEF Signup!Places
  <2>3. CASE Signup!Commit(u)
    <3>1. Signup!Move(u, "committing", "publishing")
      BY <2>3, Zenon DEF Signup!Commit
    <3> QED BY <3>1 DEF Signup!Places
  <2>4. CASE Signup!Fails(u)
    <3>1. \E from \in {"adding", "committing", "publishing", "reading"} :
            Signup!Move(u, from, "answered")
      BY <2>4 DEF Signup!Fails
    <3> QED BY <3>1 DEF Signup!Places
  <2> QED BY <2>1, <2>2, <2>3, <2>4 DEF Request
<1>3. requests[u] # "answered" /\ requests' = [requests EXCEPT ![u] = to]
  BY <1>2 DEF Signup!Move
<1> QED BY <1>1, <1>3

\* What the steps of a process do to its bus and to what is known of users.
LEMMA ProcessCases ==
    ASSUME Next
    PROVE  \/ \E u \in Users : Request(u) \/ Announce(u)
           \/ \E w \in Tasks : Get(w) /\ UNCHANGED <<main, payload, service>>
           \/ \E w \in Tasks, h \in Handlers : Call(w, h) \/ HandlerReturns(w, h)
           \/ main # "down" /\ Gone
           \/ /\ UNCHANGED <<payload, topicOf, queue, service>>
              /\ \/ Boot \/ Listen \/ Signal \/ MainWakes \/ MainReturns
                 \/ \E t \in Topics, h \in Handlers : Register(t, h)
                 \/ UNCHANGED <<main, busVars>>
                 \/ /\ UNCHANGED main
                    /\ \E w \in Tasks : Begin(w) \/ GetCancelled(w) \/ Gathered(w)
<1>1. ASSUME NEW t \in Topics, NEW h \in Handlers, Register(t, h)
      PROVE  UNCHANGED <<payload, topicOf, queue, service>>
  BY <1>1 DEF Register, Subscribe
<1>2. CASE Listen \/ MainWakes \/ MainReturns
  BY <1>2 DEF Listen, MainWakes, MainReturns, Start, Stop, StopReturns
<1>3. CASE Exit \/ Crash
  BY <1>3 DEF Exit, Crash
<1>4. CASE Boot \/ Signal
  BY <1>4 DEF Boot, Signal, busVars
<1>5. ASSUME NEW k \in scheduled, TickBegins(k) \/ TickEnds(k) \/ TickCancelled(k)
      PROVE  UNCHANGED <<main, payload, busVars, service>>
  BY <1>5 DEF TickBegins, TickEnds, TickCancelled, Tick
<1>6. ASSUME NEW w \in Tasks, Dispatch(w)
      PROVE  \/ Get(w) /\ UNCHANGED <<main, payload, service>>
             \/ /\ UNCHANGED <<main, payload, topicOf, queue, service>>
                /\ Begin(w) \/ GetCancelled(w) \/ Gathered(w)
  BY <1>6 DEF Dispatch, Loop, Begin, GetCancelled, Gathered
<1> QED
  BY <1>1, <1>2, <1>3, <1>4, <1>5, <1>6 DEF Next, busVars

LEMMA StepProcessInOrder ==
    ASSUME PInv, IInv', Next
    PROVE  ProcessInOrder'
<1> USE DEF PInv, ProcessInOrder, Signup!Places
<1>1. ASSUME NEW u \in Users, Request(u) PROVE ProcessInOrder'
  <2>1. requests' \in [Users -> Signup!Places]
    BY <1>1, RequestMoves
  <2>2. UNCHANGED <<main, payload, busVars, welcomes>>
    BY <1>1, RequestMoves
  <2> QED BY <2>1, <2>2 DEF busVars, Published, Serving
<1>2. ASSUME NEW u \in Users, Announce(u) PROVE ProcessInOrder'
  <2>1. /\ payload' = Append(payload, u) /\ topicOf' = Append(topicOf, UserCreated)
        /\ requests' \in [Users -> Signup!Places]
        /\ UNCHANGED <<main, subscribed, created, welcomes>>
    BY <1>2 DEF Announce, Publish
  <2>2. topicOf \in Seq(Topics)
    BY DEF IInv, BusTypeOK
  <2>3. payload' \in Seq(Users) /\ Len(payload') = Len(topicOf')
    BY <2>1, <2>2, WorkerAssumption
  <2>4. \A e \in Published' : topicOf'[e] = UserCreated
    BY <2>1, <2>2, WorkerAssumption DEF Published
  <2> QED BY <2>1, <2>3, <2>4 DEF Serving
<1>3. ASSUME NEW w \in Tasks, Get(w), UNCHANGED <<main, payload, service>> PROVE ProcessInOrder'
  BY <1>3 DEF Get, service, Serving, Published
<1>4. ASSUME NEW w \in Tasks, NEW h \in Handlers, Call(w, h) PROVE ProcessInOrder'
  BY <1>4 DEF Call, CallHandler, service, Serving, Published
<1>5. ASSUME NEW w \in Tasks, NEW h \in Handlers, HandlerReturns(w, h) PROVE ProcessInOrder'
  <2>1. UNCHANGED <<main, payload, topicOf, subscribed, created, requests>>
    BY <1>5 DEF HandlerReturns, HandlerEnds
  <2>2. welcomes' = welcomes \/ \E u : welcomes' = [welcomes EXCEPT ![u] = Append(@, Self)]
    BY <1>5 DEF HandlerReturns, Welcomed
  <2>3. \A s \in Seq({Self}) : Append(s, Self) \in Seq({Self})
    OBVIOUS
  <2>4. welcomes' \in [Users -> Seq({Self})]
    BY <2>2, <2>3
  <2> QED BY <2>1, <2>4 DEF Serving, Published
<1>6. CASE Gone
  <2>1. /\ main' = "down" /\ created' = 0 /\ payload' = <<>> /\ topicOf' = <<>>
        /\ welcomes' = welcomes /\ requests' \in [Users -> Signup!Places]
    BY <1>6 DEF Gone, ForgetBus
  <2>2. payload' \in Seq(Users) /\ Len(payload') = Len(topicOf') /\ Published' = {}
    BY <2>1 DEF Published
  <2> QED BY <2>1, <2>2 DEF Serving
<1>7. CASE Listen
  BY <1>7 DEF Listen, Start, service, Serving, Published
<1>8. ASSUME NEW t \in Topics, NEW h \in Handlers, Register(t, h) PROVE ProcessInOrder'
  BY <1>8 DEF Register, Subscribe, service, Serving, Published
<1>9. CASE MainWakes \/ MainReturns
  BY <1>9 DEF MainWakes, MainReturns, Stop, StopReturns, service, Serving, Published
<1>10. CASE Boot \/ Signal
  BY <1>10 DEF Boot, Signal, busVars, service, Serving, Published
<1>11. CASE UNCHANGED <<main, payload, busVars, service>>
  BY <1>11 DEF busVars, service, Serving, Published
<1>12. ASSUME NEW w \in Tasks, Begin(w) \/ GetCancelled(w) \/ Gathered(w),
              UNCHANGED <<main, payload, service>>
       PROVE  ProcessInOrder'
  BY <1>12 DEF Begin, GetCancelled, Gathered, service, Serving, Published
<1> QED
  BY <1>1, <1>2, <1>3, <1>4, <1>5, <1>6, <1>7, <1>8, <1>9, <1>10, <1>11, <1>12, ProcessCases

LEMMA StepOneEventEach ==
    ASSUME PInv, Next
    PROVE  OneEventEach'
<1> USE DEF PInv, OneEventEach
<1>0. queue \in Seq(Events) /\ topicOf \in Seq(Topics) /\ ToSet(queue) \subseteq Published
  BY DEF IInv, BusTypeOK, EventsApart
<1>1. ASSUME NEW u \in Users, Request(u) PROVE OneEventEach'
  <2>1. \A v \in Users : requests'[v] # "answered" => requests[v] # "answered"
    BY <1>1, RequestMoves DEF ProcessInOrder
  <2>2. UNCHANGED <<payload, busVars, welcomes, skipped>>
    BY <1>1, RequestMoves
  <2> QED BY <2>1, <2>2 DEF busVars, Published, Fresh
<1>2. ASSUME NEW u \in Users, Announce(u) PROVE OneEventEach'
  <2> DEFINE new == Len(topicOf) + 1
  <2>1. /\ payload' = Append(payload, u) /\ topicOf' = Append(topicOf, UserCreated)
        /\ queue' = Append(queue, new) /\ Len(topicOf) < MaxEvents
        /\ requests' = [requests EXCEPT ![u] = "answered"] /\ requests[u] = "publishing"
        /\ UNCHANGED <<welcomes, skipped>>
    BY <1>2 DEF Announce, Publish
  <2>2. /\ Published' = Published \cup {new} /\ new \in Events
        /\ payload'[new] = u /\ \A e \in Published : payload'[e] = payload[e] /\ e # new
    BY <1>0, <2>1, WorkerAssumption, BusAssumption DEF ProcessInOrder, Published, Events
  <2>3. ToSet(queue') = ToSet(queue) \cup {new}
    BY <1>0, <2>1, <2>2, AppendSet
  <2>4. Fresh(u) /\ \A e \in Published : payload[e] # u
    BY <2>1
  <2>5. \A v \in Users : requests'[v] # "answered" => v # u /\ requests[v] # "answered"
    BY <2>1 DEF ProcessInOrder
  <2> HIDE DEF new
  <2>6. \A d, e \in Published' : payload'[d] = payload'[e] => d = e
    BY <2>2, <2>4
  <2>7. \A v \in Users : requests'[v] # "answered" => \A e \in Published' : payload'[e] # v
    BY <2>2, <2>5
  <2>8. \A e \in ToSet(queue') : Fresh(payload'[e])
    BY <1>0, <2>2, <2>3, <2>4
  <2> QED BY <2>1, <2>5, <2>6, <2>7, <2>8 DEF Fresh
<1>3. ASSUME NEW w \in Tasks, Get(w), UNCHANGED <<main, payload, service>> PROVE OneEventEach'
  <2>1. UNCHANGED <<topicOf, requests, welcomes, skipped>> /\ queue # <<>> /\ queue' = Tail(queue)
    BY <1>3 DEF Get, service
  <2>2. ToSet(queue') \subseteq ToSet(queue)
    BY <1>0, <2>1, HeadSet
  <2> QED BY <1>3, <2>1, <2>2 DEF Fresh, Published
<1>4. ASSUME NEW w \in Tasks, NEW h \in Handlers, Call(w, h) PROVE OneEventEach'
  BY <1>4 DEF Call, CallHandler, service, Fresh, Published
<1>5. ASSUME NEW w \in Tasks, NEW h \in Handlers, HandlerReturns(w, h) PROVE OneEventEach'
  <2>1. UNCHANGED <<payload, topicOf, queue, requests>> /\ Published' = Published
    BY <1>5 DEF HandlerReturns, HandlerEnds, Published
  <2>2. CASE h # on_user_created
    BY <1>5, <2>1, <2>2 DEF HandlerReturns, Fresh
  <2>3. CASE h = on_user_created
    <3> DEFINE e == event[w]
    <3>1. jobs[w][h] = "running"
      BY <1>5 DEF HandlerReturns, HandlerEnds
    <3>2. e \in Published \ ToSet(queue)
      <4>1. jobs[w] # NoJobs
        BY <3>1 DEF NoJobs
      <4> QED BY <4>1 DEF IInv, TasksInOrder, EventsApart
    <3>3. /\ \A u \in Users \ {payload[e]} : Fresh(u) => Fresh(u)'
          /\ payload[e] \in Users
      <4>1. payload[e] \in Users
        BY <3>2 DEF ProcessInOrder, Published
      <4>2. /\ \/ welcomes' = [welcomes EXCEPT ![payload[e]] = Append(@, Self)]
               \/ welcomes' = welcomes
            /\ skipped' \subseteq skipped \cup {payload[e]}
        BY <1>5, <2>3 DEF HandlerReturns, Welcomed
      <4> QED BY <4>1, <4>2 DEF Fresh, ProcessInOrder
    <3> HIDE DEF e
    <3>4. \A u \in Users : requests[u] # "answered" => u # payload[e]
      BY <3>2
    <3>5. \A d \in ToSet(queue) : payload[d] # payload[e] /\ payload[d] \in Users
      BY <1>0, <3>2 DEF ProcessInOrder, Published
    <3>6. \A d \in ToSet(queue) : Fresh(payload[d])'
      BY <2>1, <3>3, <3>5 DEF Fresh
    <3>7. \A u \in Users : requests'[u] # "answered" => Fresh(u)'
      BY <2>1, <3>3, <3>4
    <3> QED BY <2>1, <3>6, <3>7
  <2> QED BY <2>2, <2>3
<1>6. CASE Gone
  <2>1. /\ queue' = <<>> /\ topicOf' = <<>> /\ UNCHANGED <<welcomes, skipped>>
        /\ \A u \in Users : requests'[u] # "answered" => requests[u] # "answered"
    BY <1>6 DEF Gone, ForgetBus
  <2>2. ToSet(queue') = {} /\ Published' = {}
    BY <2>1, EmptySet DEF Published
  <2> QED BY <2>1, <2>2 DEF Fresh
<1>7. CASE UNCHANGED <<payload, topicOf, queue, service>>
  BY <1>7 DEF service, Fresh, Published
<1> QED
  BY <1>1, <1>2, <1>3, <1>4, <1>5, <1>6, <1>7, ProcessCases

\* The only worker task of a process is the first.
LEMMA OneTask ==
    ASSUME IInv, ProcessInOrder, NEW v \in Tasks, NEW w \in Tasks,
           place[v] # "uncreated", place[w] # "uncreated"
    PROVE  v = w /\ Serving
BY DEF IInv, TasksInOrder, ProcessInOrder, Tasks

\* A task that can take an event has told of everything before.
LEMMA NothingUntold ==
    ASSUME PInv, NEW w \in Tasks, place[w] = "getting", w \notin cancelled
    PROVE  Untold = {}
<1> SUFFICES ASSUME NEW u \in Untold PROVE FALSE
  OBVIOUS
<1>1. PICK v \in Tasks : place[v] # "uncreated" /\ (v \in cancelled \/ Telling(v, u))
  BY DEF PInv, OneInHand
<1>2. v = w
  BY <1>1, OneTask DEF PInv
<1>3. jobs[w] = NoJobs
  BY DEF PInv, IInv, TasksInOrder
<1> QED BY <1>1, <1>2, <1>3, WorkerAssumption DEF Telling, NoJobs

\* A handler runs about an event that was taken, which is one user's.
LEMMA TellingIsTaken ==
    ASSUME PInv, NEW w \in Tasks, jobs[w][on_user_created] # "none"
    PROVE  /\ event[w] \in Published \ ToSet(queue)
           /\ payload[event[w]] \in Untold /\ payload[event[w]] \in Users
           /\ place[w] = "dispatching"
<1>1. jobs[w] # NoJobs
  BY WorkerAssumption DEF NoJobs
<1>2. place[w] = "dispatching" /\ event[w] \in Published \ ToSet(queue)
  BY <1>1 DEF PInv, IInv, TasksInOrder, EventsApart
<1>3. payload[event[w]] \in Users
  BY <1>2 DEF PInv, ProcessInOrder, Published
<1>4. Fresh(payload[event[w]])
  BY <1>3 DEF PInv, OneInHand, Telling
<1> QED BY <1>2, <1>3, <1>4 DEF Untold, Taken, Fresh

\* A step that takes no event and tells of none.
LEMMA HandStays ==
    ASSUME OneInHand, UNCHANGED <<payload, topicOf, queue, welcomes, skipped>>,
           \A w \in Tasks :
            /\ place[w] # "uncreated" => place'[w] # "uncreated"
            /\ w \in cancelled => w \in cancelled'
            /\ jobs[w][on_user_created] # "none" /\ w \notin cancelled' =>
                    jobs'[w][on_user_created] # "none" /\ event'[w] = event[w]
            /\ jobs'[w][on_user_created] # "none" =>
                    jobs[w][on_user_created] # "none" /\ event'[w] = event[w]
    PROVE  OneInHand'
<1>1. Taken' = Taken /\ Untold' = Untold /\ \A u : Fresh(u)' = Fresh(u)
  BY DEF Taken, Untold, Fresh, Published
<1>2. \A u : \A w \in Tasks : Telling(w, u)' => Telling(w, u)
  BY DEF Telling
<1>3. \A u : \A w \in Tasks : Telling(w, u) => w \in cancelled' \/ Telling(w, u)'
  BY DEF Telling
<1> QED BY <1>1, <1>2, <1>3 DEF OneInHand

LEMMA StepOneInHand ==
    ASSUME PInv, Next
    PROVE  OneInHand'
<1> USE DEF PInv
<1>0. /\ queue \in Seq(Events) /\ topicOf \in Seq(Topics) /\ ToSet(queue) \subseteq Published
      /\ place \in [Tasks -> Places] /\ jobs \in [Tasks -> [Handlers -> Progress]]
      /\ event \in [Tasks -> Events \cup {NoEvent}] /\ on_user_created \in Handlers
  BY WorkerAssumption DEF IInv, BusTypeOK, EventsApart
<1>1. ASSUME NEW u \in Users, Request(u) PROVE OneInHand'
  BY <1>1, RequestMoves, HandStays DEF busVars
<1>2. ASSUME NEW u \in Users, Announce(u) PROVE OneInHand'
  <2> DEFINE new == Len(topicOf) + 1
  <2>1. /\ payload' = Append(payload, u) /\ topicOf' = Append(topicOf, UserCreated)
        /\ queue' = Append(queue, new) /\ Len(topicOf) < MaxEvents
        /\ UNCHANGED <<welcomes, skipped, place, jobs, event, cancelled>>
    BY <1>2 DEF Announce, Publish
  <2>2. /\ Published' = Published \cup {new} /\ new \in Events /\ new \notin Published
        /\ \A e \in Published : payload'[e] = payload[e]
    BY <1>0, <2>1, WorkerAssumption, BusAssumption DEF ProcessInOrder, Published, Events
  <2>3. ToSet(queue') = ToSet(queue) \cup {new}
    BY <1>0, <2>1, <2>2, AppendSet
  <2> HIDE DEF new
  <2>4. Taken' = Taken
    BY <1>0, <2>2, <2>3 DEF Taken
  <2>5. Untold' = Untold /\ \A v : Fresh(v)' = Fresh(v)
    BY <2>1, <2>4 DEF Untold, Fresh
  <2>6. \A v : \A w \in Tasks : Telling(w, v)' = Telling(w, v)
    BY <2>1, <2>2, TellingIsTaken DEF Telling
  <2> QED BY <2>1, <2>5, <2>6 DEF OneInHand
<1>3. ASSUME NEW w \in Tasks, Get(w), UNCHANGED <<main, payload, service>> PROVE OneInHand'
  <2>0. PICK e : e = Head(queue)
    OBVIOUS
  <2>1. /\ place[w] = "getting" /\ w \notin cancelled /\ queue # <<>> /\ queue' = Tail(queue)
        /\ UNCHANGED <<topicOf, cancelled, welcomes, skipped, payload>>
    BY <1>3 DEF Get, service
  <2>2. /\ e \in Events /\ ToSet(queue) = ToSet(queue') \cup {e} /\ e \notin ToSet(queue')
    BY <1>0, <2>0, <2>1, HeadSet, TailForgets DEF IInv, EventsApart
  <2>3. e \in Published /\ topicOf[e] = UserCreated /\ payload[e] \in Users /\ Fresh(payload[e])
    BY <1>0, <2>2 DEF ProcessInOrder, OneEventEach, Published
  <2>4. Serving /\ on_user_created \in subscribed[topicOf[e]]
    <3>1. Serving
      BY <2>1, OneTask
    <3> QED BY <2>3, <3>1, WorkerAssumption DEF ProcessInOrder
  <2>5. /\ event' = [event EXCEPT ![w] = e]
        /\ jobs' = [jobs EXCEPT ![w] =
                [h \in Handlers |-> IF h \in subscribed[topicOf[e]] THEN "scheduled" ELSE "none"]]
        /\ place' = [place EXCEPT ![w] = "dispatching"]
    BY <1>3, <2>0, <2>4 DEF Get, Move
  <2>6. event'[w] = e /\ jobs'[w][on_user_created] # "none" /\ place'[w] # "uncreated"
    BY <1>0, <2>4, <2>5
  <2>7. Taken' = Taken \cup {payload[e]}
    BY <2>1, <2>2, <2>3 DEF Taken, Published
  <2>8. Untold = {}
    BY <2>1, NothingUntold
  <2>9. Untold' = {payload[e]}
    BY <2>1, <2>3, <2>7, <2>8 DEF Untold, Fresh
  <2>10. \A v \in Tasks \ {w} : jobs'[v] = NoJobs
    <3>1. \A v \in Tasks \ {w} : place[v] = "uncreated"
      BY <2>1, OneTask
    <3> QED BY <1>0, <2>5, <3>1 DEF IInv, TasksInOrder
  <2>11. \A v \in Tasks, u \in Users : Telling(v, u)' => v = w /\ u = payload[e]
    BY <1>0, <2>1, <2>6, <2>10 DEF Telling, NoJobs
  <2>12. Telling(w, payload[e])'
    BY <2>1, <2>6 DEF Telling
  <2> QED BY <2>1, <2>3, <2>6, <2>9, <2>11, <2>12 DEF OneInHand, Fresh
<1>4. ASSUME NEW w \in Tasks, NEW h \in Handlers, Call(w, h) PROVE OneInHand'
  <2>1. UNCHANGED <<payload, topicOf, queue, welcomes, skipped, place, cancelled, event>>
    BY <1>4 DEF Call, CallHandler, service
  <2>2. /\ jobs[w][h] = "scheduled"
        /\ \/ w \in cancelled /\ jobs' = [jobs EXCEPT ![w][h] = "none"]
           \/ w \notin cancelled /\ jobs' = [jobs EXCEPT ![w][h] = "running"]
    BY <1>4 DEF Call, CallHandler
  <2>3. \A v \in Tasks, g \in Handlers : <<v, g>> # <<w, h>> => jobs'[v][g] = jobs[v][g]
    BY <1>0, <2>2
  <2>4. jobs'[w][h] = "none" => w \in cancelled
    BY <1>0, <2>2
  <2>5. \A v \in Tasks :
            /\ jobs[v][on_user_created] # "none" /\ v \notin cancelled =>
                    jobs'[v][on_user_created] # "none"
            /\ jobs'[v][on_user_created] # "none" => jobs[v][on_user_created] # "none"
    BY <1>0, <2>2, <2>3, <2>4
  <2> QED BY <2>1, <2>5, HandStays
<1>5. ASSUME NEW w \in Tasks, NEW h \in Handlers, HandlerReturns(w, h) PROVE OneInHand'
  <2>1. /\ UNCHANGED <<payload, topicOf, queue, place, cancelled, event>>
        /\ jobs[w][h] = "running" /\ jobs' = [jobs EXCEPT ![w][h] = "none"]
    BY <1>5 DEF HandlerReturns, HandlerEnds
  <2>2. /\ \A v \in Tasks, g \in Handlers : <<v, g>> # <<w, h>> => jobs'[v][g] = jobs[v][g]
        /\ jobs'[w][h] = "none"
    BY <1>0, <2>1
  <2>3. CASE h # on_user_created
    BY <1>0, <1>5, <2>1, <2>2, <2>3, HandStays DEF HandlerReturns
  <2>4. CASE h = on_user_created /\ w \in cancelled /\ UNCHANGED <<welcomes, skipped>>
    BY <1>0, <2>1, <2>2, <2>4, HandStays
  <2>5. CASE h = on_user_created /\ ~(w \in cancelled /\ UNCHANGED <<welcomes, skipped>>)
    <3> DEFINE u == payload[event[w]]
    <3>1. u \in Untold /\ u \in Users /\ place[w] # "uncreated"
      BY <2>1, <2>5, TellingIsTaken
    <3>2. Untold = {u}
      BY <3>1 DEF OneInHand
    <3>3. \/ welcomes' = [welcomes EXCEPT ![u] = Append(@, Self)] /\ skipped' = skipped
          \/ skipped' = skipped \cup {u} /\ welcomes' = welcomes
      BY <1>5, <2>5 DEF HandlerReturns, Welcomed
    <3> HIDE DEF u
    <3>4. welcomes[u] \in Seq({Self}) /\ welcomes[u] = <<>>
      BY <3>1 DEF ProcessInOrder, Untold
    <3>5. Append(welcomes[u], Self) # <<>>
      BY <3>4
    <3>6. /\ \A v \in Users \ {u} : welcomes'[v] = welcomes[v] /\ (v \in skipped' <=> v \in skipped)
          /\ welcomes'[u] # <<>> \/ u \in skipped'
      BY <3>1, <3>3, <3>5 DEF ProcessInOrder
    <3>7. Taken' = Taken /\ Taken \subseteq Users
      BY <2>1 DEF Taken, Published, ProcessInOrder
    <3>8. Untold' = {}
      BY <3>2, <3>6, <3>7 DEF Untold
    <3>9. \A v \in Tasks : jobs'[v][on_user_created] = "none"
      <4>1. \A v \in Tasks \ {w} : place[v] = "uncreated"
        BY <3>1, OneTask
      <4>2. \A v \in Tasks \ {w} : jobs[v] = NoJobs
        BY <4>1 DEF IInv, TasksInOrder
      <4>3. \A v \in Tasks \ {w} : jobs[v][on_user_created] = "none"
        BY <1>0, <4>2 DEF NoJobs
      <4>4. \A v \in Tasks \ {w} : jobs'[v][on_user_created] = "none"
        BY <1>0, <2>2, <4>3
      <4> QED BY <2>2, <2>5, <4>4
    <3> QED BY <3>8, <3>9 DEF OneInHand, Telling
  <2> QED BY <2>3, <2>4, <2>5
<1>6. CASE Gone
  <2>1. /\ topicOf' = <<>> /\ \A w \in Tasks : jobs'[w] = NoJobs
    BY <1>6 DEF Gone, ForgetBus
  <2>2. Untold' = {}
    BY <2>1 DEF Untold, Taken, Published
  <2> QED BY <1>0, <2>1, <2>2 DEF OneInHand, Telling, NoJobs
<1>7. ASSUME UNCHANGED <<payload, topicOf, queue, service>>,
             UNCHANGED <<event, jobs>>,
             \A w \in Tasks : /\ place[w] # "uncreated" => place'[w] # "uncreated"
                              /\ w \in cancelled => w \in cancelled'
      PROVE  OneInHand'
  BY <1>7, HandStays DEF service
<1>8. ASSUME UNCHANGED <<payload, topicOf, queue, service>>,
             NEW w \in Tasks, Begin(w) \/ GetCancelled(w)
      PROVE  OneInHand'
  <2>1. UNCHANGED <<event, jobs, cancelled>>
    BY <1>8 DEF Begin, GetCancelled
  <2>2. place' = [place EXCEPT ![w] = "done"] \/ place' = [place EXCEPT ![w] = "getting"]
    BY <1>8 DEF Begin, GetCancelled, NextRound, Move
  <2> QED BY <1>0, <1>7, <1>8, <2>1, <2>2
<1>9. ASSUME UNCHANGED <<payload, topicOf, queue, service>>, NEW w \in Tasks, Gathered(w)
      PROVE  OneInHand'
  <2>1. UNCHANGED <<jobs, cancelled>> /\ jobs[w] = NoJobs /\ event' = [event EXCEPT ![w] = NoEvent]
    BY <1>9 DEF Gathered
  <2>2. place' = [place EXCEPT ![w] = "done"] \/ place' = [place EXCEPT ![w] = "getting"]
    BY <1>9 DEF Gathered, NextRound, Move
  <2>3. \A v \in Tasks : jobs[v][on_user_created] # "none" => event'[v] = event[v]
    BY <1>0, <2>1 DEF NoJobs
  <2> QED BY <1>0, <1>9, <2>1, <2>2, <2>3, HandStays DEF service
<1>10. ASSUME UNCHANGED <<payload, topicOf, queue, service>>,
              \/ Boot \/ Listen \/ Signal \/ MainWakes \/ MainReturns
              \/ \E t \in Topics, h \in Handlers : Register(t, h)
              \/ UNCHANGED <<main, busVars>>
       PROVE  OneInHand'
  <2>1. UNCHANGED <<event, jobs>> /\ cancelled \subseteq cancelled'
    BY <1>10 DEF Boot, Listen, Signal, MainWakes, MainReturns, Register, Start, Stop,
                 StopReturns, Subscribe, busVars
  <2>2. place' = place \/ place' = [place EXCEPT ![created + 1] = "ready"]
    BY <1>10 DEF Boot, Listen, Signal, MainWakes, MainReturns, Register, Start, Stop,
                 StopReturns, Subscribe, Move, busVars
  <2> QED BY <1>0, <1>7, <1>10, <2>1, <2>2
<1> QED
  BY <1>1, <1>2, <1>3, <1>4, <1>5, <1>6, <1>8, <1>9, <1>10, ProcessCases

-----------------------------------------------------------------------------
(* The process implements UserSignup *)

\* The variables of UserSignup that are not variables of the process.
Home == [u \in Users |-> IF requests[u] = "none" THEN Nobody ELSE Self]
Up == IF main = "down" THEN {} ELSE {Self}
Listening == IF Serving THEN {Self} ELSE {}
Queues == [p \in {Self} |-> Waiting]
InHand == IF Untold = {} THEN Nobody ELSE CHOOSE u \in Untold : TRUE
InHands == [p \in {Self} |-> InHand]

signupVars ==
    <<users, requests, Home, Up, Listening, Queues, InHands, returned, {}, welcomes, skipped, lost>>

\* What is in hand, if anything, is the one untold user.
LEMMA HandIsUntold ==
    ASSUME PInv
    PROVE  /\ Untold \subseteq Users /\ Nobody \notin Users /\ Self # Nobody
           /\ Untold = {InHand} \ {Nobody}
           /\ InHand = Nobody <=> Untold = {}
<1>1. Taken \subseteq Users
  BY DEF PInv, ProcessInOrder, Taken, Published
<1>2. Nobody \notin Users /\ Self # Nobody
  BY WorkerAssumption
<1>3. CASE Untold = {}
  BY <1>1, <1>2, <1>3 DEF InHand, Untold
<1>4. CASE Untold # {}
  <2>1. InHand \in Untold
    BY <1>4 DEF InHand
  <2>2. Untold = {InHand}
    BY <2>1 DEF PInv, OneInHand
  <2> QED BY <1>1, <1>2, <2>2 DEF Untold
<1> QED BY <1>3, <1>4

\* A step in which no event moves and nobody is told leaves bus and hands alone.
LEMMA QueuesStay ==
    ASSUME UNCHANGED <<payload, topicOf, queue, welcomes, skipped>>
    PROVE  Queues' = Queues /\ InHands' = InHands
BY DEF Queues, Waiting, InHands, InHand, Untold, Taken, Published

\* Sequences as the functions they are: put() adds a last element, get() takes the first.
LEMMA SeqIsFunction ==
    ASSUME NEW S, NEW s \in Seq(S)
    PROVE  Len(s) \in Nat /\ s = [i \in 1 .. Len(s) |-> s[i]]
<1>1. Len(s) \in Nat /\ s \in [1 .. Len(s) -> S]
  OBVIOUS
<1> QED BY <1>1, Zenon

LEMMA AppendIsFunction ==
    ASSUME NEW S, NEW s \in Seq(S), NEW x \in S
    PROVE  Append(s, x) = [i \in 1 .. Len(s) + 1 |-> IF i = Len(s) + 1 THEN x ELSE s[i]]
<1>1. PICK t : t = Append(s, x)
  OBVIOUS
<1>2. /\ t \in Seq(S) /\ Len(t) = Len(s) + 1 /\ Len(s) \in Nat
      /\ t[Len(s) + 1] = x /\ \A i \in 1 .. Len(s) : t[i] = s[i]
  BY <1>1
<1>3. \A i \in 1 .. Len(s) + 1 : i = Len(s) + 1 \/ i \in 1 .. Len(s)
  BY <1>2
<1>4. \A i \in 1 .. Len(s) + 1 : t[i] = IF i = Len(s) + 1 THEN x ELSE s[i]
  BY <1>2, <1>3
<1>5. t = [i \in 1 .. Len(s) + 1 |-> t[i]]
  BY <1>2, SeqIsFunction
<1> QED BY <1>1, <1>4, <1>5

LEMMA TailIsFunction ==
    ASSUME NEW S, NEW s \in Seq(S), Len(s) # 0
    PROVE  /\ s # <<>> /\ Head(s) = s[1]
           /\ Tail(s) = [i \in 1 .. Len(s) - 1 |-> s[i + 1]]
<1>1. PICK t : t = Tail(s)
  OBVIOUS
<1>2. s # <<>> /\ Head(s) = s[1] /\ Len(s) \in Nat
  OBVIOUS
<1>3. t \in Seq(S) /\ Len(t) = Len(s) - 1 /\ \A i \in 1 .. Len(s) - 1 : t[i] = s[i + 1]
  BY <1>1, <1>2
<1>4. t = [i \in 1 .. Len(s) - 1 |-> t[i]]
  BY <1>3, SeqIsFunction
<1> QED BY <1>1, <1>2, <1>3, <1>4

LEMMA FunctionIsSeq ==
    ASSUME NEW S, NEW n \in Nat, NEW f \in [1 .. n -> S]
    PROVE  f \in Seq(S) /\ Len(f) = n
OBVIOUS

\* publish() on the bus of the process.
LEMMA AnnounceIsPublish ==
    ASSUME PInv, PInv', NEW u \in Users, Announce(u)
    PROVE  Signup!Publish(u)
<1> DEFINE new == Len(topicOf) + 1
<1>1. /\ payload' = Append(payload, u) /\ topicOf' = Append(topicOf, UserCreated)
      /\ queue' = Append(queue, new) /\ Len(topicOf) < MaxEvents
      /\ requests' = [requests EXCEPT ![u] = "answered"] /\ requests[u] = "publishing"
      /\ returned' = returned \cup {u}
      /\ UNCHANGED <<main, users, welcomes, skipped, lost>>
  BY DEF Announce, Publish
<1>2. /\ queue \in Seq(Events) /\ topicOf \in Seq(Topics) /\ payload \in Seq(Users)
      /\ Len(payload) = Len(topicOf) /\ requests \in [Users -> Signup!Places]
      /\ \A e \in ToSet(queue) : e \in Published
  BY DEF PInv, IInv, BusTypeOK, EventsApart, ProcessInOrder
<1>3. /\ Published' = Published \cup {new} /\ new \in Events /\ new \notin Published
      /\ payload'[new] = u /\ \A e \in Published : payload'[e] = payload[e]
  BY <1>1, <1>2, WorkerAssumption, BusAssumption DEF Published, Events
<1>4. ToSet(queue') = ToSet(queue) \cup {new}
  BY <1>1, <1>2, <1>3, AppendSet
<1>5. Waiting' = Append(Waiting, u)
  <2>1. \A i \in 1 .. Len(queue) : queue[i] \in Published
    BY <1>2 DEF ToSet
  <2>2. /\ Len(queue') = Len(queue) + 1 /\ queue'[Len(queue) + 1] = new
        /\ \A i \in 1 .. Len(queue) : queue'[i] = queue[i]
        /\ DOMAIN queue' = 1 .. Len(queue) + 1 /\ DOMAIN queue = 1 .. Len(queue)
        /\ Len(queue) \in Nat
    BY <1>1, <1>2
  <2> DEFINE before == [i \in 1 .. Len(queue) |-> payload[queue[i]]]
             after == [i \in 1 .. Len(queue) + 1 |-> payload'[queue'[i]]]
  <2>3. before \in Seq(Users) /\ Len(before) = Len(queue)
    <3>1. \A i \in 1 .. Len(queue) : payload[queue[i]] \in Users
      BY <1>2, <2>1 DEF Published
    <3>2. before \in [1 .. Len(queue) -> Users]
      BY <3>1
    <3> HIDE DEF before
    <3> QED BY <2>2, <3>2, FunctionIsSeq
  <2>4. Append(before, u) = [i \in 1 .. Len(queue) + 1 |->
            IF i = Len(queue) + 1 THEN u ELSE before[i]]
    <3> HIDE DEF before
    <3> QED BY <2>3, AppendIsFunction
  <2>5. \A i \in 1 .. Len(queue) + 1 : after[i] = IF i = Len(queue) + 1 THEN u ELSE before[i]
    <3>1. ASSUME NEW i \in 1 .. Len(queue) PROVE after[i] = before[i] /\ i # Len(queue) + 1
      BY <1>3, <2>1, <2>2
    <3>2. after[Len(queue) + 1] = u
      BY <1>3, <2>2
    <3>3. \A i \in 1 .. Len(queue) + 1 : i = Len(queue) + 1 \/ i \in 1 .. Len(queue)
      BY <2>2
    <3> HIDE DEF before, after
    <3> QED BY <3>1, <3>2, <3>3
  <2>6. after = Append(before, u)
    BY <2>4, <2>5
  <2> QED BY <2>2, <2>6 DEF Waiting
<1>6. InHands' = InHands
  <2>1. Taken' = Taken
    BY <1>2, <1>3, <1>4 DEF Taken
  <2> QED BY <1>1, <2>1 DEF InHands, InHand, Untold
<1>7. Home' = Home /\ Home[u] = Self /\ Up' = Up /\ Listening' = Listening
  BY <1>1, <1>2 DEF Home, Up, Listening, Serving
<1>8. Queues' = [Queues EXCEPT ![Home[u]] = Append(@, u)]
  BY <1>5, <1>7 DEF Queues
<1> QED
  BY <1>1, <1>6, <1>7, <1>8
  DEF Signup!Publish, Signup!ReturnsOk, Signup!Move, Signup!processVars, Home, Up, Listening,
      Queues, InHands, InHand

\* The worker task takes the event at the head of the queue.
LEMMA GetIsTake ==
    ASSUME PInv, NEW w \in Tasks, Get(w), UNCHANGED <<main, payload, service>>
    PROVE  Signup!Take(Self)
<1>0. PICK e : e = Head(queue)
  OBVIOUS
<1>1. /\ place[w] = "getting" /\ w \notin cancelled /\ queue # <<>> /\ queue' = Tail(queue)
      /\ UNCHANGED <<topicOf, users, requests, returned, welcomes, skipped, lost>>
  BY DEF Get, service
<1>2. /\ queue \in Seq(Events) /\ topicOf \in Seq(Topics)
      /\ \A d \in ToSet(queue) : d \in Published
  BY DEF PInv, IInv, BusTypeOK, EventsApart
<1>3. ToSet(queue) = ToSet(queue') \cup {e} /\ e \notin ToSet(queue')
  BY <1>0, <1>1, <1>2, HeadSet, TailForgets DEF PInv, IInv, EventsApart
<1>4. e \in Published /\ payload[e] \in Users /\ Fresh(payload[e])
  BY <1>2, <1>3 DEF PInv, ProcessInOrder, OneEventEach, Published
<1>5. Serving
  BY <1>1, OneTask DEF PInv
<1>6. Untold = {}
  BY <1>1, NothingUntold
<1>7. Untold' = {payload[e]}
  <2>1. Taken' = Taken \cup {payload[e]}
    BY <1>1, <1>3, <1>4 DEF Taken, Published
  <2> QED BY <1>1, <1>4, <1>6, <2>1 DEF Untold, Fresh
<1>8. InHands = [p \in {Self} |-> Nobody] /\ InHands' = [p \in {Self} |-> payload[e]]
  BY <1>6, <1>7 DEF InHands, InHand
<1>9. Waiting # <<>> /\ Head(Waiting) = payload[e] /\ Waiting' = Tail(Waiting)
  <2>1. /\ Len(queue) \in Nat \ {0} /\ DOMAIN queue = 1 .. Len(queue) /\ e = queue[1]
        /\ DOMAIN queue' = 1 .. Len(queue) - 1
        /\ \A i \in 1 .. Len(queue) - 1 : queue'[i] = queue[i + 1]
    BY <1>0, <1>1, <1>2
  <2> DEFINE before == [i \in 1 .. Len(queue) |-> payload[queue[i]]]
  <2>2. before \in Seq(Users) /\ Len(before) = Len(queue) /\ before[1] = payload[e]
    <3>0. \A i \in 1 .. Len(queue) : queue[i] \in Published
      BY <1>2, <2>1 DEF ToSet
    <3>1. \A i \in 1 .. Len(queue) : payload[queue[i]] \in Users
      BY <3>0 DEF PInv, ProcessInOrder, Published
    <3>2. before \in [1 .. Len(queue) -> Users]
      BY <3>1
    <3>3. before[1] = payload[e]
      BY <2>1
    <3> HIDE DEF before
    <3> QED BY <2>1, <3>2, <3>3, FunctionIsSeq
  <2>3. Waiting = before
    BY <2>1 DEF Waiting
  <2>4. Waiting' = [i \in 1 .. Len(queue) - 1 |-> before[i + 1]]
    BY <2>1 DEF Waiting
  <2> HIDE DEF before
  <2>5. before # <<>> /\ Head(before) = before[1]
        /\ Tail(before) = [i \in 1 .. Len(before) - 1 |-> before[i + 1]]
    BY <2>1, <2>2, TailIsFunction
  <2> QED BY <2>2, <2>3, <2>4, <2>5
<1>10. /\ Queues[Self] = Waiting /\ Queues' = [Queues EXCEPT ![Self] = Tail(@)]
       /\ InHands[Self] = Nobody /\ InHands' = [InHands EXCEPT ![Self] = Head(Queues[Self])]
  BY <1>8, <1>9 DEF Queues
<1>11. Home' = Home /\ Up' = Up /\ Listening' = Listening /\ Self \in Listening
  BY <1>1, <1>5 DEF Home, Up, Listening, Serving
<1> QED
  BY <1>1, <1>9, <1>10, <1>11
  DEF Signup!Take, Signup!requestVars, Signup!processVars, Home, Up, Listening, Queues, InHands,
      InHand

\* on_user_created ends: it has welcomed the user or not, or it was cut off and the
\* user remains in hand.
LEMMA ReturnIsWelcome ==
    ASSUME PInv, PInv', NEW w \in Tasks, NEW h \in Handlers, HandlerReturns(w, h)
    PROVE  Signup!Welcome(Self) \/ Signup!WelcomeSkipped(Self) \/ UNCHANGED signupVars
<1>1. /\ UNCHANGED <<main, payload, topicOf, queue, users, requests, returned, lost>>
      /\ jobs[w][h] = "running"
  BY DEF HandlerReturns, HandlerEnds
<1>2. Home' = Home /\ Up' = Up /\ Listening' = Listening /\ Queues' = Queues
  BY <1>1 DEF Home, Up, Listening, Serving, Queues, Waiting
<1>3. CASE UNCHANGED <<welcomes, skipped>>
  BY <1>1, <1>2, <1>3, QueuesStay DEF signupVars
<1>4. CASE ~UNCHANGED <<welcomes, skipped>>
  <2>0. PICK u : u = payload[event[w]]
    OBVIOUS
  <2>1. /\ \/ u \in users /\ welcomes' = [welcomes EXCEPT ![u] = Append(@, Self)] /\ skipped' = skipped
           \/ skipped' = skipped \cup {u} /\ welcomes' = welcomes
        /\ h = on_user_created
    BY <1>4, <2>0 DEF HandlerReturns, Welcomed
  <2>2. u \in Untold /\ u \in Users
    BY <1>1, <2>0, <2>1, TellingIsTaken
  <2>3. InHand = u /\ u # Nobody
    BY <2>2, HandIsUntold
  <2>4. Untold' = {}
    <3>1. Untold = {u} /\ Taken \subseteq Users
      BY <2>2, <2>3, HandIsUntold DEF PInv, ProcessInOrder, Taken, Published
    <3>2. Taken' = Taken
      BY <1>1 DEF Taken, Published
    <3>3. \A v \in Users \ {u} : welcomes'[v] = welcomes[v] /\ (v \in skipped' <=> v \in skipped)
      BY <2>1, <2>2 DEF PInv, ProcessInOrder
    <3>4. u \in skipped' \/ welcomes'[u] # <<>>
      <4>1. welcomes[u] \in Seq({Self})
        BY <2>2 DEF PInv, ProcessInOrder
      <4>2. Append(welcomes[u], Self) # <<>>
        BY <4>1
      <4> QED BY <2>1, <2>2, <4>2 DEF PInv, ProcessInOrder
    <3> QED BY <3>1, <3>2, <3>3, <3>4 DEF Untold
  <2>5. InHands[Self] = u /\ InHands' = [InHands EXCEPT ![Self] = Nobody]
    BY <2>3, <2>4 DEF InHands, InHand
  <2>6. CASE u \in users /\ welcomes' = [welcomes EXCEPT ![u] = Append(@, Self)] /\ skipped' = skipped
    <3>1. Signup!Welcome(Self)
      BY <1>1, <1>2, <2>5, <2>6
      DEF Signup!Welcome, Signup!requestVars, Signup!processVars, Home, Up, Listening, Queues,
          InHands, InHand
    <3> QED BY <3>1
  <2>7. CASE skipped' = skipped \cup {u} /\ welcomes' = welcomes
    <3>1. Signup!WelcomeSkipped(Self)
      BY <1>1, <1>2, <2>3, <2>5, <2>7
      DEF Signup!WelcomeSkipped, Signup!requestVars, Signup!processVars, Home, Up, Listening,
          Queues, InHands, InHand
    <3> QED BY <3>1
  <2> QED BY <2>1, <2>6, <2>7
<1> QED BY <1>3, <1>4

\* The end of the process.
LEMMA GoneIsEnd ==
    ASSUME PInv, main # "down", Gone
    PROVE  Signup!End(Self)
<1>1. /\ main' = "down" /\ payload' = <<>> /\ topicOf' = <<>> /\ queue' = <<>>
      /\ lost' = lost \cup ToSet(Waiting) \cup Untold
      /\ requests' = [u \in Users |-> IF requests[u] = "none" THEN "none" ELSE "answered"]
      /\ \E applied \in SUBSET {u \in Users : requests[u] = "committing"} :
            users' = users \cup applied
      /\ UNCHANGED <<returned, welcomes, skipped>>
  BY DEF Gone, ForgetBus
<1>2. requests \in [Users -> Signup!Places]
  BY DEF PInv, ProcessInOrder
<1>3. Self \in Up /\ Up' = Up \ {Self} /\ Listening' = Listening \ {Self}
  BY <1>1 DEF Up, Listening, Serving
<1>4. Home' = Home
  BY <1>1, <1>2 DEF Home
<1>5. {u \in Users : Home[u] = Self} = {u \in Users : requests[u] # "none"}
  BY HandIsUntold DEF Home
<1>6. requests' = [u \in Users |-> IF u \in {v \in Users : Home[v] = Self} THEN "answered"
                                   ELSE requests[u]]
  BY <1>1, <1>2, <1>5
<1>7. {u \in {v \in Users : Home[v] = Self} : requests[u] = "committing"}
        = {u \in Users : requests[u] = "committing"}
  BY <1>5
<1>8. Queues[Self] = Waiting /\ InHands[Self] = InHand /\ Untold = {InHand} \ {Nobody}
  BY HandIsUntold DEF Queues, InHands
<1>9. Waiting' = <<>> /\ Untold' = {}
  BY <1>1 DEF Waiting, Untold, Taken, Published
<1>10. /\ Queues' = [Queues EXCEPT ![Self] = <<>>]
       /\ InHands' = [InHands EXCEPT ![Self] = Nobody]
  BY <1>9 DEF Queues, InHands, InHand
<1>11. \E applied \in SUBSET {u \in {v \in Users : Home[v] = Self} : requests[u] = "committing"} :
         users' = users \cup applied
  BY <1>1, <1>7
<1>12. lost' = lost \cup Signup!ToSet(Queues[Self]) \cup ({InHands[Self]} \ {Nobody})
  BY <1>1, <1>8 DEF ToSet, Signup!ToSet
<1> QED
  BY <1>1, <1>3, <1>4, <1>6, <1>11, <1>12, <1>10
  DEF Signup!End, Home, Up, Listening, Queues, InHands, InHand

LEMMA StepIsSignupStep ==
    ASSUME PInv, PInv', Next
    PROVE  Signup!Next \/ UNCHANGED signupVars
<1>1. ASSUME NEW u \in Users, Request(u) PROVE Signup!Next
  BY <1>1, Zenon DEF Request, Signup!Next, Signup!Request
<1>2. ASSUME NEW u \in Users, Announce(u) PROVE Signup!Next
  <2>1. Signup!Publish(u)
    BY <1>2, AnnounceIsPublish
  <2> QED BY <2>1, Zenon DEF Signup!Next, Signup!Request
<1>3. ASSUME NEW w \in Tasks, Get(w), UNCHANGED <<main, payload, service>> PROVE Signup!Next
  <2>1. Signup!Take(Self)
    BY <1>3, GetIsTake
  <2> QED BY <2>1, Zenon DEF Signup!Next, Signup!Dispatch
<1>4. ASSUME NEW w \in Tasks, NEW h \in Handlers, Call(w, h) PROVE UNCHANGED signupVars
  <2>1. UNCHANGED <<main, payload, topicOf, queue, service>>
    BY <1>4 DEF Call, CallHandler
  <2> QED BY <2>1, QueuesStay DEF service, signupVars, Home, Up, Listening, Serving
<1>5. ASSUME NEW w \in Tasks, NEW h \in Handlers, HandlerReturns(w, h)
      PROVE  Signup!Next \/ UNCHANGED signupVars
  <2>1. Signup!Welcome(Self) \/ Signup!WelcomeSkipped(Self) \/ UNCHANGED signupVars
    BY <1>5, ReturnIsWelcome
  <2> QED BY <2>1, Zenon DEF Signup!Next, Signup!Dispatch
<1>6. CASE main # "down" /\ Gone
  <2>1. Signup!End(Self)
    BY <1>6, GoneIsEnd
  <2> QED BY <2>1, Zenon DEF Signup!Next
<1>7. CASE Boot
  <2>1. /\ main = "down" /\ main' = "loading" /\ UNCHANGED <<payload, topicOf, queue, service>>
    BY <1>7 DEF Boot, busVars
  <2>2. Home' = Home /\ Self \notin Up /\ Up' = Up \cup {Self} /\ Listening' = Listening
    BY <2>1 DEF Home, Up, Listening, Serving, service
  <2>3. Queues' = Queues /\ InHands' = InHands
    BY <2>1, QueuesStay DEF service
  <2>4. Signup!Boot(Self)
    BY <2>1, <2>2, <2>3
    DEF Signup!Boot, Signup!requestVars, Signup!busVars, service, Home, Up, Listening, Queues,
        InHands, InHand
  <2> QED BY <2>4, Zenon DEF Signup!Next
<1>8. CASE Listen
  <2>1. /\ main = "loading" /\ main' = "waiting" /\ UNCHANGED <<payload, topicOf, queue, service>>
    BY <1>8 DEF Listen, Start
  <2>2. /\ Home' = Home /\ Self \in Up /\ Up' = Up
        /\ Self \notin Listening /\ Listening' = Listening \cup {Self}
    BY <2>1 DEF Home, Up, Listening, Serving, service
  <2>3. Queues' = Queues /\ InHands' = InHands
    BY <2>1, QueuesStay DEF service
  <2>4. Signup!StartWorker(Self)
    BY <2>1, <2>2, <2>3
    DEF Signup!StartWorker, Signup!requestVars, Signup!busVars, service, Home, Up, Listening,
        Queues, InHands, InHand
  <2> QED BY <2>4, Zenon DEF Signup!Next
<1>9. ASSUME UNCHANGED <<payload, topicOf, queue, service>>,
             \/ Signal \/ MainWakes \/ MainReturns
             \/ \E t \in Topics, h \in Handlers : Register(t, h)
             \/ UNCHANGED main
      PROVE  UNCHANGED signupVars
  <2>1. Serving' = Serving /\ (main = "down" <=> main' = "down")
    BY <1>9 DEF Signal, MainWakes, MainReturns, Register, Serving
  <2> QED BY <1>9, <2>1, QueuesStay DEF service, signupVars, Home, Up, Listening
<1> QED
  BY <1>1, <1>2, <1>3, <1>4, <1>5, <1>6, <1>7, <1>8, <1>9, ProcessCases

LEMMA StepPInv == PInv /\ [Next]_vars => PInv'
<1>1. CASE PInv /\ Next
  <2>1. IInv'
    BY <1>1, ProcessKeepsBus DEF PInv
  <2>2. ProcessInOrder' /\ OneEventEach'
    BY <1>1, <2>1, StepProcessInOrder, StepOneEventEach
  <2> QED BY <1>1, <2>1, <2>2, StepOneInHand DEF PInv
<1>2. CASE PInv /\ UNCHANGED vars
  <2>1. UNCHANGED <<busVars, main, payload, requests, welcomes, skipped>>
    BY <1>2 DEF vars, process, service
  <2>2. IInv'
    BY <1>2, <2>1, StepTypes, StepTasks, StepOneWorker, StepEventsApart DEF PInv, IInv
  <2>3. Fresh(Nobody)' = Fresh(Nobody) /\ Published' = Published /\ Taken' = Taken /\ Untold' = Untold
    BY <2>1 DEF busVars, Fresh, Published, Taken, Untold
  <2>4. ProcessInOrder' /\ OneEventEach' /\ OneInHand'
    BY <1>2, <2>1, <2>3
    DEF busVars, PInv, ProcessInOrder, OneEventEach, OneInHand, Serving, Fresh, Telling
  <2> QED BY <2>2, <2>4 DEF PInv
<1> QED BY <1>1, <1>2

\* In a process, the bus is what it is by itself, and the events, the requests and
\* the welcomes of users agree.
THEOREM ProcessInvariant == Spec => []PInv
BY InitPInv, StepPInv, PTL DEF Spec

\* The process is the one of UserSignup.
THEOREM ProcessIsSignup == Spec => ImplementsSignup
<1>1. Init => Signup!Init
  <2> SUFFICES ASSUME Init PROVE Signup!Init
    OBVIOUS
  <2>1. Published = {} /\ queue = <<>> /\ Taken = {} /\ Untold = {} /\ Waiting = <<>>
    BY DEF Init, BusInit, Published, Taken, Untold, Waiting
  <2> QED BY <2>1 DEF Init, Signup!Init, Serving
<1>2. PInv /\ PInv' /\ [Next]_vars => [Signup!Next]_(Signup!vars)
  <2>1. ASSUME PInv, PInv', Next PROVE [Signup!Next]_(Signup!vars)
    <3>1. Signup!Next \/ UNCHANGED signupVars
      BY <2>1, StepIsSignupStep
    <3>2. ASSUME UNCHANGED signupVars PROVE UNCHANGED Signup!vars
      BY <3>2 DEF Signup!vars, signupVars, Home, Up, Listening, Queues, InHands, InHand
    <3> QED BY <3>1, <3>2
  <2>2. ASSUME UNCHANGED vars PROVE UNCHANGED Signup!vars
    <3>1. Untold' = Untold /\ Waiting' = Waiting /\ Serving' = Serving
      BY <2>2 DEF vars, process, service, busVars, Untold, Taken, Published, Waiting, Serving
    <3> QED BY <2>2, <3>1 DEF Signup!vars, vars, process, service
  <2> QED BY <2>1, <2>2
<1> QED
  BY <1>1, <1>2, ProcessInvariant, PTL DEF Spec, ImplementsSignup, Signup!Spec

=============================================================================
