-------------------------- MODULE PostgresEventBus --------------------------
(***************************************************************************)
(* The event bus on LISTEN/NOTIFY, which the container does not use yet.    *)
(* Each process has a bus object; start() gives it a pool for pg_notify and *)
(* a connection that listens, and the database sends every notification to  *)
(* all sessions that listen at that time.  A notification becomes a task of *)
(* its own, which nobody waits for.                                         *)
(*                                                                         *)
(* A pool and a connection are named by the start() that opened them, so    *)
(* that one which the bus has forgotten can still be told apart.  The tasks *)
(* of a connection run first in the order in which asyncio created them;    *)
(* nothing is said of the order between two connections.                    *)
(***************************************************************************)
EXTENDS Naturals, Sequences, FiniteSets, SequencesExt

CONSTANTS
    Processes,
    Events,
    Handlers,   \* registrations: a callable subscribed again is one more
    Topic,      \* the topic of each event and of each handler
    MaxStarts   \* bound on the calls of start(), of all processes

ASSUME PostgresBusAssumption ==
    /\ MaxStarts \in Nat
    /\ DOMAIN Topic = Events \cup Handlers

Starts == 1 .. MaxStarts
Opened == Processes \X Starts   \* pools, and connections that listen
None == 0

VARIABLES
    handlers,   \* _handlers, per process
    place,      \* per process, the await of start() or stop() it is at
    starts,     \* per process, the calls of start()
    pool,       \* _pool, per process
    listener,   \* _listener_conn, per process
    closed,     \* pools that are closed or closing
    live,       \* connections that listen
    wire,       \* per connection, notifications sent and not received
    pending,    \* per connection, notifications whose tasks have not run yet
    calls,      \* handlers under way
    publication,\* per event, the progress of publish()
    through,    \* per event, the pool whose connection is in use for it, if any
    \* history:
    sentTo,     \* per connection, the notifications sent to it
    begun,      \* per connection, the notifications whose tasks have run
    ended,      \* calls of handlers that have ended
    forgotten   \* connections that a later start() replaced while they listened

startVars == <<place, starts, pool, listener, closed, forgotten>>
hearVars == <<live, wire, sentTo>>
taskVars == <<handlers, pending, calls, begun, ended>>
sendVars == <<publication, through>>
vars == <<startVars, hearVars, taskVars, sendVars>>

Places == {"idle", "creating_pool", "connecting", "listening", "closing_listener", "closing_pool"}
Calls == Opened \X Events \X Handlers

TypeOK ==
    /\ handlers \in [Processes -> SUBSET Handlers]
    /\ place \in [Processes -> Places]
    /\ starts \in [Processes -> 0 .. MaxStarts]
    /\ pool \in [Processes -> 0 .. MaxStarts] /\ listener \in [Processes -> 0 .. MaxStarts]
    /\ closed \in SUBSET Opened /\ live \in SUBSET Opened
    /\ wire \in [Opened -> Seq(Events)] /\ pending \in [Opened -> Seq(Events)]
    /\ calls \in SUBSET Calls /\ ended \in SUBSET Calls
    /\ publication \in [Events -> {"new", "executing", "returned", "raised"}]
    /\ through \in [Events -> SUBSET Opened]
    /\ sentTo \in [Opened -> Seq(Events)] /\ begun \in [Opened -> Seq(Events)]
    /\ forgotten \in SUBSET Opened

Init ==
    /\ handlers = [p \in Processes |-> {}]
    /\ place = [p \in Processes |-> "idle"]
    /\ starts = [p \in Processes |-> 0]
    /\ pool = [p \in Processes |-> None] /\ listener = [p \in Processes |-> None]
    /\ closed = {} /\ live = {}
    /\ wire = [c \in Opened |-> <<>>] /\ pending = [c \in Opened |-> <<>>]
    /\ calls = {}
    /\ publication = [e \in Events |-> "new"] /\ through = [e \in Events |-> {}]
    /\ sentTo = [c \in Opened |-> <<>>] /\ begun = [c \in Opened |-> <<>>]
    /\ ended = {} /\ forgotten = {}

Of(p) == {p} \X Starts
StartsMade == MapThenSumSet(LAMBDA p : starts[p], Processes)
Move(p, from, to) == place[p] = from /\ place' = [place EXCEPT ![p] = to]

Drop(connections) ==
    /\ live' = live \ connections
    /\ wire' = [c \in Opened |-> IF c \in connections THEN <<>> ELSE wire[c]]
    /\ UNCHANGED sentTo

\* The connections in use for these publications are gone.
CutOff(es) ==
    /\ publication' = [e \in Events |-> IF e \in es THEN "raised" ELSE publication[e]]
    /\ through' = [e \in Events |-> IF e \in es THEN {} ELSE through[e]]

-----------------------------------------------------------------------------
(* start() and stop() *)

Subscribe(p, h) ==
    /\ h \notin handlers[p]
    /\ handlers' = [handlers EXCEPT ![p] = @ \cup {h}]
    /\ UNCHANGED <<startVars, hearVars, pending, calls, begun, ended, sendVars>>

\* There is no look at _running: a second start() goes ahead.
Start(p) ==
    /\ starts[p] + 1 \in Starts /\ StartsMade < MaxStarts
    /\ Move(p, "idle", "creating_pool")
    /\ starts' = [starts EXCEPT ![p] = @ + 1]
    /\ UNCHANGED <<pool, listener, closed, forgotten, hearVars, taskVars, sendVars>>

PoolCreated(p) ==
    /\ Move(p, "creating_pool", "connecting")
    /\ pool' = [pool EXCEPT ![p] = starts[p]]
    /\ UNCHANGED <<starts, listener, closed, forgotten, hearVars, taskVars, sendVars>>

Connected(p) ==
    /\ Move(p, "connecting", "listening")
    /\ listener' = [listener EXCEPT ![p] = starts[p]]
    /\ forgotten' = forgotten \cup ({<<p, listener[p]>>} \cap live)
    /\ UNCHANGED <<starts, pool, closed, hearVars, taskVars, sendVars>>

\* add_listener() has executed LISTEN.
Listens(p) ==
    /\ Move(p, "listening", "idle")
    /\ live' = live \cup {<<p, listener[p]>>}
    /\ UNCHANGED <<starts, pool, listener, closed, forgotten, wire, sentTo, taskVars, sendVars>>

\* start() raises at any await, and leaves behind what it has opened.
StartFails(p) ==
    /\ \E from \in {"creating_pool", "connecting", "listening"} : Move(p, from, "idle")
    /\ UNCHANGED <<starts, pool, listener, closed, forgotten, hearVars, taskVars, sendVars>>

Stop(p) ==
    /\ Move(p, "idle", "closing_listener")
    /\ UNCHANGED <<starts, pool, listener, closed, forgotten, hearVars, taskVars, sendVars>>

\* Mutant: the connection that listens is left to the garbage collector.
ListenerForgotten(p) ==
    /\ Move(p, "closing_listener", "closing_pool")
    /\ closed' = closed \cup ({<<p, pool[p]>>} \cap Opened)
    /\ UNCHANGED <<starts, pool, listener, forgotten, hearVars, taskVars, sendVars>>

\* close() of the connection has been awaited; the pool refuses from now on.
ListenerCloses(p) ==
    /\ Move(p, "closing_listener", "closing_pool")
    /\ Drop({<<p, listener[p]>>})
    /\ closed' = closed \cup ({<<p, pool[p]>>} \cap Opened)
    /\ UNCHANGED <<starts, pool, listener, forgotten, taskVars, sendVars>>

\* Pool.close() waits for the connections that are in use.
PoolCloses(p) ==
    /\ Move(p, "closing_pool", "idle")
    /\ \A e \in Events : <<p, pool[p]>> \notin through[e]
    /\ UNCHANGED <<starts, pool, listener, closed, forgotten, hearVars, taskVars, sendVars>>

\* stop() raises or is cancelled: close() of a connection aborts it first, that of a
\* pool terminates what is in use.  The bus keeps both, and the pool may be open.
StopFails(p) ==
    \/ /\ Move(p, "closing_listener", "idle")
       /\ Drop({<<p, listener[p]>>})
       /\ UNCHANGED <<starts, pool, listener, closed, forgotten, taskVars, sendVars>>
    \/ /\ Move(p, "closing_pool", "idle")
       /\ CutOff({e \in Events : <<p, pool[p]>> \in through[e]})
       /\ UNCHANGED <<starts, pool, listener, closed, forgotten, hearVars, taskVars>>

\* _keep_alive looks at _running alone: nobody notices, nobody reconnects.
ConnectionLost(c) ==
    /\ c \in live
    /\ Drop({c})
    /\ UNCHANGED <<startVars, taskVars, sendVars>>

\* The process dies, and another begins in its place with a bus of its own.
Die(p) ==
    /\ Drop(Of(p))
    /\ place' = [place EXCEPT ![p] = "idle"]
    /\ pool' = [pool EXCEPT ![p] = None] /\ listener' = [listener EXCEPT ![p] = None]
    /\ handlers' = [handlers EXCEPT ![p] = {}]
    /\ pending' = [c \in Opened |-> IF c \in Of(p) THEN <<>> ELSE pending[c]]
    /\ calls' = {call \in calls : call[1] \notin Of(p)}
    /\ CutOff({e \in Events : through[e] \cap Of(p) # {}})
    /\ forgotten' = forgotten \ Of(p)
    /\ UNCHANGED <<starts, closed, begun, ended>>

-----------------------------------------------------------------------------
(* publish() *)

\* Without a pool, or with one that is closed, it raises.
Publish(e, p) ==
    /\ publication[e] = "new"
    /\ LET usable == {<<p, pool[p]>>} \cap (Opened \ closed)
       IN /\ publication' = [publication EXCEPT ![e] = IF usable # {} THEN "executing" ELSE "raised"]
          /\ through' = [through EXCEPT ![e] = usable]
    /\ UNCHANGED <<startVars, hearVars, taskVars>>

\* The database sends the notification to every session that listens.
Send(e) ==
    /\ wire' = [c \in Opened |-> IF c \in live THEN Append(wire[c], e) ELSE wire[c]]
    /\ sentTo' = [c \in Opened |-> IF c \in live THEN Append(sentTo[c], e) ELSE sentTo[c]]
    /\ UNCHANGED live

\* The statement has ended, and its connection goes back to the pool.
Publication(e, how) ==
    /\ publication' = [publication EXCEPT ![e] = how]
    /\ through' = [through EXCEPT ![e] = {}]

Notify(e) ==
    /\ publication[e] = "executing"
    /\ Publication(e, "returned")
    /\ Send(e)
    /\ UNCHANGED <<startVars, taskVars>>

\* Logged and raised again; the statement may have been executed.
NotifyFails(e) ==
    /\ publication[e] = "executing"
    /\ Publication(e, "raised")
    /\ Send(e) \/ UNCHANGED hearVars
    /\ UNCHANGED <<startVars, taskVars>>

-----------------------------------------------------------------------------
(* Notifications *)

\* Mutant: a notification that arrives during another's handlers is ignored.
ReceiveWhenFree(c) ==
    /\ c \in live /\ wire[c] # <<>>
    /\ wire' = [wire EXCEPT ![c] = Tail(@)]
    /\ pending' = IF calls = {} THEN [pending EXCEPT ![c] = Append(@, Head(wire[c]))]
                  ELSE pending
    /\ UNCHANGED <<startVars, live, sentTo, handlers, calls, begun, ended, sendVars>>

\* _listener creates a task and returns.
Receive(c) ==
    /\ c \in live /\ wire[c] # <<>>
    /\ wire' = [wire EXCEPT ![c] = Tail(@)]
    /\ pending' = [pending EXCEPT ![c] = Append(@, Head(wire[c]))]
    /\ UNCHANGED <<startVars, live, sentTo, handlers, calls, begun, ended, sendVars>>

\* gather() of what the handlers of the topic return: none waits for another,
\* nor for those of an earlier event.
Dispatch(c, e) ==
    /\ calls' = calls \cup {<<c, e, h>> : h \in {g \in handlers[c[1]] : Topic[g] = Topic[e]}}
    /\ begun' = [begun EXCEPT ![c] = Append(@, e)]

\* Mutant: tasks run in the opposite order.
ProcessLast(c) ==
    /\ pending[c] # <<>>
    /\ Dispatch(c, Last(pending[c]))
    /\ pending' = [pending EXCEPT ![c] = Front(@)]
    /\ UNCHANGED <<startVars, hearVars, handlers, ended, sendVars>>

ProcessNotification(c) ==
    /\ pending[c] # <<>>
    /\ Dispatch(c, Head(pending[c]))
    /\ pending' = [pending EXCEPT ![c] = Tail(@)]
    /\ UNCHANGED <<startVars, hearVars, handlers, ended, sendVars>>

\* A handler returns or raises: return_exceptions=True makes no difference of it.
HandlerEnds(call) ==
    /\ call \in calls
    /\ calls' = calls \ {call}
    /\ ended' = ended \cup {call}
    /\ UNCHANGED <<startVars, hearVars, handlers, pending, begun, sendVars>>

Starting(p) == Start(p) \/ PoolCreated(p) \/ Connected(p) \/ Listens(p) \/ StartFails(p)
Stopping(p) == Stop(p) \/ ListenerCloses(p) \/ PoolCloses(p) \/ StopFails(p)

Next ==
    \/ \E p \in Processes : Starting(p) \/ Stopping(p) \/ Die(p)
    \/ \E p \in Processes, h \in Handlers : Subscribe(p, h)
    \/ \E e \in Events, p \in Processes : Publish(e, p)
    \/ \E e \in Events : Notify(e) \/ NotifyFails(e)
    \/ \E c \in Opened : ConnectionLost(c) \/ Receive(c) \/ ProcessNotification(c)
    \/ \E call \in Calls : HandlerEnds(call)

Spec == Init /\ [][Next]_vars
FairSpec ==
    /\ Spec
    /\ \A c \in Opened : WF_vars(Receive(c)) /\ WF_vars(ProcessNotification(c))
    /\ \A call \in Calls : WF_vars(HandlerEnds(call))

-----------------------------------------------------------------------------
(* Properties *)

\* Each connection's notifications reach the handlers once and in the order of the
\* NOTIFYs, although each has a task of its own.  What breaks, closes or dies costs
\* the end of what was sent to a connection, and nothing before it.
HeardInOrder == \A c \in Opened : IsPrefix(begun[c] \o pending[c], sentTo[c])

\* As long as a connection listens, no notification sent to it is lost, however
\* busy its process is.
NothingLostWhileListening ==
    \A c \in live : sentTo[c] = begun[c] \o pending[c] \o wire[c]

\* After stop() nothing of the bus listens, whatever start() it follows and wherever
\* that or an earlier stop() has failed, but connections that a later start() has
\* replaced while they listened.  (Handlers of what was heard go on.)
StoppedHearsNothing ==
    \A p \in Processes :
        place[p] = "idle" /\ <<p, pool[p]>> \in closed => Of(p) \cap live \subseteq forgotten

\* An event sent to a connection that goes on listening, in a process that lives, is
\* handled by every handler that is subscribed, even if others take their time.
NotificationsGetHandled ==
    \A c \in Opened, e \in Events, h \in Handlers :
        (c \in live /\ e \in ToSet(sentTo[c]) /\ h \in handlers[c[1]] /\ Topic[h] = Topic[e]
            /\ e \notin ToSet(begun[c]))
        ~> (<<c, e, h>> \in ended \/ c \notin live \/ h \notin handlers[c[1]])

=============================================================================
