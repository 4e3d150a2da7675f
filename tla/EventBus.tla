------------------------------ MODULE EventBus ------------------------------
(***************************************************************************)
(* What the event bus port promises to whoever publishes and subscribes:    *)
(* an event may reach a handler of its topic after it was published, once   *)
(* at most, and never behind a later one.  It need not reach it at all.     *)
(***************************************************************************)
EXTENDS Naturals, Sequences

CONSTANTS Topics, Handlers, MaxEvents

VARIABLES
    log,            \* the topics of the events published so far
    subscribers,    \* per topic
    calls           \* per event and handler, how often it was called

interface == <<log, subscribers, calls>>

Init ==
    /\ log = <<>>
    /\ subscribers = [t \in Topics |-> {}]
    /\ calls = [p \in (1 .. MaxEvents) \X Handlers |-> 0]

Publish(t) ==
    /\ log' = Append(log, t)
    /\ UNCHANGED <<subscribers, calls>>

Subscribe(t, h) ==
    /\ subscribers' = [subscribers EXCEPT ![t] = @ \cup {h}]
    /\ UNCHANGED <<log, calls>>

Deliver(e, h) ==
    /\ e \in DOMAIN log
    /\ h \in subscribers[log[e]]
    /\ \A later \in e .. Len(log) : calls[<<later, h>>] = 0
    /\ calls' = [calls EXCEPT ![<<e, h>>] = @ + 1]
    /\ UNCHANGED <<log, subscribers>>

Next ==
    \/ \E t \in Topics : Publish(t) \/ \E h \in Handlers : Subscribe(t, h)
    \/ \E e \in 1 .. MaxEvents, h \in Handlers : Deliver(e, h)

Spec == Init /\ [][Next]_interface

=============================================================================
