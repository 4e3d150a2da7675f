----------------------- MODULE PostgresEventBusProofs -----------------------
(***************************************************************************)
(* Proofs about PostgresEventBus, for any number of processes, starts,      *)
(* events and handlers.                                                     *)
(***************************************************************************)
EXTENDS PostgresEventBus, SequenceTheorems, TLAPS

-----------------------------------------------------------------------------
(* Queues *)

\* What moves from the front of one queue to the end of the queue before it
\* leaves the two together as they were.
LEMMA HeadMoves ==
    ASSUME NEW S, NEW s \in Seq(S), NEW t \in Seq(S), t # <<>>
    PROVE  /\ Append(s, Head(t)) \in Seq(S) /\ Tail(t) \in Seq(S) /\ Head(t) \in S
           /\ Append(s, Head(t)) \o Tail(t) = s \o t
<1>1. Head(t) \in S /\ Tail(t) \in Seq(S) /\ Append(s, Head(t)) \in Seq(S)
  OBVIOUS
<1>2. t = <<Head(t)>> \o Tail(t)
  OBVIOUS
<1>3. Append(s, Head(t)) = s \o <<Head(t)>>
  BY <1>1, AppendIsConcat
<1>4. (s \o <<Head(t)>>) \o Tail(t) = s \o (<<Head(t)>> \o Tail(t))
  BY <1>1, ConcatAssociative
<1> QED BY <1>1, <1>2, <1>3, <1>4

\* Three queues in a row.
LEMMA Regroup == \A s, t, u \in Seq(Events) : (s \o t) \o u = s \o (t \o u)
BY ConcatAssociative

\* An element appended to the second of two queues is at the end of both.
LEMMA AppendBehind ==
    \A s, t \in Seq(Events), e \in Events : Append(s \o t, e) = s \o Append(t, e)
<1> SUFFICES ASSUME NEW s \in Seq(Events), NEW t \in Seq(Events), NEW e \in Events
             PROVE  Append(s \o t, e) = s \o Append(t, e)
  OBVIOUS
<1>1. s \o t \in Seq(Events) /\ <<e>> \in Seq(Events)
  OBVIOUS
<1>2. Append(s \o t, e) = (s \o t) \o <<e>> /\ Append(t, e) = t \o <<e>>
  BY <1>1, AppendIsConcat
<1> QED BY <1>1, <1>2, Regroup

LEMMA PrefixOfConcat ==
    ASSUME NEW S, NEW s \in Seq(S), NEW t \in Seq(S)
    PROVE  IsPrefix(s, s \o t)
<1>1. Len(s) <= Len(s \o t)
  BY ConcatProperties, LenProperties
<1>2. CASE s = <<>>
  BY <1>1, <1>2, SubSeqEmpty DEF IsPrefix
<1>3. CASE s # <<>>
  <2>1. Len(s) \in 1 .. Len(s) /\ 1 \in 1 .. Len(s)
    BY <1>3, EmptySeq
  <2>2. SubSeq(s \o t, 1, Len(s)) = SubSeq(s, 1, Len(s))
    BY <2>1, SubSeqOfConcat1
  <2> QED BY <1>1, <2>2 DEF IsPrefix
<1> QED BY <1>2, <1>3

-----------------------------------------------------------------------------
(* The inductive invariant *)

StartPlaces == {"creating_pool", "connecting", "listening"}

\* What a start() has opened so far, and that its pool is a new one.
StartsInOrder ==
    \A p \in Processes :
        /\ pool[p] <= starts[p] /\ listener[p] <= starts[p]
        /\ place[p] \in StartPlaces => starts[p] >= 1
        /\ place[p] = "creating_pool" => pool[p] < starts[p]
        /\ place[p] \in {"connecting", "listening"} => pool[p] = starts[p]
        /\ place[p] = "listening" => listener[p] = starts[p]
        /\ \A k \in Starts : <<p, k>> \in closed =>
            k <= starts[p] /\ (place[p] \in StartPlaces => k < starts[p])

Silent(c) ==
    c \notin live /\ wire[c] = <<>> /\ sentTo[c] = <<>> /\ begun[c] = <<>> /\ pending[c] = <<>>

\* Nothing was ever sent to a connection that does not listen yet.
FutureIsSilent ==
    \A p \in Processes, k \in Starts :
        k > starts[p] \/ (k = starts[p] /\ place[p] \in StartPlaces) => Silent(<<p, k>>)

\* What listens is the connection the bus knows, or one it has forgotten; and the
\* one it knows is closed before the pool.
OneEar ==
    \A p \in Processes :
        /\ \A k \in Starts : <<p, k>> \in live => k = listener[p] \/ <<p, k>> \in forgotten
        /\ <<p, listener[p]>> \in live => <<p, pool[p]>> \notin closed

\* What was sent has been handled, waits in a task, or comes after that: on the
\* wire, as long as the connection listens.
NothingSkipped ==
    \A c \in Opened : \E rest \in Seq(Events) :
        /\ sentTo[c] = (begun[c] \o pending[c]) \o rest
        /\ c \in live => rest = wire[c]

IInv == TypeOK /\ StartsInOrder /\ FutureIsSilent /\ OneEar /\ NothingSkipped

LEMMA InitIInv == Init => IInv
<1> SUFFICES ASSUME Init PROVE IInv
  OBVIOUS
<1> USE PostgresBusAssumption DEF Init, None
<1>1. TypeOK
  <2>1. <<>> \in Seq(Events)
    OBVIOUS
  <2> QED BY <2>1 DEF TypeOK, Places
<1>2. StartsInOrder /\ FutureIsSilent /\ OneEar
  BY DEF StartsInOrder, FutureIsSilent, OneEar, StartPlaces, Silent, Opened, Starts
<1>3. NothingSkipped
  <2> SUFFICES ASSUME NEW c \in Opened
               PROVE  sentTo[c] = (begun[c] \o pending[c]) \o <<>> /\ <<>> = wire[c] /\ <<>> \in Seq(Events)
    BY DEF NothingSkipped
  <2> QED BY ConcatEmptySeq, EmptySeq
<1> QED BY <1>1, <1>2, <1>3 DEF IInv

LEMMA TypesStay == TypeOK /\ StartsInOrder /\ [Next]_vars => TypeOK'
<1> SUFFICES ASSUME TypeOK, StartsInOrder, [Next]_vars PROVE TypeOK'
  OBVIOUS
<1> USE PostgresBusAssumption DEF TypeOK, startVars, hearVars, taskVars, sendVars
<1>1. ASSUME NEW p \in Processes, Starting(p) PROVE TypeOK'
  <2>1. CASE Start(p)
    BY <2>1 DEF Start, Move, Places, Starts
  <2>2. CASE PoolCreated(p)
    BY <2>2 DEF PoolCreated, Move, Places
  <2>3. CASE Connected(p)
    BY <2>3 DEF Connected, Move, Places
  <2>4. CASE Listens(p)
    <3>1. <<p, listener[p]>> \in Opened
      BY <2>4 DEF Listens, Move, StartsInOrder, StartPlaces, Opened, Starts
    <3> QED BY <2>4, <3>1 DEF Listens, Move, Places
  <2>5. CASE StartFails(p)
    BY <2>5 DEF StartFails, Move, Places
  <2> QED BY <1>1, <2>1, <2>2, <2>3, <2>4, <2>5 DEF Starting
<1>2. ASSUME NEW p \in Processes, Stopping(p) PROVE TypeOK'
  <2>1. CASE Stop(p)
    BY <2>1 DEF Stop, Move, Places
  <2>2. CASE ListenerCloses(p)
    <3>1. <<>> \in Seq(Events)
      OBVIOUS
    <3> QED BY <2>2, <3>1 DEF ListenerCloses, Move, Places, Drop
  <2>3. CASE PoolCloses(p)
    BY <2>3 DEF PoolCloses, Move, Places
  <2>4. CASE StopFails(p)
    <3>1. <<>> \in Seq(Events)
      OBVIOUS
    <3>2. /\ place' \in [Processes -> Places]
          /\ UNCHANGED <<starts, pool, listener, closed, forgotten, taskVars>>
      BY <2>4 DEF StopFails, Move, Places
    <3>3. live' \in SUBSET Opened /\ wire' \in [Opened -> Seq(Events)] /\ sentTo' = sentTo
      BY <2>4, <3>1 DEF StopFails, Drop
    <3>4. /\ publication' \in [Events -> {"new", "executing", "returned", "raised"}]
          /\ through' \in [Events -> SUBSET Opened]
      BY <2>4 DEF StopFails, CutOff
    <3> QED BY <3>2, <3>3, <3>4
  <2> QED BY <1>2, <2>1, <2>2, <2>3, <2>4 DEF Stopping
<1>3. ASSUME NEW p \in Processes, Die(p) PROVE TypeOK'
  <2>1. /\ place' \in [Processes -> Places]
        /\ pool' \in [Processes -> 0 .. MaxStarts] /\ listener' \in [Processes -> 0 .. MaxStarts]
    BY <1>3 DEF Die, Places, None
  <2>2. /\ live' \in SUBSET Opened /\ wire' \in [Opened -> Seq(Events)]
        /\ pending' \in [Opened -> Seq(Events)]
    <3>1. <<>> \in Seq(Events)
      OBVIOUS
    <3> QED BY <1>3, <3>1 DEF Die, Drop
  <2>3. handlers' \in [Processes -> SUBSET Handlers] /\ calls' \in SUBSET Calls
    BY <1>3 DEF Die
  <2>4. /\ publication' \in [Events -> {"new", "executing", "returned", "raised"}]
        /\ through' \in [Events -> SUBSET Opened]
    BY <1>3 DEF Die, CutOff
  <2>5. forgotten' \in SUBSET Opened /\ sentTo' = sentTo
    BY <1>3 DEF Die, Drop
  <2> QED BY <1>3, <2>1, <2>2, <2>3, <2>4, <2>5 DEF Die
<1>4. ASSUME NEW p \in Processes, NEW h \in Handlers, Subscribe(p, h) PROVE TypeOK'
  BY <1>4 DEF Subscribe
<1>5. ASSUME NEW e \in Events, NEW p \in Processes, Publish(e, p) PROVE TypeOK'
  BY <1>5 DEF Publish
<1>6. ASSUME NEW e \in Events, Notify(e) \/ NotifyFails(e) PROVE TypeOK'
  <2>1. Send(e) \/ UNCHANGED hearVars
    BY <1>6 DEF Notify, NotifyFails
  <2>2. live' = live /\ wire' \in [Opened -> Seq(Events)] /\ sentTo' \in [Opened -> Seq(Events)]
    <3>1. ASSUME NEW c \in Opened
          PROVE  Append(wire[c], e) \in Seq(Events) /\ Append(sentTo[c], e) \in Seq(Events)
      OBVIOUS
    <3>2. CASE Send(e) BY <3>1, <3>2 DEF Send
    <3>3. CASE UNCHANGED hearVars BY <3>3
    <3> QED BY <2>1, <3>2, <3>3
  <2>3. /\ publication' \in [Events -> {"new", "executing", "returned", "raised"}]
        /\ through' \in [Events -> SUBSET Opened]
    BY <1>6 DEF Notify, NotifyFails, Publication
  <2> QED BY <1>6, <2>2, <2>3 DEF Notify, NotifyFails
<1>7. ASSUME NEW c \in Opened, ConnectionLost(c) PROVE TypeOK'
  BY <1>7 DEF ConnectionLost, Drop
<1>8. ASSUME NEW c \in Opened, Receive(c) PROVE TypeOK'
  <2>1. /\ Append(pending[c], Head(wire[c])) \in Seq(Events) /\ Tail(wire[c]) \in Seq(Events)
    BY <1>8, HeadMoves DEF Receive
  <2> QED BY <1>8, <2>1 DEF Receive
<1>9. ASSUME NEW c \in Opened, ProcessNotification(c) PROVE TypeOK'
  <2>1. /\ Append(begun[c], Head(pending[c])) \in Seq(Events) /\ Tail(pending[c]) \in Seq(Events)
        /\ Head(pending[c]) \in Events
    BY <1>9, HeadMoves DEF ProcessNotification
  <2>2. \A h \in Handlers : <<c, Head(pending[c]), h>> \in Calls
    BY <2>1 DEF Calls
  <2>3. handlers[c[1]] \subseteq Handlers
    BY DEF Opened
  <2>4. calls' \subseteq Calls
    BY <1>9, <2>2, <2>3 DEF ProcessNotification, Dispatch
  <2>5. begun' \in [Opened -> Seq(Events)] /\ pending' \in [Opened -> Seq(Events)]
    BY <1>9, <2>1 DEF ProcessNotification, Dispatch
  <2> QED BY <1>9, <2>4, <2>5 DEF ProcessNotification
<1>10. ASSUME NEW call \in Calls, HandlerEnds(call) PROVE TypeOK'
  BY <1>10 DEF HandlerEnds
<1>11. CASE UNCHANGED vars
  BY <1>11 DEF vars
<1> QED BY <1>1, <1>2, <1>3, <1>4, <1>5, <1>6, <1>7, <1>8, <1>9, <1>10, <1>11 DEF Next

LEMMA StartsStayInOrder == TypeOK /\ StartsInOrder /\ [Next]_vars => StartsInOrder'
<1> SUFFICES ASSUME TypeOK, StartsInOrder, [Next]_vars PROVE StartsInOrder'
  OBVIOUS
<1>1. ASSUME UNCHANGED <<place, starts, pool, listener, closed>> PROVE StartsInOrder'
  BY <1>1 DEF StartsInOrder
<1> USE PostgresBusAssumption DEF TypeOK, StartsInOrder, StartPlaces, Move
<1>2. ASSUME NEW p \in Processes, Starting(p) PROVE StartsInOrder'
  <2>1. CASE Start(p) BY <2>1 DEF Start, Starts
  <2>2. CASE PoolCreated(p) BY <2>2 DEF PoolCreated
  <2>3. CASE Connected(p) BY <2>3 DEF Connected
  <2>4. CASE Listens(p) BY <2>4 DEF Listens
  <2>5. CASE StartFails(p) BY <2>5 DEF StartFails
  <2> QED BY <1>2, <2>1, <2>2, <2>3, <2>4, <2>5 DEF Starting
<1>3. ASSUME NEW p \in Processes, Stopping(p) PROVE StartsInOrder'
  <2>1. CASE Stop(p) BY <2>1 DEF Stop
  <2>2. CASE ListenerCloses(p)
    <3>1. \A q \in Processes, k \in Starts : <<q, k>> \in closed' =>
            <<q, k>> \in closed \/ (q = p /\ k = pool[p])
      BY <2>2 DEF ListenerCloses
    <3> QED BY <2>2, <3>1 DEF ListenerCloses
  <2>3. CASE PoolCloses(p) BY <2>3 DEF PoolCloses
  <2>4. CASE StopFails(p) BY <2>4 DEF StopFails
  <2> QED BY <1>3, <2>1, <2>2, <2>3, <2>4 DEF Stopping
<1>4. ASSUME NEW p \in Processes, Die(p) PROVE StartsInOrder'
  BY <1>4 DEF Die, None
<1>5. ASSUME Next, UNCHANGED startVars PROVE StartsInOrder'
  BY <1>1, <1>5 DEF startVars
<1>6. CASE UNCHANGED vars
  BY <1>1, <1>6 DEF vars, startVars
<1> QED
  BY <1>2, <1>3, <1>4, <1>5, <1>6
  DEF Next, Subscribe, Publish, Notify, NotifyFails, ConnectionLost, Receive,
      ProcessNotification, HandlerEnds

LEMMA FutureStaysSilent ==
    TypeOK /\ StartsInOrder /\ FutureIsSilent /\ [Next]_vars => FutureIsSilent'
<1> SUFFICES ASSUME TypeOK, StartsInOrder, FutureIsSilent, [Next]_vars,
                    NEW p \in Processes, NEW k \in Starts,
                    k > starts'[p] \/ (k = starts'[p] /\ place'[p] \in StartPlaces)
             PROVE  Silent(<<p, k>>)'
  BY DEF FutureIsSilent
<1> DEFINE c == <<p, k>>
           Ahead == k > starts[p] \/ (k = starts[p] /\ place[p] \in StartPlaces)
<1> USE PostgresBusAssumption DEF TypeOK, Move, startVars, hearVars, taskVars, sendVars
<1>1. c \in Opened /\ k \in Nat /\ starts[p] \in Nat
  BY DEF Opened, Starts
<1>2. Ahead
  <2>1. ASSUME NEW q \in Processes, Starting(q) PROVE Ahead
    BY <1>1, <2>1 DEF Starting, Start, PoolCreated, Connected, Listens, StartFails, StartPlaces
  <2>2. ASSUME NEW q \in Processes, Stopping(q) PROVE Ahead
    BY <1>1, <2>2 DEF Stopping, Stop, ListenerCloses, PoolCloses, StopFails, StartPlaces
  <2>3. ASSUME NEW q \in Processes, Die(q) PROVE Ahead
    BY <1>1, <2>3 DEF Die, StartPlaces
  <2>4. ASSUME UNCHANGED <<place, starts>> PROVE Ahead
    BY <2>4
  <2> QED
    BY <2>1, <2>2, <2>3, <2>4
    DEF Next, vars, Subscribe, Publish, Notify, NotifyFails, ConnectionLost, Receive,
        ProcessNotification, HandlerEnds
<1>3. Silent(c)
  BY <1>2 DEF FutureIsSilent
<1>4. ASSUME NEW q \in Processes, Starting(q) PROVE Silent(c)'
  <2>1. CASE Listens(q)
    <3>1. c # <<q, listener[q]>>
      BY <1>1, <2>1 DEF Listens, StartsInOrder, StartPlaces
    <3> QED BY <1>1, <1>3, <2>1, <3>1 DEF Listens, Silent
  <2>2. CASE ~Listens(q)
    BY <1>3, <1>4, <2>2 DEF Starting, Start, PoolCreated, Connected, StartFails, Silent
  <2> QED BY <2>1, <2>2
<1>5. ASSUME NEW q \in Processes, Stopping(q) PROVE Silent(c)'
  BY <1>1, <1>3, <1>5 DEF Stopping, Stop, ListenerCloses, PoolCloses, StopFails, Drop, Silent
<1>6. ASSUME NEW q \in Processes, Die(q) PROVE Silent(c)'
  BY <1>1, <1>3, <1>6 DEF Die, Drop, Silent
<1>7. ASSUME NEW q \in Processes, NEW h \in Handlers, Subscribe(q, h) PROVE Silent(c)'
  BY <1>3, <1>7 DEF Subscribe, Silent
<1>8. ASSUME NEW e \in Events, NEW q \in Processes, Publish(e, q) PROVE Silent(c)'
  BY <1>3, <1>8 DEF Publish, Silent
<1>9. ASSUME NEW e \in Events, Notify(e) \/ NotifyFails(e) PROVE Silent(c)'
  BY <1>1, <1>3, <1>9 DEF Notify, NotifyFails, Send, Silent
<1>10. ASSUME NEW d \in Opened, ConnectionLost(d) PROVE Silent(c)'
  BY <1>1, <1>3, <1>10 DEF ConnectionLost, Drop, Silent
<1>11. ASSUME NEW d \in Opened, Receive(d) PROVE Silent(c)'
  BY <1>1, <1>3, <1>11 DEF Receive, Silent
<1>12. ASSUME NEW d \in Opened, ProcessNotification(d) PROVE Silent(c)'
  BY <1>1, <1>3, <1>12 DEF ProcessNotification, Dispatch, Silent
<1>13. ASSUME NEW call \in Calls, HandlerEnds(call) PROVE Silent(c)'
  BY <1>3, <1>13 DEF HandlerEnds, Silent
<1>14. CASE UNCHANGED vars
  BY <1>3, <1>14 DEF vars, Silent
<1> QED
  BY <1>4, <1>5, <1>6, <1>7, <1>8, <1>9, <1>10, <1>11, <1>12, <1>13, <1>14 DEF Next

LEMMA OneEarStays ==
    TypeOK /\ StartsInOrder /\ FutureIsSilent /\ OneEar /\ [Next]_vars => OneEar'
<1> DEFINE Known(q) == \A k \in Starts :
                <<q, k>> \in live => k = listener[q] \/ <<q, k>> \in forgotten
           PoolFirst(q) == <<q, listener[q]>> \in live => <<q, pool[q]>> \notin closed
<1> SUFFICES ASSUME TypeOK, StartsInOrder, FutureIsSilent, OneEar, [Next]_vars,
                    NEW p \in Processes
             PROVE  Known(p)' /\ PoolFirst(p)'
  BY DEF OneEar
<1> USE PostgresBusAssumption DEF TypeOK, Move, startVars, hearVars, taskVars, sendVars
<1>1. Known(p) /\ PoolFirst(p)
  BY DEF OneEar
<1>2. ASSUME UNCHANGED <<pool, listener, closed, forgotten>>, live' \subseteq live
      PROVE  Known(p)' /\ PoolFirst(p)'
  BY <1>1, <1>2
<1>3. ASSUME NEW q \in Processes, Starting(q) PROVE Known(p)' /\ PoolFirst(p)'
  <2>1. CASE Start(q) \/ StartFails(q)
    BY <1>2, <2>1 DEF Start, StartFails
  <2>2. CASE PoolCreated(q)
    <3>1. <<q, starts[q]>> \notin closed
      BY <2>2 DEF PoolCreated, StartsInOrder, StartPlaces, Opened, Starts
    <3> QED BY <1>1, <2>2, <3>1 DEF PoolCreated
  <2>3. CASE Connected(q)
    <3>1. <<q, starts[q]>> \notin live
      BY <2>3 DEF Connected, FutureIsSilent, StartPlaces, Silent, Opened, Starts
    <3> QED BY <1>1, <2>3, <3>1 DEF Connected
  <2>4. CASE Listens(q)
    <3>1. pool[q] = starts[q] /\ starts[q] \in Starts
      BY <2>4 DEF Listens, StartsInOrder, StartPlaces, Starts
    <3>2. <<q, pool[q]>> \notin closed
      BY <2>4, <3>1 DEF Listens, StartsInOrder, StartPlaces, Starts
    <3> QED BY <1>1, <2>4, <3>2 DEF Listens
  <2> QED BY <1>3, <2>1, <2>2, <2>3, <2>4 DEF Starting
<1>4. ASSUME NEW q \in Processes, Stopping(q) PROVE Known(p)' /\ PoolFirst(p)'
  <2>1. CASE Stop(q) \/ PoolCloses(q)
    BY <1>2, <2>1 DEF Stop, PoolCloses
  <2>2. CASE ListenerCloses(q)
    BY <1>1, <2>2 DEF ListenerCloses, Drop
  <2>3. CASE StopFails(q)
    <3>1. live' \subseteq live
      BY <2>3 DEF StopFails, Drop
    <3> QED BY <1>2, <2>3, <3>1 DEF StopFails
  <2> QED BY <1>4, <2>1, <2>2, <2>3 DEF Stopping
<1>5. ASSUME NEW q \in Processes, Die(q) PROVE Known(p)' /\ PoolFirst(p)'
  <2>1. CASE p = q
    <3>1. \A k \in Nat : <<p, k>> \notin live'
      BY <1>5, <2>1 DEF Die, Drop, Of, Opened
    <3>2. listener'[p] \in Nat
      BY <1>5, <2>1 DEF Die, None
    <3> QED BY <3>1, <3>2 DEF Starts
  <2>2. CASE p # q
    BY <1>1, <1>5, <2>2 DEF Die, Drop, Of
  <2> QED BY <2>1, <2>2
<1>6. ASSUME UNCHANGED startVars, Next,
             ~\E q \in Processes : Starting(q) \/ Stopping(q) \/ Die(q)
      PROVE  Known(p)' /\ PoolFirst(p)'
  <2>1. live' \subseteq live
    BY <1>6
    DEF Next, Subscribe, Publish, Notify, NotifyFails, Send, ConnectionLost, Drop, Receive,
        ProcessNotification, HandlerEnds
  <2> QED BY <1>2, <1>6, <2>1
<1>7. CASE UNCHANGED vars
  BY <1>2, <1>7 DEF vars
<1> QED
  BY <1>3, <1>4, <1>5, <1>6, <1>7
  DEF Next, Subscribe, Publish, Notify, NotifyFails, ConnectionLost, Receive,
      ProcessNotification, HandlerEnds

\* One connection's queues before and after a step.
LEMMA NothingIsSkipped ==
    TypeOK /\ StartsInOrder /\ FutureIsSilent /\ NothingSkipped /\ [Next]_vars => NothingSkipped'
<1> DEFINE Whole(c, rest) ==
      /\ sentTo[c] = (begun[c] \o pending[c]) \o rest
      /\ c \in live => rest = wire[c]
<1> SUFFICES ASSUME TypeOK, StartsInOrder, FutureIsSilent, NothingSkipped, [Next]_vars,
                    NEW c \in Opened
             PROVE  \E rest \in Seq(Events) : Whole(c, rest)'
  BY DEF NothingSkipped
<1> DEFINE After(r) ==
      /\ sentTo'[c] = (begun'[c] \o pending'[c]) \o r
      /\ c \in live' => r = wire'[c]
<1> USE PostgresBusAssumption DEF startVars, hearVars, taskVars, sendVars
<1>1. PICK rest \in Seq(Events) : Whole(c, rest)
  BY DEF NothingSkipped
<1>2. /\ begun[c] \in Seq(Events) /\ pending[c] \in Seq(Events) /\ wire[c] \in Seq(Events)
      /\ begun[c] \o pending[c] \in Seq(Events)
  BY DEF TypeOK
<1>3. ASSUME UNCHANGED <<sentTo, begun, pending>>, c \in live' => c \in live /\ wire'[c] = wire[c]
      PROVE  After(rest)
  BY <1>1, <1>3
<1>4. ASSUME NEW p \in Processes, Starting(p) PROVE \E r \in Seq(Events) : After(r)
  <2>1. CASE Listens(p) /\ c = <<p, listener[p]>>
    <3>1. listener[p] = starts[p] /\ listener[p] \in Starts /\ place[p] \in StartPlaces
      BY <2>1 DEF Listens, Move, StartsInOrder, StartPlaces, Starts, TypeOK
    <3>2. Silent(c)
      BY <2>1, <3>1 DEF FutureIsSilent
    <3>3. sentTo'[c] = <<>> /\ begun'[c] = <<>> /\ pending'[c] = <<>> /\ wire'[c] = <<>>
      BY <2>1, <3>2 DEF Listens, Silent
    <3>4. After(<<>>) /\ <<>> \in Seq(Events)
      BY <3>3
    <3> QED BY <3>4
  <2>2. CASE ~(Listens(p) /\ c = <<p, listener[p]>>)
    <3>1. UNCHANGED <<sentTo, begun, pending, wire>> /\ (c \in live' => c \in live)
      BY <1>4, <2>2 DEF Starting, Start, PoolCreated, Connected, Listens, StartFails
    <3> QED BY <1>3, <3>1
  <2> QED BY <2>1, <2>2
<1>5. ASSUME NEW p \in Processes, Stopping(p) PROVE After(rest)
  BY <1>3, <1>5 DEF Stopping, Stop, ListenerCloses, PoolCloses, StopFails, Drop
<1>6. ASSUME NEW p \in Processes, Die(p) PROVE \E r \in Seq(Events) : After(r)
  <2>1. CASE c \in Of(p)
    <3>1. c \notin live' /\ pending'[c] = <<>> /\ UNCHANGED <<sentTo, begun>>
      BY <1>6, <2>1 DEF Die, Drop
    <3>2. pending[c] \o rest \in Seq(Events) /\ begun[c] \o <<>> = begun[c]
      BY <1>2, ConcatProperties, ConcatEmptySeq
    <3>3. sentTo[c] = begun[c] \o (pending[c] \o rest)
      <4>1. PICK b \in Seq(Events), q \in Seq(Events) : b = begun[c] /\ q = pending[c]
        BY <1>2
      <4>2. (b \o q) \o rest = b \o (q \o rest)
        BY Regroup, Zenon
      <4> QED BY <1>1, <4>1, <4>2
    <3>4. After(pending[c] \o rest)
      BY <3>1, <3>2, <3>3
    <3> QED BY <3>2, <3>4
  <2>2. CASE c \notin Of(p)
    <3>1. After(rest)
      BY <1>1, <1>6, <2>2 DEF Die, Drop
    <3> QED BY <3>1
  <2> QED BY <2>1, <2>2
<1>7. ASSUME NEW e \in Events, Notify(e) \/ NotifyFails(e)
      PROVE  \E r \in Seq(Events) : After(r)
  <2>1. CASE Send(e) /\ UNCHANGED taskVars /\ c \in live
    <3>1. /\ sentTo'[c] = Append(sentTo[c], e) /\ wire'[c] = Append(wire[c], e)
          /\ UNCHANGED <<begun, pending>>
      BY <2>1 DEF Send, TypeOK
    <3>2. Append(sentTo[c], e) = (begun[c] \o pending[c]) \o Append(wire[c], e)
      <4>1. PICK s \in Seq(Events), w \in Seq(Events) :
              s = begun[c] \o pending[c] /\ w = wire[c]
        BY <1>2
      <4>2. Append(s \o w, e) = s \o Append(w, e)
        BY AppendBehind, Zenon
      <4> QED BY <1>1, <2>1, <4>1, <4>2
    <3>3. After(Append(wire[c], e)) /\ Append(wire[c], e) \in Seq(Events)
      BY <1>2, <3>1, <3>2
    <3> QED BY <3>3
  <2>2. CASE Send(e) /\ UNCHANGED taskVars /\ c \notin live
    <3>1. After(rest)
      BY <1>1, <2>2 DEF Send, TypeOK
    <3> QED BY <3>1
  <2>3. CASE UNCHANGED hearVars /\ UNCHANGED taskVars
    BY <1>3, <2>3
  <2> QED BY <1>7, <2>1, <2>2, <2>3 DEF Notify, NotifyFails
<1>8. ASSUME NEW d \in Opened, Receive(d) PROVE \E r \in Seq(Events) : After(r)
  <2>1. CASE c = d
    <3>1. /\ c \in live /\ wire[c] # <<>> /\ UNCHANGED <<live, sentTo, begun>>
          /\ wire'[c] = Tail(wire[c]) /\ pending'[c] = Append(pending[c], Head(wire[c]))
      BY <1>8, <2>1 DEF Receive, TypeOK
    <3>2. /\ Append(pending[c], Head(wire[c])) \in Seq(Events) /\ Tail(wire[c]) \in Seq(Events)
          /\ Append(pending[c], Head(wire[c])) \o Tail(wire[c]) = pending[c] \o wire[c]
      <4>1. PICK s \in Seq(Events), t \in Seq(Events) : s = pending[c] /\ t = wire[c]
        BY <1>2
      <4>2. t # <<>>
        BY <3>1, <4>1
      <4>3. /\ Append(s, Head(t)) \in Seq(Events) /\ Tail(t) \in Seq(Events)
            /\ Append(s, Head(t)) \o Tail(t) = s \o t
        BY <4>2, HeadMoves, Zenon
      <4> QED BY <4>1, <4>3
    <3>3. sentTo[c] = (begun[c] \o Append(pending[c], Head(wire[c]))) \o Tail(wire[c])
      <4>1. PICK b \in Seq(Events), q \in Seq(Events), q1 \in Seq(Events), w1 \in Seq(Events) :
              /\ b = begun[c] /\ q = pending[c]
              /\ q1 = Append(pending[c], Head(wire[c])) /\ w1 = Tail(wire[c])
        BY <1>2, <3>2
      <4>2. (b \o q) \o rest = b \o (q \o rest)
        BY Regroup, Zenon
      <4>3. (b \o q1) \o w1 = b \o (q1 \o w1)
        BY Regroup, Zenon
      <4>4. rest = wire[c] /\ q1 \o w1 = q \o rest
        BY <1>1, <3>1, <3>2, <4>1
      <4> QED BY <1>1, <4>1, <4>2, <4>3, <4>4
    <3>4. After(Tail(wire[c]))
      BY <3>1, <3>3
    <3> QED BY <3>2, <3>4
  <2>2. CASE c # d
    <3>1. After(rest)
      BY <1>1, <1>8, <2>2 DEF Receive, TypeOK
    <3> QED BY <3>1
  <2> QED BY <2>1, <2>2
<1>9. ASSUME NEW d \in Opened, ProcessNotification(d) PROVE After(rest)
  <2>1. CASE c = d
    <3>1. /\ pending[c] # <<>> /\ UNCHANGED <<live, sentTo, wire>>
          /\ begun'[c] = Append(begun[c], Head(pending[c])) /\ pending'[c] = Tail(pending[c])
      BY <1>9, <2>1 DEF ProcessNotification, Dispatch, TypeOK
    <3>2. Append(begun[c], Head(pending[c])) \o Tail(pending[c]) = begun[c] \o pending[c]
      <4>1. PICK s \in Seq(Events), t \in Seq(Events) : s = begun[c] /\ t = pending[c]
        BY <1>2
      <4>2. t # <<>>
        BY <3>1, <4>1
      <4>3. /\ Append(s, Head(t)) \in Seq(Events) /\ Tail(t) \in Seq(Events)
            /\ Append(s, Head(t)) \o Tail(t) = s \o t
        BY <4>2, HeadMoves, Zenon
      <4> QED BY <4>1, <4>3
    <3> QED BY <1>1, <3>1, <3>2
  <2>2. CASE c # d
    BY <1>1, <1>9, <2>2 DEF ProcessNotification, Dispatch, TypeOK
  <2> QED BY <2>1, <2>2
<1>10. ASSUME NEW d \in Opened, ConnectionLost(d) PROVE After(rest)
  BY <1>3, <1>10 DEF ConnectionLost, Drop
<1>11. ASSUME UNCHANGED <<hearVars, begun, pending>> PROVE After(rest)
  BY <1>3, <1>11
<1> QED
  BY <1>4, <1>5, <1>6, <1>7, <1>8, <1>9, <1>10, <1>11
  DEF Next, vars, Subscribe, Publish, HandlerEnds

LEMMA StepIInv == IInv /\ [Next]_vars => IInv'
BY TypesStay, StartsStayInOrder, FutureStaysSilent, OneEarStays, NothingIsSkipped DEF IInv

THEOREM Invariant == Spec => []IInv
BY InitIInv, StepIInv, PTL DEF Spec

-----------------------------------------------------------------------------
(* Theorems *)

\* The state of every process, connection and event is of its type.
THEOREM TypesAreCorrect == Spec => []TypeOK
<1>1. IInv => TypeOK
  BY DEF IInv
<1> QED BY <1>1, Invariant, PTL

\* Handlers hear each connection in the order of the NOTIFYs and once, and nothing
\* is missing before the last one, through stops, lost connections and deaths.
THEOREM ListenersHearInOrder == Spec => []HeardInOrder
<1>1. IInv => HeardInOrder
  <2> SUFFICES ASSUME IInv, NEW c \in Opened
               PROVE  IsPrefix(begun[c] \o pending[c], sentTo[c])
    BY DEF HeardInOrder
  <2>1. PICK rest \in Seq(Events) : sentTo[c] = (begun[c] \o pending[c]) \o rest
    BY DEF IInv, NothingSkipped
  <2>2. begun[c] \o pending[c] \in Seq(Events)
    BY DEF IInv, TypeOK
  <2> QED BY <2>1, <2>2, PrefixOfConcat
<1> QED BY <1>1, Invariant, PTL

\* What was sent to a connection that listens is handled, or waits for it.
THEOREM ListenersLoseNothing == Spec => []NothingLostWhileListening
<1>1. IInv => NothingLostWhileListening
  <2> SUFFICES ASSUME IInv, NEW c \in live
               PROVE  sentTo[c] = begun[c] \o pending[c] \o wire[c]
    BY DEF NothingLostWhileListening
  <2>1. c \in Opened
    BY DEF IInv, TypeOK
  <2> QED BY <2>1 DEF IInv, NothingSkipped
<1> QED BY <1>1, Invariant, PTL

\* A bus that is stopped is deaf, wherever the start() or stop() before has failed,
\* but for connections it had already forgotten.
THEOREM StopIsDeaf == Spec => []StoppedHearsNothing
<1>1. IInv => StoppedHearsNothing
  <2> SUFFICES ASSUME IInv, NEW p \in Processes, <<p, pool[p]>> \in closed,
                      NEW c \in Of(p) \cap live
               PROVE  c \in forgotten
    BY DEF StoppedHearsNothing
  <2>1. PICK k \in Starts : c = <<p, k>>
    BY DEF Of
  <2> QED BY <2>1 DEF IInv, OneEar
<1> QED BY <1>1, Invariant, PTL

=============================================================================
