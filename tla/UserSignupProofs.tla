-------------------------- MODULE UserSignupProofs --------------------------
(***************************************************************************)
(* Proofs about UserSignup, for any number of users and processes.          *)
(***************************************************************************)
EXTENDS UserSignup, TLAPS

-----------------------------------------------------------------------------
(* Queues: what Append and Tail do to the set of a queue's elements, and to *)
(* a queue without duplicates.                                              *)

\* publish() appends, and get() takes the head.
LEMMA AppendSet ==
    ASSUME NEW S, NEW s \in Seq(S), NEW e \in S
    PROVE  /\ Append(s, e) \in Seq(S)
           /\ ToSet(Append(s, e)) = ToSet(s) \cup {e}
<1>1. /\ Append(s, e) \in Seq(S)
      /\ DOMAIN s = 1 .. Len(s)
      /\ Len(s) \in Nat
      /\ DOMAIN Append(s, e) = 1 .. Len(s) + 1
      /\ \A i \in 1 .. Len(s) : Append(s, e)[i] = s[i]
      /\ Append(s, e)[Len(s) + 1] = e
  OBVIOUS
<1>2. 1 .. Len(s) + 1 = (1 .. Len(s)) \cup {Len(s) + 1}
  BY <1>1
<1> QED BY <1>1, <1>2 DEF ToSet

LEMMA HeadSet ==
    ASSUME NEW S, NEW s \in Seq(S), s # <<>>
    PROVE  /\ Head(s) \in S
           /\ Tail(s) \in Seq(S)
           /\ ToSet(s) = ToSet(Tail(s)) \cup {Head(s)}
<1>1. /\ Head(s) \in S /\ Tail(s) \in Seq(S)
      /\ Len(s) \in Nat \ {0}
      /\ DOMAIN s = 1 .. Len(s)
      /\ DOMAIN Tail(s) = 1 .. Len(s) - 1
      /\ Head(s) = s[1]
      /\ \A i \in 1 .. Len(s) - 1 : Tail(s)[i] = s[i + 1]
  OBVIOUS
<1>2. ASSUME NEW i \in 1 .. Len(s) PROVE s[i] \in ToSet(Tail(s)) \cup {Head(s)}
  <2>1. CASE i = 1 BY <1>1, <2>1
  <2>2. CASE i # 1
    <3>1. i - 1 \in 1 .. Len(s) - 1 /\ Tail(s)[i - 1] = s[i]
      BY <1>1, <2>2
    <3> QED BY <1>1, <3>1 DEF ToSet
  <2> QED BY <2>1, <2>2
<1>3. ASSUME NEW i \in 1 .. Len(s) - 1 PROVE Tail(s)[i] \in ToSet(s)
  <2>1. i + 1 \in 1 .. Len(s) /\ Tail(s)[i] = s[i + 1]
    BY <1>1
  <2> QED BY <1>1, <2>1 DEF ToSet
<1> QED BY <1>1, <1>2, <1>3 DEF ToSet

LEMMA EmptySet == ToSet(<<>>) = {}
BY DEF ToSet

LEMMA AppendFresh ==
    ASSUME NEW S, NEW s \in Seq(S), NEW e \in S, IsInjective(s), e \notin ToSet(s)
    PROVE  IsInjective(Append(s, e))
<1>1. /\ DOMAIN s = 1 .. Len(s)
      /\ Len(s) \in Nat
      /\ DOMAIN Append(s, e) = 1 .. Len(s) + 1
      /\ \A i \in 1 .. Len(s) : Append(s, e)[i] = s[i]
      /\ Append(s, e)[Len(s) + 1] = e
  OBVIOUS
<1>2. ASSUME NEW i \in 1 .. Len(s) PROVE s[i] # e
  BY <1>1 DEF ToSet
<1>3. ASSUME NEW i \in 1 .. Len(s) + 1, NEW j \in 1 .. Len(s) + 1,
             Append(s, e)[i] = Append(s, e)[j]
      PROVE  i = j
  <2>1. /\ i \in 1 .. Len(s) \/ i = Len(s) + 1
        /\ j \in 1 .. Len(s) \/ j = Len(s) + 1
    BY <1>1
  <2>2. \A k, l \in 1 .. Len(s) : s[k] = s[l] => k = l
    BY <1>1 DEF IsInjective
  <2> QED BY <1>1, <1>2, <1>3, <2>1, <2>2
<1>4. \A i, j \in DOMAIN Append(s, e) : Append(s, e)[i] = Append(s, e)[j] => i = j
  BY <1>1, <1>3
<1> QED BY <1>4, Zenon DEF IsInjective

LEMMA TailForgets ==
    ASSUME NEW S, NEW s \in Seq(S), s # <<>>, IsInjective(s)
    PROVE  IsInjective(Tail(s)) /\ Head(s) \notin ToSet(Tail(s))
<1>1. /\ Len(s) \in Nat \ {0}
      /\ DOMAIN s = 1 .. Len(s)
      /\ DOMAIN Tail(s) = 1 .. Len(s) - 1
      /\ Head(s) = s[1]
      /\ \A i \in 1 .. Len(s) - 1 : Tail(s)[i] = s[i + 1]
  OBVIOUS
<1>2. \A i \in 1 .. Len(s) - 1 : i + 1 \in 1 .. Len(s) /\ i + 1 # 1
  BY <1>1
<1>3. \A i, j \in 1 .. Len(s) - 1 : i + 1 = j + 1 => i = j
  BY <1>1
<1>4. IsInjective(Tail(s))
  BY <1>1, <1>2, <1>3 DEF IsInjective
<1>5. \A i \in 1 .. Len(s) - 1 : Tail(s)[i] # Head(s)
  BY <1>1, <1>2 DEF IsInjective
<1> QED BY <1>1, <1>4, <1>5 DEF ToSet

-----------------------------------------------------------------------------
(* The inductive invariant *)

Early == {u \in Users : place[u] \in {"none", "adding", "committing", "publishing"}}

\* Nothing of a user has left the use case yet.
Unannounced(u) ==
    /\ \A p \in Processes : u \notin ToSet(queue[p]) /\ welcoming[p] # u
    /\ welcomes[u] = <<>>

\* Requests have a process, and announce after they have committed.
RequestsInOrder ==
    /\ \A u \in Users : place[u] # "none" => home[u] \in Processes
    /\ \A u \in Users : place[u] \notin {"none", "answered"} => home[u] \in up
    /\ \A u \in Users : place[u] \in {"publishing", "reading"} => u \in users
    /\ \A u \in Early : Unannounced(u)

\* Events and welcomes stay where the request was.
OnlyAtHome ==
    /\ listening \subseteq Workers
    /\ \A p \in Processes : \A u \in ToSet(queue[p]) : home[u] = p
    /\ \A p \in Processes : welcoming[p] # Nobody => home[welcoming[p]] = p /\ p \in Workers
    /\ \A u \in Users : ToSet(welcomes[u]) \subseteq {home[u]} \cap Workers

\* A user is queued once, or in hand, or welcomed, or none of these.
OneTrace ==
    /\ \A p \in Processes : IsInjective(queue[p])
    /\ \A p \in Processes : welcoming[p] \notin ToSet(queue[p])
    /\ \A p \in Processes : \A u \in ToSet(queue[p]) : welcomes[u] = <<>>
    /\ \A p \in Processes : welcoming[p] # Nobody => welcomes[welcoming[p]] = <<>>
    /\ WelcomedOnce

IInv ==
    /\ TypeOK
    /\ RequestsInOrder
    /\ AnnouncedUsersExist
    /\ OnlyAtHome
    /\ OneTrace
    /\ OkIsAnnounced

LEMMA InitIInv == Init => IInv
<1> SUFFICES ASSUME Init PROVE IInv
  OBVIOUS
<1>1. TypeOK
  BY SignupAssumption DEF Init, TypeOK, Places
<1>2. \A p \in Processes : ToSet(queue[p]) = {} /\ IsInjective(queue[p])
  BY EmptySet DEF Init, IsInjective
<1>3. \A u \in Users : ToSet(welcomes[u]) = {} /\ Len(welcomes[u]) = 0
  BY EmptySet DEF Init
<1>4. Queued = {} /\ InHand = {}
  BY <1>2 DEF Queued, InHand, Init
<1>5. RequestsInOrder
  BY <1>2, SignupAssumption DEF RequestsInOrder, Init, Early, Unannounced
<1>6. OnlyAtHome /\ OneTrace
  BY <1>2, <1>3 DEF OnlyAtHome, OneTrace, Init, WelcomedOnce
<1>7. AnnouncedUsersExist /\ OkIsAnnounced
  BY <1>4 DEF AnnouncedUsersExist, OkIsAnnounced, Init
<1> QED BY <1>1, <1>5, <1>6, <1>7 DEF IInv

-----------------------------------------------------------------------------
(* The steps *)

\* A step of a process, of a new request, or of a request under way.
LEMMA StepCases ==
    ASSUME Next
    PROVE  \/ \E p \in Processes :
                Boot(p) \/ StartWorker(p) \/ End(p) \/ Take(p) \/ Welcome(p) \/ WelcomeSkipped(p)
           \/ \E u \in Users, p \in Processes : SignUp(u, p)
           \/ \E u \in Users :
                Add(u) \/ Commit(u) \/ Fails(u) \/ Publish(u) \/ PublishFails(u) \/ ReadBack(u)
BY DEF Next, Dispatch, Request

LEMMA StepKeepsType ==
    ASSUME IInv, [Next]_vars
    PROVE  TypeOK'
<1> USE SignupAssumption DEF TypeOK, Places, vars, requestVars, processVars, busVars, Move
<1> TypeOK /\ RequestsInOrder
  BY DEF IInv
<1>1. CASE UNCHANGED vars
  BY <1>1
<1>2. ASSUME NEW p \in Processes, Boot(p) PROVE TypeOK'
  BY <1>2 DEF Boot
<1>3. ASSUME NEW p \in Processes, StartWorker(p) PROVE TypeOK'
  BY <1>3 DEF StartWorker
<1>4. ASSUME NEW p \in Processes, End(p) PROVE TypeOK'
  <2>1. ToSet(queue[p]) \subseteq Users
    BY DEF ToSet
  <2> QED BY <1>4, <2>1 DEF End
<1>5. ASSUME NEW p \in Processes, Take(p) PROVE TypeOK'
  <2>1. Head(queue[p]) \in Users /\ Tail(queue[p]) \in Seq(Users)
    BY <1>5, HeadSet DEF Take
  <2> QED BY <1>5, <2>1 DEF Take
<1>6. ASSUME NEW p \in Processes, Welcome(p) PROVE TypeOK'
  <2>1. Append(welcomes[welcoming[p]], p) \in Seq(Processes)
    BY <1>6 DEF Welcome
  <2> QED BY <1>6, <2>1 DEF Welcome
<1>7. ASSUME NEW p \in Processes, WelcomeSkipped(p) PROVE TypeOK'
  BY <1>7 DEF WelcomeSkipped
<1>8. ASSUME NEW u \in Users, NEW p \in Processes, SignUp(u, p) PROVE TypeOK'
  BY <1>8 DEF SignUp
<1>9. ASSUME NEW u \in Users, Add(u) PROVE TypeOK'
  BY <1>9 DEF Add
<1>10. ASSUME NEW u \in Users, Commit(u) PROVE TypeOK'
  BY <1>10 DEF Commit
<1>11. ASSUME NEW u \in Users, Fails(u) PROVE TypeOK'
  BY <1>11 DEF Fails
<1>12. ASSUME NEW u \in Users, Publish(u) PROVE TypeOK'
  <2>1. home[u] \in Processes
    BY <1>12 DEF Publish, ReturnsOk, RequestsInOrder
  <2>2. Append(queue[home[u]], u) \in Seq(Users)
    BY <2>1
  <2>3. home[u] \in up
    BY <1>12 DEF Publish, ReturnsOk, RequestsInOrder
  <2> QED BY <1>12, <2>1, <2>2, <2>3 DEF Publish, ReturnsOk
<1>13. ASSUME NEW u \in Users, PublishFails(u) PROVE TypeOK'
  BY <1>13 DEF PublishFails, ReturnsOk
<1>14. ASSUME NEW u \in Users, ReadBack(u) PROVE TypeOK'
  BY <1>14 DEF ReadBack
<1> QED
  BY <1>1, <1>2, <1>3, <1>4, <1>5, <1>6, <1>7, <1>8, <1>9, <1>10, <1>11, <1>12, <1>13, <1>14, StepCases

-----------------------------------------------------------------------------
(* What the steps of the bus do to its queues, as sets *)

LEMMA EndSets ==
    ASSUME IInv, NEW p \in Processes, End(p)
    PROVE  /\ \A q \in Processes : ToSet(queue'[q]) = IF q = p THEN {} ELSE ToSet(queue[q])
           /\ \A q \in Processes : welcoming'[q] = IF q = p THEN Nobody ELSE welcoming[q]
           /\ \A q \in Processes : IsInjective(queue[q]) => IsInjective(queue'[q])
           /\ lost' = lost \cup ToSet(queue[p]) \cup ({welcoming[p]} \ {Nobody})
<1>1. /\ queue' = [queue EXCEPT ![p] = <<>>] /\ welcoming' = [welcoming EXCEPT ![p] = Nobody]
      /\ queue \in [Processes -> Seq(Users)]
      /\ welcoming \in [Processes -> Users \cup {Nobody}]
      /\ lost' = lost \cup ToSet(queue[p]) \cup ({welcoming[p]} \ {Nobody})
  BY DEF End, IInv, TypeOK
<1>2. \A q \in Processes : queue'[q] = IF q = p THEN <<>> ELSE queue[q]
  BY <1>1
<1>3. IsInjective(<<>>)
  BY DEF IsInjective
<1> QED BY <1>1, <1>2, <1>3, EmptySet

LEMMA TakeSets ==
    ASSUME IInv, NEW p \in Processes, Take(p)
    PROVE  /\ \A q \in Processes \ {p} : queue'[q] = queue[q] /\ welcoming'[q] = welcoming[q]
           /\ welcoming[p] = Nobody
           /\ welcoming'[p] \in Users
           /\ ToSet(queue[p]) = ToSet(queue'[p]) \cup {welcoming'[p]}
           /\ IsInjective(queue[p]) => IsInjective(queue'[p]) /\ welcoming'[p] \notin ToSet(queue'[p])
<1>1. /\ queue' = [queue EXCEPT ![p] = Tail(@)]
      /\ welcoming' = [welcoming EXCEPT ![p] = Head(queue[p])]
      /\ queue[p] # <<>> /\ welcoming[p] = Nobody
      /\ queue \in [Processes -> Seq(Users)]
      /\ welcoming \in [Processes -> Users \cup {Nobody}]
  BY DEF Take, IInv, TypeOK
<1>2. /\ queue[p] \in Seq(Users) /\ queue'[p] = Tail(queue[p]) /\ welcoming'[p] = Head(queue[p])
      /\ \A q \in Processes \ {p} : queue'[q] = queue[q] /\ welcoming'[q] = welcoming[q]
  BY <1>1
<1>3. ToSet(queue[p]) = ToSet(queue'[p]) \cup {welcoming'[p]} /\ welcoming'[p] \in Users
  BY <1>1, <1>2, HeadSet
<1>4. IsInjective(queue[p]) => IsInjective(queue'[p]) /\ welcoming'[p] \notin ToSet(queue'[p])
  BY <1>1, <1>2, TailForgets
<1> QED BY <1>1, <1>2, <1>3, <1>4

LEMMA PublishSets ==
    ASSUME IInv, NEW u \in Users, Publish(u)
    PROVE  /\ home[u] \in Processes
           /\ \A q \in Processes \ {home[u]} : queue'[q] = queue[q]
           /\ ToSet(queue'[home[u]]) = ToSet(queue[home[u]]) \cup {u}
           /\ IsInjective(queue[home[u]]) => IsInjective(queue'[home[u]])
<1>1. place[u] = "publishing"
  BY DEF Publish, ReturnsOk, Move
<1>2. home[u] \in Processes /\ u \notin ToSet(queue[home[u]])
  BY <1>1 DEF IInv, RequestsInOrder, Early, Unannounced
<1>3. queue' = [queue EXCEPT ![home[u]] = Append(@, u)] /\ queue \in [Processes -> Seq(Users)]
  BY DEF Publish, IInv, TypeOK
<1>4. /\ queue[home[u]] \in Seq(Users)
      /\ queue'[home[u]] = Append(queue[home[u]], u)
      /\ \A q \in Processes \ {home[u]} : queue'[q] = queue[q]
  BY <1>2, <1>3
<1>5. ToSet(queue'[home[u]]) = ToSet(queue[home[u]]) \cup {u}
  BY <1>4, AppendSet
<1>6. IsInjective(queue[home[u]]) => IsInjective(queue'[home[u]])
  BY <1>2, <1>4, AppendFresh
<1> QED BY <1>2, <1>4, <1>5, <1>6

LEMMA WelcomeSets ==
    ASSUME IInv, NEW p \in Processes, Welcome(p)
    PROVE  /\ welcoming[p] \in Users
           /\ \A u \in Users \ {welcoming[p]} : welcomes'[u] = welcomes[u]
           /\ ToSet(welcomes'[welcoming[p]]) = ToSet(welcomes[welcoming[p]]) \cup {p}
           /\ Len(welcomes'[welcoming[p]]) = Len(welcomes[welcoming[p]]) + 1
           /\ welcomes'[welcoming[p]] # <<>>
           /\ \A q \in Processes : welcoming'[q] = IF q = p THEN Nobody ELSE welcoming[q]
<1>1. /\ welcoming[p] \in Users
      /\ welcomes' = [welcomes EXCEPT ![welcoming[p]] = Append(@, p)]
      /\ welcomes \in [Users -> Seq(Processes)]
      /\ welcoming' = [welcoming EXCEPT ![p] = Nobody]
      /\ welcoming \in [Processes -> Users \cup {Nobody}]
  BY DEF Welcome, IInv, TypeOK
<1>2. /\ welcomes[welcoming[p]] \in Seq(Processes)
      /\ welcomes'[welcoming[p]] = Append(welcomes[welcoming[p]], p)
      /\ \A u \in Users \ {welcoming[p]} : welcomes'[u] = welcomes[u]
  BY <1>1
<1>3. ToSet(welcomes'[welcoming[p]]) = ToSet(welcomes[welcoming[p]]) \cup {p}
  BY <1>2, AppendSet
<1>4. /\ Len(welcomes'[welcoming[p]]) = Len(welcomes[welcoming[p]]) + 1
      /\ welcomes'[welcoming[p]] # <<>>
  BY <1>2
<1> QED BY <1>1, <1>2, <1>3, <1>4

-----------------------------------------------------------------------------
(* Every step keeps the invariant *)

\* Steps that the bus has no part in.
Aside ==
    \/ \E p \in Processes : Boot(p) \/ StartWorker(p)
    \/ \E u \in Users, p \in Processes : SignUp(u, p)
    \/ \E u \in Users : Add(u) \/ Commit(u) \/ Fails(u) \/ PublishFails(u) \/ ReadBack(u)
    \/ UNCHANGED vars

LEMMA AsideLeavesBus == Aside => UNCHANGED busVars
BY DEF Aside, Boot, StartWorker, SignUp, Add, Commit, Fails, PublishFails, ReadBack,
       vars, busVars, ReturnsOk

LEMMA BusCases ==
    ASSUME [Next]_vars
    PROVE  \/ Aside
           \/ \E p \in Processes : End(p) \/ Take(p) \/ Welcome(p) \/ WelcomeSkipped(p)
           \/ \E u \in Users : Publish(u)
<1>1. CASE Next
  BY <1>1, StepCases DEF Aside
<1>2. CASE UNCHANGED vars
  BY <1>2 DEF Aside
<1> QED BY <1>1, <1>2

LEMMA UsersStay == [Next]_vars => users \subseteq users'
<1> SUFFICES ASSUME [Next]_vars PROVE users \subseteq users'
  OBVIOUS
<1> USE DEF requestVars, processVars, busVars, vars
<1>1. CASE Aside
  BY <1>1 DEF Aside, Boot, StartWorker, SignUp, Add, Commit, Fails, PublishFails, ReadBack
<1> QED BY <1>1, BusCases DEF End, Take, Welcome, WelcomeSkipped, Publish

\* The step of a request moves it alone, and only to where the invariant lets it.
LEMMA StepKeepsRequests ==
    ASSUME IInv, [Next]_vars
    PROVE  /\ \A u \in Users : place'[u] # "none" => home'[u] \in Processes
           /\ \A u \in Users : place'[u] \notin {"none", "answered"} => home'[u] \in up'
           /\ \A u \in Users : place'[u] \in {"publishing", "reading"} => u \in users'
           /\ Early' \subseteq Early
           /\ \A u \in Users : home[u] # home'[u] => u \in Early
<1> USE SignupAssumption DEF TypeOK, RequestsInOrder, Early, Move, requestVars, processVars, busVars, vars
<1> TypeOK /\ RequestsInOrder
  BY DEF IInv
<1>1. CASE UNCHANGED vars
  BY <1>1
<1>2. ASSUME NEW p \in Processes,
             Boot(p) \/ StartWorker(p) \/ Take(p) \/ Welcome(p) \/ WelcomeSkipped(p)
      PROVE  UNCHANGED <<users, place, home>> /\ up \subseteq up'
  BY <1>2 DEF Boot, StartWorker, Take, Welcome, WelcomeSkipped
<1>3. CASE UNCHANGED <<users, place, home>> /\ up \subseteq up'
  BY <1>3
<1>4. ASSUME NEW p \in Processes, End(p)
      PROVE  /\ \A u \in Users : place'[u] = IF home[u] = p THEN "answered" ELSE place[u]
             /\ UNCHANGED home /\ up' = up \ {p} /\ users \subseteq users'
  BY <1>4 DEF End
<1>5. ASSUME NEW p \in Processes,
             \A u \in Users : place'[u] = IF home[u] = p THEN "answered" ELSE place[u],
             UNCHANGED home, up' = up \ {p}, users \subseteq users'
      PROVE  /\ \A u \in Users : place'[u] # "none" => home'[u] \in Processes
             /\ \A u \in Users : place'[u] \notin {"none", "answered"} => home'[u] \in up'
             /\ \A u \in Users : place'[u] \in {"publishing", "reading"} => u \in users'
             /\ Early' \subseteq Early
             /\ \A u \in Users : home[u] # home'[u] => u \in Early
  BY <1>5
<1>6. CASE \E u \in Users, p \in Processes : SignUp(u, p)
  BY <1>6 DEF SignUp
<1>7. CASE \E u \in Users : Add(u)
  BY <1>7 DEF Add
<1>8. CASE \E u \in Users : Commit(u)
  BY <1>8 DEF Commit
<1>9. CASE \E u \in Users : Fails(u)
  BY <1>9 DEF Fails
<1>10. CASE \E u \in Users : Publish(u) \/ PublishFails(u)
  <2>1. PICK u \in Users : Publish(u) \/ PublishFails(u)
    BY <1>10
  <2>2. CASE Publish(u)
    BY <2>2 DEF Publish, ReturnsOk
  <2>3. CASE PublishFails(u)
    BY <2>3 DEF PublishFails, ReturnsOk
  <2> QED BY <2>1, <2>2, <2>3
<1>11. CASE \E u \in Users : ReadBack(u)
  BY <1>11 DEF ReadBack
<1> QED
  BY <1>1, <1>2, <1>3, <1>4, <1>5, <1>6, <1>7, <1>8, <1>9, <1>10, <1>11, StepCases

LEMMA StepKeepsUnannounced ==
    ASSUME IInv, [Next]_vars, NEW u \in Users, u \in Early'
    PROVE  Unannounced(u)'
<1>1. u \in Early /\ Unannounced(u) /\ u # Nobody
  BY StepKeepsRequests, SignupAssumption DEF IInv, RequestsInOrder
<1> USE <1>1 DEF Unannounced
<1>2. CASE Aside
  BY <1>2, AsideLeavesBus DEF busVars
<1>3. ASSUME NEW p \in Processes, End(p) PROVE Unannounced(u)'
  <2>1. UNCHANGED welcomes
    BY <1>3 DEF End
  <2>2. \A q \in Processes : u \notin ToSet(queue'[q]) /\ welcoming'[q] # u
    BY <1>3, EndSets
  <2> QED BY <2>1, <2>2
<1>4. ASSUME NEW p \in Processes, Take(p) PROVE Unannounced(u)'
  <2>1. ToSet(queue'[p]) \subseteq ToSet(queue[p]) /\ welcoming'[p] \in ToSet(queue[p])
    BY <1>4, TakeSets
  <2>2. UNCHANGED welcomes
    BY <1>4 DEF Take
  <2> QED BY <1>4, <2>1, <2>2, TakeSets
<1>5. ASSUME NEW p \in Processes, Welcome(p) PROVE Unannounced(u)'
  BY <1>5, WelcomeSets DEF Welcome
<1>6. ASSUME NEW p \in Processes, WelcomeSkipped(p) PROVE Unannounced(u)'
  BY <1>6 DEF WelcomeSkipped, IInv, TypeOK
<1>7. ASSUME NEW v \in Users, Publish(v) PROVE Unannounced(u)'
  <2>1. UNCHANGED <<welcoming, welcomes>> /\ place'[v] \in {"reading", "answered"}
    BY <1>7 DEF Publish, ReturnsOk, Move, IInv, TypeOK
  <2>2. u # v
    BY <2>1 DEF Early
  <2> QED BY <1>7, <2>1, <2>2, PublishSets
<1> QED BY <1>2, <1>3, <1>4, <1>5, <1>6, <1>7, BusCases

LEMMA StepKeepsOrder ==
    ASSUME IInv, [Next]_vars
    PROVE  RequestsInOrder'
<1>1. \A u \in Early' : Unannounced(u)'
  BY StepKeepsUnannounced DEF Early
<1> QED BY <1>1, StepKeepsRequests DEF RequestsInOrder

\* Only Publish adds an event, and its user has committed; no step removes a user.
LEMMA StepKeepsAnnouncedExist ==
    ASSUME IInv, [Next]_vars
    PROVE  AnnouncedUsersExist'
<1> DEFINE Exists(s, hand) ==
        \A p \in Processes : ToSet(s[p]) \subseteq users' /\ hand[p] \in users' \cup {Nobody}
<1>1. Exists(queue, welcoming)
  BY UsersStay DEF IInv, AnnouncedUsersExist, Queued, InHand
<1>2. SUFFICES Exists(queue', welcoming')
  BY DEF AnnouncedUsersExist, Queued, InHand
<1>3. CASE Aside
  BY <1>1, <1>3, AsideLeavesBus DEF busVars
<1>4. ASSUME NEW p \in Processes, End(p) PROVE Exists(queue', welcoming')
  <2>1. \A q \in Processes :
            /\ ToSet(queue'[q]) = IF q = p THEN {} ELSE ToSet(queue[q])
            /\ welcoming'[q] = IF q = p THEN Nobody ELSE welcoming[q]
    BY <1>4, EndSets
  <2> QED BY <1>1, <2>1
<1>5. ASSUME NEW p \in Processes, Take(p) PROVE Exists(queue', welcoming')
  <2>1. ToSet(queue'[p]) \subseteq users' /\ welcoming'[p] \in users'
    BY <1>1, <1>5, TakeSets
  <2> QED BY <1>1, <1>5, <2>1, TakeSets
<1>6. ASSUME NEW p \in Processes, Welcome(p) \/ WelcomeSkipped(p) PROVE Exists(queue', welcoming')
  BY <1>1, <1>6 DEF Welcome, WelcomeSkipped, IInv, TypeOK
<1>7. ASSUME NEW u \in Users, Publish(u) PROVE Exists(queue', welcoming')
  <2>1. u \in users'
    BY <1>7, UsersStay DEF Publish, ReturnsOk, Move, IInv, RequestsInOrder
  <2>2. UNCHANGED welcoming
    BY <1>7 DEF Publish
  <2>3. ToSet(queue'[home[u]]) \subseteq users'
    BY <1>1, <1>7, <2>1, PublishSets
  <2> QED BY <1>1, <1>7, <2>2, <2>3, PublishSets
<1> QED BY <1>3, <1>4, <1>5, <1>6, <1>7, BusCases

LEMMA StepKeepsListening ==
    ASSUME IInv, [Next]_vars
    PROVE  listening' \subseteq Workers
<1> listening \subseteq Workers
  BY DEF IInv, OnlyAtHome
<1> USE DEF requestVars, processVars, busVars, vars
<1>1. CASE Aside
  BY <1>1 DEF Aside, Boot, StartWorker, SignUp, Add, Commit, Fails, PublishFails, ReadBack
<1> QED BY <1>1, BusCases DEF End, Take, Welcome, WelcomeSkipped, Publish

\* A home is given before anything is announced, and an event is taken by the
\* process whose queue it is in, which listens and hence is a worker.
LEMMA StepKeepsHome ==
    ASSUME IInv, [Next]_vars
    PROVE  OnlyAtHome'
<1> DEFINE AtHome(s, hand, met) ==
        /\ \A p \in Processes : \A u \in ToSet(s[p]) : home'[u] = p
        /\ \A p \in Processes : hand[p] # Nobody => home'[hand[p]] = p /\ p \in Workers
        /\ \A u \in Users : ToSet(met[u]) \subseteq {home'[u]} \cap Workers
<1>1. AtHome(queue, welcoming, welcomes)
  <2>1. \A u \in Users : home'[u] # home[u] =>
            /\ \A p \in Processes : u \notin ToSet(queue[p]) /\ welcoming[p] # u
            /\ ToSet(welcomes[u]) = {}
    BY StepKeepsRequests, EmptySet DEF IInv, RequestsInOrder, Unannounced
  <2>2. \A p \in Processes : ToSet(queue[p]) \subseteq Users /\ welcoming[p] \in Users \cup {Nobody}
    BY DEF IInv, TypeOK, AnnouncedUsersExist, Queued
  <2> QED BY <2>1, <2>2 DEF IInv, OnlyAtHome
<1>2. SUFFICES AtHome(queue', welcoming', welcomes')
  BY StepKeepsListening DEF OnlyAtHome
<1>3. CASE Aside
  BY <1>1, <1>3, AsideLeavesBus DEF busVars
<1>4. ASSUME NEW p \in Processes, End(p) PROVE AtHome(queue', welcoming', welcomes')
  <2>1. \A q \in Processes :
            /\ ToSet(queue'[q]) = IF q = p THEN {} ELSE ToSet(queue[q])
            /\ welcoming'[q] = IF q = p THEN Nobody ELSE welcoming[q]
    BY <1>4, EndSets
  <2>2. UNCHANGED welcomes
    BY <1>4 DEF End
  <2> QED BY <1>1, <2>1, <2>2
<1>5. ASSUME NEW p \in Processes, Take(p) PROVE AtHome(queue', welcoming', welcomes')
  <2>1. /\ UNCHANGED <<home, welcomes>>
        /\ p \in Workers
    BY <1>5 DEF Take, requestVars, IInv, OnlyAtHome
  <2>2. ToSet(queue'[p]) \subseteq ToSet(queue[p]) /\ home'[welcoming'[p]] = p
    BY <1>1, <1>5, TakeSets
  <2>3. \A q \in Processes \ {p} : queue'[q] = queue[q] /\ welcoming'[q] = welcoming[q]
    BY <1>5, TakeSets
  <2> QED BY <1>1, <2>1, <2>2, <2>3
<1>6. ASSUME NEW p \in Processes, Welcome(p) PROVE AtHome(queue', welcoming', welcomes')
  <2>1. UNCHANGED <<home, queue>>
    BY <1>6 DEF Welcome, requestVars
  <2>2. home'[welcoming[p]] = p /\ p \in Workers
    BY <1>1, <1>6, WelcomeSets, SignupAssumption
  <2>3. \A u \in Users : ToSet(welcomes'[u]) \subseteq {home'[u]} \cap Workers
    BY <1>1, <1>6, <2>2, WelcomeSets
  <2>4. \A q \in Processes : welcoming'[q] = IF q = p THEN Nobody ELSE welcoming[q]
    BY <1>6, WelcomeSets
  <2> QED BY <1>1, <2>1, <2>3, <2>4
<1>7. ASSUME NEW p \in Processes, WelcomeSkipped(p) PROVE AtHome(queue', welcoming', welcomes')
  BY <1>1, <1>7 DEF WelcomeSkipped, IInv, TypeOK
<1>8. ASSUME NEW u \in Users, Publish(u) PROVE AtHome(queue', welcoming', welcomes')
  <2>1. UNCHANGED <<home, welcoming, welcomes>>
    BY <1>8 DEF Publish
  <2>2. \A v \in ToSet(queue'[home[u]]) : home'[v] = home[u]
    BY <1>1, <1>8, <2>1, PublishSets
  <2> QED BY <1>1, <1>8, <2>1, <2>2, PublishSets
<1> QED BY <1>3, <1>4, <1>5, <1>6, <1>7, <1>8, BusCases

\* What is published was unannounced, what is taken was in the queue once, what is
\* welcomed was in hand; homes keep the processes apart.
LEMMA StepKeepsTrace ==
    ASSUME IInv, [Next]_vars
    PROVE  OneTrace'
<1> DEFINE Trace(s, hand, met) ==
        /\ \A p \in Processes : IsInjective(s[p])
        /\ \A p \in Processes : hand[p] \notin ToSet(s[p])
        /\ \A p \in Processes : \A u \in ToSet(s[p]) : met[u] = <<>>
        /\ \A p \in Processes : hand[p] # Nobody => met[hand[p]] = <<>>
        /\ \A u \in Users : Len(met[u]) <= 1
<1>1. Trace(queue, welcoming, welcomes)
  BY DEF IInv, OneTrace, WelcomedOnce
<1>2. SUFFICES Trace(queue', welcoming', welcomes')
  BY DEF OneTrace, WelcomedOnce
<1>3. CASE Aside
  BY <1>1, <1>3, AsideLeavesBus DEF busVars
<1>4. \A p \in Processes : Nobody \notin ToSet(queue[p])
  BY SignupAssumption DEF IInv, TypeOK, AnnouncedUsersExist, Queued
<1>5. ASSUME NEW p \in Processes, End(p) PROVE Trace(queue', welcoming', welcomes')
  <2>1. \A q \in Processes :
            /\ ToSet(queue'[q]) = IF q = p THEN {} ELSE ToSet(queue[q])
            /\ welcoming'[q] = IF q = p THEN Nobody ELSE welcoming[q]
            /\ IsInjective(queue'[q])
    BY <1>1, <1>5, EndSets
  <2>2. UNCHANGED welcomes
    BY <1>5 DEF End
  <2> QED BY <1>1, <2>1, <2>2
<1>6. ASSUME NEW p \in Processes, Take(p) PROVE Trace(queue', welcoming', welcomes')
  <2>1. UNCHANGED welcomes
    BY <1>6 DEF Take
  <2>2. /\ IsInjective(queue'[p]) /\ welcoming'[p] \notin ToSet(queue'[p])
        /\ ToSet(queue'[p]) \subseteq ToSet(queue[p]) /\ welcoming'[p] \in ToSet(queue[p])
    BY <1>1, <1>6, TakeSets
  <2>3. \A q \in Processes \ {p} : queue'[q] = queue[q] /\ welcoming'[q] = welcoming[q]
    BY <1>6, TakeSets
  <2> QED BY <1>1, <2>1, <2>2, <2>3
<1>7. ASSUME NEW p \in Processes, Welcome(p) PROVE Trace(queue', welcoming', welcomes')
  <2>1. UNCHANGED queue
    BY <1>7 DEF Welcome
  <2>2. welcoming[p] \in Users /\ welcomes[welcoming[p]] = <<>> /\ welcoming[p] # Nobody
    BY <1>1, <1>7, WelcomeSets, SignupAssumption
  <2>3. \A u \in Users : Len(welcomes'[u]) <= 1
    BY <1>1, <1>7, <2>2, WelcomeSets
  <2>4. \A q \in Processes : welcoming'[q] = IF q = p THEN Nobody ELSE welcoming[q]
    BY <1>7, WelcomeSets
  <2>5. \A q \in Processes \ {p} : welcoming[p] \notin ToSet(queue[q]) /\ welcoming[q] # welcoming[p]
    BY <2>2 DEF IInv, OnlyAtHome
  <2>6. \A q \in Processes : ToSet(queue[q]) \subseteq Users /\ welcoming[q] \in Users \cup {Nobody}
    BY DEF IInv, TypeOK, AnnouncedUsersExist, Queued
  <2>7. \A u \in Users \ {welcoming[p]} : welcomes'[u] = welcomes[u]
    BY <1>7, WelcomeSets
  <2>8. \A q \in Processes : \A u \in ToSet(queue[q]) : welcomes'[u] = <<>>
    BY <1>1, <2>5, <2>6, <2>7
  <2>9. \A q \in Processes \ {p} : welcoming[q] # Nobody => welcomes'[welcoming[q]] = <<>>
    BY <1>1, <2>5, <2>6, <2>7
  <2> QED BY <1>1, <1>4, <2>1, <2>3, <2>4, <2>8, <2>9
<1>8. ASSUME NEW p \in Processes, WelcomeSkipped(p) PROVE Trace(queue', welcoming', welcomes')
  BY <1>1, <1>4, <1>8 DEF WelcomeSkipped, IInv, TypeOK
<1>9. ASSUME NEW u \in Users, Publish(u) PROVE Trace(queue', welcoming', welcomes')
  <2>1. UNCHANGED <<welcoming, welcomes>>
    BY <1>9 DEF Publish
  <2>2. Unannounced(u)
    BY <1>9 DEF Publish, ReturnsOk, Move, IInv, RequestsInOrder, Early
  <2>3. /\ home[u] \in Processes
        /\ \A q \in Processes \ {home[u]} : queue'[q] = queue[q]
        /\ ToSet(queue'[home[u]]) = ToSet(queue[home[u]]) \cup {u}
        /\ IsInjective(queue'[home[u]])
    BY <1>1, <1>9, PublishSets
  <2> QED BY <1>1, <2>1, <2>2, <2>3 DEF Unannounced
<1> QED BY <1>3, <1>5, <1>6, <1>7, <1>8, <1>9, BusCases

\* A trace is handed on, or the step that drops it writes down why.
LEMMA StepKeepsAccount ==
    ASSUME IInv, [Next]_vars
    PROVE  OkIsAnnounced'
<1> DEFINE Accounted(u, s, hand, met, rest) ==
        \/ \E p \in Processes : u \in ToSet(s[p]) \/ hand[p] = u
        \/ met[u] # <<>>
        \/ u \in rest
           rest == unannounced \cup lost \cup skipped
<1>0. created \in SUBSET Users /\ Nobody \notin Users
  BY SignupAssumption DEF IInv, TypeOK
<1>1. \A u \in created : u \in users /\ Accounted(u, queue, welcoming, welcomes, rest)
  BY <1>0 DEF IInv, OkIsAnnounced, Queued, InHand
<1>2. ASSUME \A u \in created' : u \in Users /\ u \in users' /\ Accounted(u, queue', welcoming', welcomes', rest')
      PROVE  OkIsAnnounced'
  BY <1>0, <1>2 DEF OkIsAnnounced, Queued, InHand
<1>3. ASSUME NEW u \in created, rest \subseteq rest',
             Accounted(u, queue', welcoming', welcomes', rest)
      PROVE  u \in Users /\ u \in users' /\ Accounted(u, queue', welcoming', welcomes', rest')
  BY <1>0, <1>1, <1>3, UsersStay
<1> HIDE DEF rest
<1>4. CASE Aside
  <2>1. UNCHANGED <<queue, welcoming, welcomes, lost, skipped>>
    BY <1>4, AsideLeavesBus DEF busVars
  <2>2. CASE UNCHANGED <<created, unannounced>>
    <3>1. rest' = rest BY <2>1, <2>2 DEF rest
    <3> QED BY <1>1, <1>2, <1>3, <2>1, <2>2, <3>1
  <2>3. ASSUME NEW u \in Users, PublishFails(u) PROVE OkIsAnnounced'
    <3>1. created' = created \cup {u} /\ unannounced' = unannounced \cup {u} /\ u \in users'
      BY <2>3, UsersStay DEF PublishFails, ReturnsOk, Move, IInv, RequestsInOrder
    <3>2. rest \subseteq rest' /\ u \in rest'
      BY <2>1, <3>1 DEF rest
    <3> QED BY <1>1, <1>2, <1>3, <2>1, <3>1, <3>2
  <2> QED
    BY <1>4, <2>2, <2>3 DEF Aside, Boot, StartWorker, SignUp, Add, Commit, Fails, ReadBack,
                            vars, requestVars
<1>5. ASSUME NEW p \in Processes, End(p) PROVE OkIsAnnounced'
  <2>1. UNCHANGED <<created, unannounced, welcomes, skipped>>
    BY <1>5 DEF End
  <2>2. rest \subseteq rest' /\ ToSet(queue[p]) \cup ({welcoming[p]} \ {Nobody}) \subseteq rest'
    BY <1>5, <2>1, EndSets DEF rest
  <2>3. \A q \in Processes \ {p} : ToSet(queue'[q]) = ToSet(queue[q]) /\ welcoming'[q] = welcoming[q]
    BY <1>5, EndSets
  <2>4. ASSUME NEW u \in created PROVE Accounted(u, queue', welcoming', welcomes', rest')
    BY <1>0, <1>1, <2>1, <2>2, <2>3
  <2> QED BY <1>0, <1>1, <1>2, <2>1, <2>4, UsersStay
<1>6. ASSUME NEW p \in Processes, Take(p) PROVE OkIsAnnounced'
  <2>1. UNCHANGED <<created, welcomes>> /\ rest' = rest
    BY <1>6 DEF Take, requestVars, rest
  <2>2. /\ \A q \in Processes \ {p} : queue'[q] = queue[q] /\ welcoming'[q] = welcoming[q]
        /\ ToSet(queue[p]) = ToSet(queue'[p]) \cup {welcoming'[p]}
        /\ welcoming[p] = Nobody
    BY <1>6, TakeSets
  <2>3. ASSUME NEW u \in created PROVE Accounted(u, queue', welcoming', welcomes', rest)
    BY <1>0, <1>1, <2>1, <2>2
  <2> QED BY <1>2, <1>3, <2>1, <2>3
<1>7. ASSUME NEW p \in Processes, Welcome(p) PROVE OkIsAnnounced'
  <2>1. UNCHANGED <<created, queue>> /\ rest' = rest
    BY <1>7 DEF Welcome, requestVars, rest
  <2>2. /\ \A u \in Users \ {welcoming[p]} : welcomes'[u] = welcomes[u]
        /\ welcomes'[welcoming[p]] # <<>>
        /\ \A q \in Processes : welcoming'[q] = IF q = p THEN Nobody ELSE welcoming[q]
    BY <1>7, WelcomeSets
  <2>3. ASSUME NEW u \in created PROVE Accounted(u, queue', welcoming', welcomes', rest)
    BY <1>0, <1>1, <2>1, <2>2
  <2> QED BY <1>2, <1>3, <2>1, <2>3
<1>8. ASSUME NEW p \in Processes, WelcomeSkipped(p) PROVE OkIsAnnounced'
  <2>1. UNCHANGED <<created, queue, welcomes>> /\ rest \cup {welcoming[p]} = rest'
    BY <1>8 DEF WelcomeSkipped, requestVars, rest
  <2>2. \A q \in Processes \ {p} : welcoming'[q] = welcoming[q]
    BY <1>8 DEF WelcomeSkipped, IInv, TypeOK
  <2>3. ASSUME NEW u \in created PROVE Accounted(u, queue', welcoming', welcomes', rest')
    BY <1>0, <1>1, <2>1, <2>2
  <2> QED BY <1>0, <1>1, <1>2, <2>1, <2>3, UsersStay
<1>9. ASSUME NEW u \in Users, Publish(u) PROVE OkIsAnnounced'
  <2>1. /\ UNCHANGED <<welcoming, welcomes>> /\ rest' = rest
        /\ created' = created \cup {u} /\ u \in users'
    BY <1>9, UsersStay DEF Publish, ReturnsOk, Move, IInv, RequestsInOrder, rest
  <2>2. /\ home[u] \in Processes
        /\ \A q \in Processes \ {home[u]} : queue'[q] = queue[q]
        /\ ToSet(queue'[home[u]]) = ToSet(queue[home[u]]) \cup {u}
    BY <1>9, PublishSets
  <2>3. ASSUME NEW v \in created PROVE Accounted(v, queue', welcoming', welcomes', rest)
    BY <1>1, <2>1, <2>2
  <2>4. Accounted(u, queue', welcoming', welcomes', rest')
    BY <2>2
  <2> QED BY <1>2, <1>3, <2>1, <2>3, <2>4
<1> QED BY <1>4, <1>5, <1>6, <1>7, <1>8, <1>9, BusCases

-----------------------------------------------------------------------------
(* Theorems *)

\* IInv holds in every reachable state.
THEOREM Invariant == Spec => []IInv
<1>1. IInv /\ [Next]_vars => IInv'
  BY StepKeepsType, StepKeepsOrder, StepKeepsAnnouncedExist, StepKeepsHome, StepKeepsTrace,
     StepKeepsAccount DEF IInv
<1> QED BY <1>1, InitIInv, PTL DEF Spec

\* Users, requests, processes and buses have their types.
THEOREM TypesAreCorrect == Spec => []TypeOK
BY Invariant, PTL DEF IInv

\* CreateUser announces committed users only.
THEOREM AnnouncementsFollowCommits == Spec => []AnnouncedUsersExist
BY Invariant, PTL DEF IInv

\* The worker welcomes nobody twice, however often processes end and start.
THEOREM WelcomesAreUnique == Spec => []WelcomedOnce
BY Invariant, PTL DEF IInv, OneTrace

\* Whoever is welcomed was created in the process of that worker.
THEOREM WelcomesStayLocal == Spec => []DeliveryIsProcessLocal
<1>1. IInv => DeliveryIsProcessLocal
  <2> SUFFICES ASSUME IInv PROVE DeliveryIsProcessLocal
    OBVIOUS
  <2> QED BY DEF IInv, OnlyAtHome, DeliveryIsProcessLocal
<1> QED BY <1>1, Invariant, PTL

\* A creation that has returned Ok is stored, and its event welcomed, under way,
\* or lost in one of the ways written down.
THEOREM NothingIsLostInSilence == Spec => []OkIsAnnounced
BY Invariant, PTL DEF IInv

=============================================================================
