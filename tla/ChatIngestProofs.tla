-------------------------- MODULE ChatIngestProofs --------------------------
(***************************************************************************)
(* Proofs about ChatIngest, for any number of deliveries, listeners,        *)
(* batches and rows.                                                        *)
(***************************************************************************)
EXTENDS ChatIngest, FiniteSetTheorems, TLAPS

-----------------------------------------------------------------------------
(* The inductive invariant *)

\* Where a call is in its batch, and what its scope has flushed there.
CallsInOrder ==
    \A t \in Tasks :
        /\ IsInjective(batch[t])
        /\ t \in Deliveries => batch[t] \in Seq(Events \ DiscordEvents)
        /\ position[t] <= Len(batch[t]) + 1
        /\ place[t] = "uncalled" => batch[t] = <<>> /\ position[t] = 0 /\ stored[t] = {}
        /\ place[t] \in {"adding", "committing"} =>
            position[t] \in DOMAIN batch[t] /\ IsText(batch[t][position[t]])
        /\ place[t] = "committing" <=> saving[t] # None
        /\ saving[t] # None => saving[t].content = CurrentEvent(t)
        /\ answer[t] # "none" => place[t] = "returned"
        /\ answer[t] = "OK" => position[t] = Len(batch[t]) + 1

\* An id is one row's, committed or about to be, and what a call has committed is
\* in the table.
IdsApart ==
    /\ \A t \in Tasks, row \in chat_messages : saving[t] # None => row.id # saving[t].id
    /\ \A t, u \in Tasks :
        saving[t] # None /\ saving[u] # None /\ t # u => saving[t].id # saving[u].id
    /\ \A t \in Tasks : \A id \in stored[t] : \E row \in chat_messages : row.id = id

Reached(t, k) ==
    /\ k \in DOMAIN batch[t]
    /\ k <= position[t]
    /\ k = position[t] => place[t] \in {"replying", "returned"}

\* The rows of a call are those of events it has reached, one for each.
RowsAreReached ==
    \A t \in Tasks, row \in chat_messages : row.id \in stored[t] =>
        \E k \in Nat : Reached(t, k) /\ row.content = batch[t][k]

RowsAreSingle ==
    \A t \in Tasks, r, s \in chat_messages :
        r.id \in stored[t] /\ s.id \in stored[t] /\ r.content = s.content => r = s

\* What a call has passed is stored.
PassedIsStored ==
    \A t \in Tasks : \A i \in DOMAIN batch[t] :
        i < position[t] /\ IsText(batch[t][i]) => RowsOf(t, batch[t][i]) # {}

IInv == TypeOK /\ CallsInOrder /\ IdsApart /\ RowsAreReached /\ RowsAreSingle /\ PassedIsStored

LEMMA InitIInv == Init => IInv
<1> SUFFICES ASSUME Init PROVE IInv
  OBVIOUS
<1>1. <<>> \in Seq(Events) /\ <<>> \in Seq(Events \ DiscordEvents) /\ DOMAIN <<>> = {}
  OBVIOUS
<1>2. TypeOK
  BY <1>1 DEF Init, TypeOK, Places, Answers
<1>3. CallsInOrder
  BY <1>1 DEF Init, CallsInOrder, IsInjective
<1>4. IdsApart /\ RowsAreReached /\ RowsAreSingle /\ PassedIsStored
  BY <1>1 DEF Init, IdsApart, RowsAreReached, RowsAreSingle, PassedIsStored
<1> QED BY <1>2, <1>3, <1>4 DEF IInv

-----------------------------------------------------------------------------
(* What the steps do *)

\* Proceed leaves other calls alone, and stops at the next event that matters.
LEMMA ProceedStops ==
    ASSUME TypeOK, NEW t \in Tasks, NEW events \in Seq(Events), NEW from \in Nat \ {0},
           from <= Len(events) + 1, Proceed(t, events, from)
    PROVE  /\ \A u \in Tasks \ {t} :
                place'[u] = place[u] /\ position'[u] = position[u] /\ answer'[u] = answer[u]
           /\ place' \in [Tasks -> Places] /\ position' \in [Tasks -> Nat]
           /\ answer' \in [Tasks -> Answers]
           /\ from <= position'[t] /\ position'[t] <= Len(events) + 1
           /\ \A j \in from .. position'[t] - 1 : ~IsText(events[j])
           /\ \/ /\ place'[t] = "adding" /\ answer'[t] = answer[t]
                 /\ position'[t] \in DOMAIN events /\ IsText(events[position'[t]])
              \/ /\ place'[t] = "returned" /\ answer'[t] \in {"OK", "error"}
                 /\ answer'[t] = "OK" => position'[t] = Len(events) + 1
<1> USE DEF TypeOK, Places, Answers, AnswerWith, Move, Matters
<1>1. CASE /\ \A i \in from .. Len(events) : ~Matters(events[i])
           /\ AnswerWith(t, "OK")
           /\ position' = [position EXCEPT ![t] = Len(events) + 1]
  BY <1>1
<1>2. ASSUME NEW i \in from .. Len(events),
             /\ Matters(events[i]) /\ \A j \in from .. i - 1 : ~Matters(events[j])
             /\ position' = [position EXCEPT ![t] = i]
             /\ IF Raises(events[i])
                THEN AnswerWith(t, "error")
                ELSE Move(t, "adding") /\ UNCHANGED answer
      PROVE  /\ \A u \in Tasks \ {t} :
                    place'[u] = place[u] /\ position'[u] = position[u] /\ answer'[u] = answer[u]
             /\ place' \in [Tasks -> Places] /\ position' \in [Tasks -> Nat]
             /\ answer' \in [Tasks -> Answers]
             /\ from <= position'[t] /\ position'[t] <= Len(events) + 1
             /\ \A j \in from .. position'[t] - 1 : ~IsText(events[j])
             /\ \/ /\ place'[t] = "adding" /\ answer'[t] = answer[t]
                   /\ position'[t] \in DOMAIN events /\ IsText(events[position'[t]])
                \/ /\ place'[t] = "returned" /\ answer'[t] \in {"OK", "error"}
                   /\ answer'[t] = "OK" => position'[t] = Len(events) + 1
  <2>1. position'[t] = i /\ i \in Nat /\ i \in DOMAIN events
    BY <1>2
  <2>2. /\ \A u \in Tasks \ {t} : position'[u] = position[u]
        /\ position' \in [Tasks -> Nat]
        /\ from <= position'[t] /\ position'[t] <= Len(events) + 1
        /\ \A j \in from .. position'[t] - 1 : ~IsText(events[j])
    BY <1>2, <2>1
  <2>3. CASE Raises(events[i])
    <3>1. /\ place' = [place EXCEPT ![t] = "returned"]
          /\ answer' = [answer EXCEPT ![t] = "error"]
      BY <1>2, <2>3
    <3> QED BY <2>2, <3>1
  <2>4. CASE ~Raises(events[i])
    <3>1. place' = [place EXCEPT ![t] = "adding"] /\ answer' = answer
      BY <1>2, <2>4
    <3>2. IsText(events[i])
      BY <1>2, <2>4
    <3> QED BY <2>1, <2>2, <3>1, <3>2
  <2> QED BY <2>3, <2>4
<1> QED BY <1>1, <1>2 DEF Proceed

LEMMA ScopesOfSources ==
    ASSUME NEW id \in Identifiers
    PROVE  {LineUser(id), LineGroup(id), LineRoom(id)} \subseteq ConversationScope
<1> USE IdentifiersAssumption DEF LineFields
<1>1. /\ LineUser(id) \in [LineFields -> Identifiers \cup {None}]
      /\ LineGroup(id) \in [LineFields -> Identifiers \cup {None}]
      /\ LineRoom(id) \in [LineFields -> Identifiers \cup {None}]
  BY DEF LineUser, LineGroup, LineRoom
<1>2. /\ {f \in LineFields : LineUser(id)[f] # None} = {"line_user_id"}
      /\ {f \in LineFields : LineGroup(id)[f] # None} = {"line_group_id"}
      /\ {f \in LineFields : LineRoom(id)[f] # None} = {"line_room_id"}
  BY DEF LineUser, LineGroup, LineRoom
<1>3. \A x : Cardinality({x}) = 1
  BY FS_Singleton
<1>4. \A s \in [LineFields -> Identifiers \cup {None}], f \in LineFields :
        {g \in LineFields : s[g] # None} = {f} => s \in LineConversationScope
  BY <1>3 DEF LineConversationScope
<1>5. {LineUser(id), LineGroup(id), LineRoom(id)} \subseteq LineConversationScope
  BY <1>1, <1>2, <1>4
<1> QED BY <1>5 DEF ConversationScope

\* What a call flushes is a row about its current event, with an unused id.
LEMMA FlushedRow ==
    ASSUME TypeOK, CallsInOrder, NEW t \in Tasks,
           \/ t \in Deliveries /\ SaveLineChat(t)
           \/ t \in Listeners /\ SaveDiscordChat(t)
    PROVE  /\ place[t] = "adding"
           /\ \E row \in Rows : /\ row.id \in UnusedIds /\ row.content = CurrentEvent(t)
                                /\ Flush(t, row)
<1> USE ChatAssumption
<1>1. place[t] = "adding"
  BY DEF SaveLineChat, SaveDiscordChat, Flush
<1>2. /\ position[t] \in DOMAIN batch[t] /\ IsText(CurrentEvent(t))
      /\ CurrentEvent(t) \in Events /\ CurrentEvent(t) \in Contents
  BY <1>1 DEF CallsInOrder, CurrentEvent, TypeOK
<1> DEFINE e == CurrentEvent(t)
           about == About[e]
<1>3. about.id \in Identifiers /\ about.time \in Nat
  BY <1>2
<1>4. CASE t \in Deliveries /\ SaveLineChat(t)
  <2>1. PICK id \in UnusedIds : Flush(t, ToOrm(CreateLine(id, SourceScope(about), e, about.time)))
    BY <1>4 DEF SaveLineChat
  <2>2. e \in Events \ DiscordEvents
    BY <1>2, <1>4 DEF CallsInOrder, CurrentEvent
  <2>3. about.in \in {"user", "group", "room"}
    BY <1>2, <2>2 DEF IsText
  <2>4. SourceScope(about) \in ConversationScope
    BY <1>3, <2>3, ScopesOfSources DEF SourceScope
  <2> DEFINE row == ToOrm(CreateLine(id, SourceScope(about), e, about.time))
  <2>5. row = [id |-> id, platform |-> "LINE", conversation_scope |-> ToPrimitive(SourceScope(about)),
               content |-> e, occurred_at |-> about.time]
    BY DEF ToOrm, CreateLine, Message
  <2>6. row \in Rows /\ row.id = id /\ row.content = e
    BY <1>2, <1>3, <2>4, <2>5 DEF Rows, UnusedIds
  <2> QED BY <1>1, <2>1, <2>6
<1>5. CASE t \in Listeners /\ SaveDiscordChat(t)
  <2>1. PICK id \in UnusedIds : Flush(t, ToOrm(CreateDiscord(id, "DM", about.id, e, about.time)))
    BY <1>5 DEF SaveDiscordChat
  <2> DEFINE scope == [guild_id |-> "DM", channel_id |-> about.id]
             row == ToOrm(CreateDiscord(id, "DM", about.id, e, about.time))
  <2>2. scope \in ConversationScope
    BY <1>3 DEF ConversationScope, DiscordConversationScope
  <2>3. row = [id |-> id, platform |-> "DISCORD", conversation_scope |-> ToPrimitive(scope),
               content |-> e, occurred_at |-> about.time]
    BY DEF ToOrm, CreateDiscord, Message
  <2>4. row \in Rows /\ row.id = id /\ row.content = e
    BY <1>2, <1>3, <2>2, <2>3 DEF Rows, UnusedIds
  <2> QED BY <1>1, <2>1, <2>4
<1> QED BY <1>4, <1>5

-----------------------------------------------------------------------------
(* Steps *)

\* A step of t commits the row of its scope, or commits nothing.
Commits(t) == place[t] = "committing" /\ Committed(t)

\* The steps in three sorts: a call begins, flushes, or goes on from an await with
\* or without a commit.
LEMMA StepCases ==
    ASSUME Next, TypeOK, CallsInOrder
    PROVE  \/ \E t \in Tasks, events \in Seq(Events) :
                /\ Call(t, events) /\ IsInjective(events)
                /\ t \in Deliveries => events \in Seq(Events \ DiscordEvents)
           \/ \E t \in Tasks, row \in Rows :
                /\ row.id \in UnusedIds /\ row.content = CurrentEvent(t)
                /\ place[t] = "adding" /\ Flush(t, row)
           \/ \E t \in Tasks : Step(t)
           \/ UNCHANGED vars
<1> USE ChatAssumption
<1>1. ASSUME NEW t \in Deliveries, HandleCallback(t)
      PROVE  \E events \in Seq(Events) :
                Call(t, events) /\ IsInjective(events) /\ events \in Seq(Events \ DiscordEvents)
  <2>1. PICK events \in Batches : Call(t, events)
    BY <1>1 DEF HandleCallback
  <2>2. events \in Seq(Events \ DiscordEvents) /\ IsInjective(events)
    OBVIOUS
  <2>3. events \in Seq(Events)
    BY <2>2
  <2> QED BY <2>1, <2>2, <2>3
<1>2. ASSUME NEW t \in Listeners, OnMessage(t)
      PROVE  \E events \in Seq(Events) : Call(t, events) /\ IsInjective(events)
  <2>1. PICK e \in DiscordEvents : Call(t, <<e>>)
    BY <1>2 DEF OnMessage
  <2>2. <<e>> \in Seq(Events) /\ IsInjective(<<e>>)
    BY DEF IsInjective
  <2> QED BY <2>1, <2>2
<1>3. Deliveries \subseteq Tasks /\ Listeners \subseteq Tasks /\ Deliveries \cap Listeners = {}
  BY DEF Tasks
<1>4. ASSUME NEW t \in Tasks, \/ t \in Deliveries /\ SaveLineChat(t)
                              \/ t \in Listeners /\ SaveDiscordChat(t)
      PROVE  \E row \in Rows : /\ row.id \in UnusedIds /\ row.content = CurrentEvent(t)
                               /\ place[t] = "adding" /\ Flush(t, row)
  BY <1>4, FlushedRow
<1>5. CASE \E d \in Deliveries : HandleCallback(d)
  BY <1>1, <1>3, <1>5
<1>6. CASE \E l \in Listeners : OnMessage(l)
  BY <1>2, <1>3, <1>6
<1>7. CASE \/ \E d \in Deliveries : SaveLineChat(d)
           \/ \E l \in Listeners : SaveDiscordChat(l)
  BY <1>3, <1>4, <1>7
<1>8. CASE \E t \in Tasks : Step(t)
  BY <1>8
<1>9. CASE AllReturned
  BY <1>9 DEF AllReturned
<1> QED BY <1>5, <1>6, <1>7, <1>8, <1>9 DEF Next

\* A step from an await: the scope is left, and the call goes on or ends.
LEMMA StepMoves ==
    ASSUME TypeOK, CallsInOrder, NEW t \in Tasks, Step(t)
    PROVE  /\ place[t] \in {"adding", "committing", "replying"}
           /\ batch' = batch
           /\ saving' = [saving EXCEPT ![t] = None]
           /\ \/ Commits(t) \/ NotCommitted
           /\ \A u \in Tasks \ {t} :
                place'[u] = place[u] /\ position'[u] = position[u] /\ answer'[u] = answer[u]
           /\ place' \in [Tasks -> Places] /\ position' \in [Tasks -> Nat]
           /\ answer' \in [Tasks -> Answers]
           /\ \/ Commit(t)
              \/ /\ position'[t] = position[t] /\ answer'[t] \in {answer[t], "null", "error"}
                 /\ place'[t] = "returned" \/ (place'[t] = "replying" /\ answer'[t] = answer[t])
<1> USE DEF TypeOK, Places, Answers, AnswerWith, Move, Leave, NotCommitted
<1>1. CASE Commit(t)
  <2>1. /\ position[t] \in DOMAIN batch[t] /\ batch[t] \in Seq(Events)
        /\ position[t] + 1 \in Nat \ {0} /\ position[t] + 1 <= Len(batch[t]) + 1
    BY <1>1 DEF Commit, CallsInOrder
  <2>2. Proceed(t, batch[t], position[t] + 1)
    BY <1>1 DEF Commit
  <2>3. /\ \A u \in Tasks \ {t} :
            place'[u] = place[u] /\ position'[u] = position[u] /\ answer'[u] = answer[u]
        /\ place' \in [Tasks -> Places] /\ position' \in [Tasks -> Nat]
        /\ answer' \in [Tasks -> Answers]
    BY <2>1, <2>2, ProceedStops
  <2> QED BY <1>1, <2>3 DEF Commit, Commits
<1>2. CASE SaveFails(t)
  BY <1>2 DEF SaveFails, Commits
<1>3. CASE Reply(t) \/ ReplyFails(t)
  <2>1. saving[t] = None
    BY <1>3 DEF Reply, ReplyFails, CallsInOrder
  <2>2. saving' = [saving EXCEPT ![t] = None]
    BY <1>3, <2>1 DEF Reply, ReplyFails
  <2> QED BY <1>3, <2>2 DEF Reply, ReplyFails
<1>4. CASE Die(t)
  BY <1>4 DEF Die, Commits
<1> QED BY <1>1, <1>2, <1>3, <1>4 DEF Step

\* After a commit the call is behind its event, and what it passed over is no text.
LEMMA CommitMoves ==
    ASSUME TypeOK, CallsInOrder, NEW t \in Tasks, Commit(t)
    PROVE  /\ position[t] \in DOMAIN batch[t] /\ position[t] \in Nat
           /\ position[t] < position'[t] /\ position'[t] <= Len(batch[t]) + 1
           /\ \A j \in position[t] + 1 .. position'[t] - 1 : ~IsText(batch[t][j])
           /\ \/ /\ place'[t] = "adding" /\ answer'[t] = answer[t]
                 /\ position'[t] \in DOMAIN batch[t] /\ IsText(batch[t][position'[t]])
              \/ /\ place'[t] = "returned" /\ answer'[t] \in {"OK", "error"}
                 /\ answer'[t] = "OK" => position'[t] = Len(batch[t]) + 1
<1>1. /\ position[t] \in DOMAIN batch[t] /\ batch[t] \in Seq(Events) /\ position[t] \in Nat
      /\ position[t] + 1 \in Nat \ {0} /\ position[t] + 1 <= Len(batch[t]) + 1
  BY DEF Commit, CallsInOrder, TypeOK
<1>2. Proceed(t, batch[t], position[t] + 1)
  BY DEF Commit
<1>3. /\ position[t] + 1 <= position'[t] /\ position'[t] <= Len(batch[t]) + 1
      /\ position' \in [Tasks -> Nat]
      /\ \A j \in position[t] + 1 .. position'[t] - 1 : ~IsText(batch[t][j])
      /\ \/ /\ place'[t] = "adding" /\ answer'[t] = answer[t]
            /\ position'[t] \in DOMAIN batch[t] /\ IsText(batch[t][position'[t]])
         \/ /\ place'[t] = "returned" /\ answer'[t] \in {"OK", "error"}
            /\ answer'[t] = "OK" => position'[t] = Len(batch[t]) + 1
  BY <1>1, <1>2, ProceedStops
<1>4. position[t] < position'[t]
  BY <1>1, <1>3
<1> QED BY <1>1, <1>3, <1>4

\* A call begins at the first event that matters.
LEMMA CallMoves ==
    ASSUME TypeOK, CallsInOrder, NEW t \in Tasks, NEW events \in Seq(Events), Call(t, events)
    PROVE  /\ place[t] = "uncalled" /\ saving[t] = None /\ stored[t] = {}
           /\ answer[t] = "none"
           /\ batch' = [batch EXCEPT ![t] = events]
           /\ chat_messages' = chat_messages /\ saving' = saving /\ stored' = stored
           /\ \A u \in Tasks \ {t} :
                place'[u] = place[u] /\ position'[u] = position[u] /\ answer'[u] = answer[u]
           /\ place' \in [Tasks -> Places] /\ position' \in [Tasks -> Nat]
           /\ answer' \in [Tasks -> Answers]
           /\ position'[t] <= Len(events) + 1
           /\ \A j \in 1 .. position'[t] - 1 : ~IsText(events[j])
           /\ \/ /\ place'[t] = "adding" /\ answer'[t] = answer[t]
                 /\ position'[t] \in DOMAIN events /\ IsText(events[position'[t]])
              \/ /\ place'[t] = "returned" /\ answer'[t] \in {"OK", "error"}
                 /\ answer'[t] = "OK" => position'[t] = Len(events) + 1
<1>1. Proceed(t, events, 1) /\ place[t] = "uncalled"
  BY DEF Call
<1>2. /\ \A u \in Tasks \ {t} :
            place'[u] = place[u] /\ position'[u] = position[u] /\ answer'[u] = answer[u]
      /\ place' \in [Tasks -> Places] /\ position' \in [Tasks -> Nat]
      /\ answer' \in [Tasks -> Answers]
      /\ position'[t] <= Len(events) + 1
      /\ \A j \in 1 .. position'[t] - 1 : ~IsText(events[j])
      /\ \/ /\ place'[t] = "adding" /\ answer'[t] = answer[t]
            /\ position'[t] \in DOMAIN events /\ IsText(events[position'[t]])
         \/ /\ place'[t] = "returned" /\ answer'[t] \in {"OK", "error"}
            /\ answer'[t] = "OK" => position'[t] = Len(events) + 1
  <2>1. 1 \in Nat \ {0} /\ 1 <= Len(events) + 1
    OBVIOUS
  <2> QED BY <1>1, <2>1, ProceedStops
<1>3. saving[t] = None /\ stored[t] = {} /\ answer[t] = "none"
  BY <1>1 DEF CallsInOrder
<1>4. /\ batch' = [batch EXCEPT ![t] = events]
      /\ chat_messages' = chat_messages /\ saving' = saving /\ stored' = stored
  BY DEF Call
<1> QED BY <1>1, <1>2, <1>3, <1>4

-----------------------------------------------------------------------------
(* Each part of the invariant is preserved *)

LEMMA StepTypeOK ==
    ASSUME TypeOK, CallsInOrder, Next
    PROVE  TypeOK'
<1>1. ASSUME NEW t \in Tasks, NEW events \in Seq(Events), Call(t, events)
      PROVE  TypeOK'
  <2>1. /\ place' \in [Tasks -> Places] /\ position' \in [Tasks -> Nat]
        /\ answer' \in [Tasks -> Answers]
        /\ batch' = [batch EXCEPT ![t] = events]
        /\ chat_messages' = chat_messages /\ saving' = saving /\ stored' = stored
    BY <1>1, CallMoves
  <2> QED BY <2>1 DEF TypeOK
<1>2. ASSUME NEW t \in Tasks, NEW row \in Rows, Flush(t, row)
      PROVE  TypeOK'
  BY <1>2 DEF TypeOK, Flush, Move, Places
<1>3. ASSUME NEW t \in Tasks, Step(t)
      PROVE  TypeOK'
  <2>1. /\ batch' = batch
        /\ saving' = [saving EXCEPT ![t] = None]
        /\ Commits(t) \/ NotCommitted
        /\ place' \in [Tasks -> Places] /\ position' \in [Tasks -> Nat]
        /\ answer' \in [Tasks -> Answers]
    BY <1>3, StepMoves
  <2>2. saving' \in [Tasks -> Rows \cup {None}] /\ batch' \in [Tasks -> Seq(Events)]
    BY <2>1 DEF TypeOK
  <2>3. CASE NotCommitted
    BY <2>1, <2>2, <2>3 DEF NotCommitted, TypeOK
  <2>4. CASE Commits(t)
    <3>1. saving[t] \in Rows
      BY <2>4 DEF Commits, CallsInOrder, TypeOK
    <3>2. saving[t].id \in MessageIds
      BY <3>1 DEF Rows
    <3> QED BY <2>1, <2>2, <2>4, <3>1, <3>2 DEF Commits, Committed, TypeOK
  <2> QED BY <2>1, <2>3, <2>4
<1>4. CASE UNCHANGED vars
  BY <1>4 DEF TypeOK, vars
<1> QED BY <1>1, <1>2, <1>3, <1>4, StepCases

LEMMA StepCallsInOrder ==
    ASSUME TypeOK, CallsInOrder, Next
    PROVE  CallsInOrder'
<1> DEFINE Fine(u) ==
        /\ IsInjective(batch[u])
        /\ u \in Deliveries => batch[u] \in Seq(Events \ DiscordEvents)
        /\ position[u] <= Len(batch[u]) + 1
        /\ place[u] = "uncalled" => batch[u] = <<>> /\ position[u] = 0 /\ stored[u] = {}
        /\ place[u] \in {"adding", "committing"} =>
            position[u] \in DOMAIN batch[u] /\ IsText(batch[u][position[u]])
        /\ place[u] = "committing" <=> saving[u] # None
        /\ saving[u] # None => saving[u].content = CurrentEvent(u)
        /\ answer[u] # "none" => place[u] = "returned"
        /\ answer[u] = "OK" => position[u] = Len(batch[u]) + 1
<1>0. \A u \in Tasks : Fine(u)
  BY DEF CallsInOrder
<1>u. ASSUME NEW u \in Tasks,
             place'[u] = place[u], position'[u] = position[u], answer'[u] = answer[u],
             batch'[u] = batch[u], saving'[u] = saving[u], stored'[u] = stored[u]
      PROVE  Fine(u)'
  BY <1>0, <1>u DEF CurrentEvent, IsText
<1>1. ASSUME NEW t \in Tasks, NEW events \in Seq(Events), Call(t, events), IsInjective(events),
             t \in Deliveries => events \in Seq(Events \ DiscordEvents), NEW u \in Tasks
      PROVE  Fine(u)'
  <2>1. /\ saving[t] = None /\ stored[t] = {} /\ answer[t] = "none"
        /\ batch' = [batch EXCEPT ![t] = events]
        /\ saving' = saving /\ stored' = stored
        /\ \A v \in Tasks \ {t} :
            place'[v] = place[v] /\ position'[v] = position[v] /\ answer'[v] = answer[v]
        /\ position'[t] <= Len(events) + 1
        /\ \/ /\ place'[t] = "adding" /\ answer'[t] = answer[t]
              /\ position'[t] \in DOMAIN events /\ IsText(events[position'[t]])
           \/ /\ place'[t] = "returned" /\ answer'[t] \in {"OK", "error"}
              /\ answer'[t] = "OK" => position'[t] = Len(events) + 1
    BY <1>1, CallMoves
  <2>2. CASE u # t
    BY <2>1, <2>2, <1>u DEF TypeOK
  <2>3. CASE u = t
    <3>1. batch'[t] = events /\ saving'[t] = None
      BY <2>1 DEF TypeOK
    <3> QED BY <1>1, <2>1, <2>3, <3>1 DEF IsText
  <2> QED BY <2>2, <2>3
<1>2. ASSUME NEW t \in Tasks, NEW row \in Rows, row.content = CurrentEvent(t),
             place[t] = "adding", Flush(t, row), NEW u \in Tasks
      PROVE  Fine(u)'
  <2>1. /\ saving' = [saving EXCEPT ![t] = row] /\ place' = [place EXCEPT ![t] = "committing"]
        /\ batch' = batch /\ position' = position /\ answer' = answer /\ stored' = stored
    BY <1>2 DEF Flush, Move
  <2>2. CASE u # t
    BY <2>1, <2>2, <1>u DEF TypeOK
  <2>3. CASE u = t
    <3>1. row # None /\ saving'[t] = row /\ place'[t] = "committing"
      BY <2>1, NoRowIsNone DEF TypeOK
    <3>2. CurrentEvent(t)' = CurrentEvent(t)
      BY <2>1 DEF CurrentEvent
    <3>3. answer[t] = "none"
      BY <1>0, <1>2
    <3>4. IsText(batch'[t][position'[t]])
      BY <1>0, <1>2, <2>1 DEF IsText
    <3> QED BY <1>0, <1>2, <2>1, <2>3, <3>1, <3>2, <3>3, <3>4
  <2> QED BY <2>2, <2>3
<1>3. ASSUME NEW t \in Tasks, Step(t), NEW u \in Tasks
      PROVE  Fine(u)'
  <2>1. /\ place[t] \in {"adding", "committing", "replying"}
        /\ batch' = batch /\ saving' = [saving EXCEPT ![t] = None]
        /\ Commits(t) \/ NotCommitted
        /\ \A v \in Tasks \ {t} :
            place'[v] = place[v] /\ position'[v] = position[v] /\ answer'[v] = answer[v]
        /\ \/ Commit(t)
           \/ /\ position'[t] = position[t] /\ answer'[t] \in {answer[t], "null", "error"}
              /\ place'[t] = "returned" \/ (place'[t] = "replying" /\ answer'[t] = answer[t])
    BY <1>3, StepMoves
  <2>2. CASE u # t
    <3>1. stored'[u] = stored[u] /\ saving'[u] = saving[u]
      BY <2>1, <2>2 DEF Commits, Committed, NotCommitted, TypeOK
    <3> QED BY <2>1, <2>2, <3>1, <1>u
  <2>3. CASE u = t
    <3>1. saving'[t] = None /\ answer[t] = "none" /\ batch'[t] = batch[t]
      BY <1>0, <2>1 DEF TypeOK
    <3>2. CASE Commit(t)
      <4>1. /\ position'[t] <= Len(batch[t]) + 1
            /\ \/ /\ place'[t] = "adding" /\ answer'[t] = answer[t]
                  /\ position'[t] \in DOMAIN batch[t] /\ IsText(batch[t][position'[t]])
               \/ /\ place'[t] = "returned" /\ answer'[t] \in {"OK", "error"}
                  /\ answer'[t] = "OK" => position'[t] = Len(batch[t]) + 1
        BY <3>2, CommitMoves
      <4> QED BY <1>0, <2>3, <3>1, <4>1 DEF IsText
    <3>3. CASE /\ position'[t] = position[t] /\ answer'[t] \in {answer[t], "null", "error"}
               /\ place'[t] = "returned" \/ (place'[t] = "replying" /\ answer'[t] = answer[t])
      BY <1>0, <2>3, <3>1, <3>3
    <3> QED BY <2>1, <3>2, <3>3
  <2> QED BY <2>2, <2>3
<1>4. ASSUME UNCHANGED vars, NEW u \in Tasks
      PROVE  Fine(u)'
  BY <1>4, <1>u DEF vars
<1>5. \A u \in Tasks : Fine(u)'
  BY <1>1, <1>2, <1>3, <1>4, StepCases
<1> QED BY <1>5 DEF CallsInOrder

LEMMA StepIdsApart ==
    ASSUME TypeOK, CallsInOrder, IdsApart, Next
    PROVE  IdsApart'
<1>1. ASSUME NEW t \in Tasks, NEW events \in Seq(Events), Call(t, events)
      PROVE  IdsApart'
  BY <1>1 DEF Call, IdsApart
<1>2. ASSUME NEW t \in Tasks, NEW row \in Rows, row.id \in UnusedIds, Flush(t, row)
      PROVE  IdsApart'
  <2>1. /\ saving' = [saving EXCEPT ![t] = row]
        /\ chat_messages' = chat_messages /\ stored' = stored
    BY <1>2 DEF Flush
  <2>2. \A r \in chat_messages : r.id # row.id
    BY <1>2 DEF UnusedIds
  <2>3. \A u \in Tasks : saving[u] # None => saving[u].id # row.id
    BY <1>2 DEF UnusedIds
  <2>4. \A u \in Tasks : saving'[u] = IF u = t THEN row ELSE saving[u]
    BY <2>1 DEF TypeOK
  <2>5. \A u \in Tasks, r \in chat_messages' : saving'[u] # None => r.id # saving'[u].id
    BY <2>1, <2>2, <2>4 DEF IdsApart
  <2>6. \A u, v \in Tasks :
            saving'[u] # None /\ saving'[v] # None /\ u # v => saving'[u].id # saving'[v].id
    BY <2>3, <2>4 DEF IdsApart
  <2>7. \A u \in Tasks : \A id \in stored'[u] : \E r \in chat_messages' : r.id = id
    BY <2>1 DEF IdsApart
  <2> QED BY <2>5, <2>6, <2>7 DEF IdsApart
<1>3. ASSUME NEW t \in Tasks, Step(t)
      PROVE  IdsApart'
  <2>1. saving' = [saving EXCEPT ![t] = None] /\ (Commits(t) \/ NotCommitted)
    BY <1>3, StepMoves
  <2>2. \A u \in Tasks : saving'[u] = IF u = t THEN None ELSE saving[u]
    BY <2>1 DEF TypeOK
  <2>3. CASE NotCommitted
    BY <2>2, <2>3 DEF NotCommitted, IdsApart
  <2>4. CASE Commits(t)
    <3>1. /\ saving[t] # None
          /\ chat_messages' = chat_messages \cup {saving[t]}
          /\ \A u \in Tasks : stored'[u] = IF u = t THEN stored[t] \cup {saving[t].id} ELSE stored[u]
      BY <2>4 DEF Commits, Committed, CallsInOrder, TypeOK
    <3>2. \A u \in Tasks, r \in chat_messages' : saving'[u] # None => r.id # saving'[u].id
      BY <2>2, <3>1 DEF IdsApart
    <3>3. \A u, v \in Tasks :
            saving'[u] # None /\ saving'[v] # None /\ u # v => saving'[u].id # saving'[v].id
      BY <2>2 DEF IdsApart
    <3>4. \A u \in Tasks : \A id \in stored'[u] : \E r \in chat_messages' : r.id = id
      BY <3>1 DEF IdsApart
    <3> QED BY <3>2, <3>3, <3>4 DEF IdsApart
  <2> QED BY <2>1, <2>3, <2>4
<1>4. CASE UNCHANGED vars
  BY <1>4 DEF IdsApart, vars
<1> QED BY <1>1, <1>2, <1>3, <1>4, StepCases

\* How table and stored ids grow in a step: not at all, or by the row of one scope.
LEMMA TableGrows ==
    ASSUME TypeOK, CallsInOrder, IdsApart, Next
    PROVE  \/ chat_messages' = chat_messages /\ stored' = stored
           \/ \E t \in Tasks :
                /\ Step(t) /\ place[t] = "committing" /\ saving[t] # None
                /\ saving[t].content = batch[t][position[t]]
                /\ chat_messages' = chat_messages \cup {saving[t]}
                /\ \A u \in Tasks :
                    stored'[u] = IF u = t THEN stored[t] \cup {saving[t].id} ELSE stored[u]
                /\ \A u \in Tasks : saving[t].id \notin stored[u]
                /\ \A r \in chat_messages : r.id # saving[t].id
<1>1. ASSUME NEW t \in Tasks, Step(t), Commits(t)
      PROVE  /\ place[t] = "committing" /\ saving[t] # None
             /\ saving[t].content = batch[t][position[t]]
             /\ chat_messages' = chat_messages \cup {saving[t]}
             /\ \A u \in Tasks :
                stored'[u] = IF u = t THEN stored[t] \cup {saving[t].id} ELSE stored[u]
             /\ \A u \in Tasks : saving[t].id \notin stored[u]
             /\ \A r \in chat_messages : r.id # saving[t].id
  <2>1. place[t] = "committing" /\ saving[t] # None /\ saving[t].content = batch[t][position[t]]
    BY <1>1 DEF Commits, CallsInOrder, CurrentEvent
  <2>2. /\ chat_messages' = chat_messages \cup {saving[t]}
        /\ \A u \in Tasks :
            stored'[u] = IF u = t THEN stored[t] \cup {saving[t].id} ELSE stored[u]
    BY <1>1 DEF Commits, Committed, TypeOK
  <2>3. /\ \A u \in Tasks : saving[t].id \notin stored[u]
        /\ \A r \in chat_messages : r.id # saving[t].id
    BY <2>1 DEF IdsApart
  <2> QED BY <2>1, <2>2, <2>3
<1>2. ASSUME NEW t \in Tasks, Step(t)
      PROVE  Commits(t) \/ (chat_messages' = chat_messages /\ stored' = stored)
  BY <1>2, StepMoves DEF NotCommitted
<1>3. ASSUME NEW t \in Tasks, NEW events \in Seq(Events), Call(t, events)
      PROVE  chat_messages' = chat_messages /\ stored' = stored
  BY <1>3 DEF Call
<1>4. ASSUME NEW t \in Tasks, NEW row \in Rows, Flush(t, row)
      PROVE  chat_messages' = chat_messages /\ stored' = stored
  BY <1>4 DEF Flush
<1>5. CASE UNCHANGED vars
  BY <1>5 DEF vars
<1> QED BY <1>1, <1>2, <1>3, <1>4, <1>5, StepCases

\* An event that a call has reached stays reached, and its event is the same.
LEMMA ReachedStaysReached ==
    ASSUME TypeOK, CallsInOrder, Next, NEW t \in Tasks, NEW k \in Nat, Reached(t, k)
    PROVE  Reached(t, k)' /\ batch'[t] = batch[t]
<1>1. place[t] # "uncalled" /\ k \in DOMAIN batch[t]
  BY DEF Reached, CallsInOrder
<1>0. position[t] \in Nat
  BY DEF TypeOK
<1>2. ASSUME NEW u \in Tasks, NEW events \in Seq(Events), Call(u, events)
      PROVE  Reached(t, k)' /\ batch'[t] = batch[t]
  <2>1. t # u
    BY <1>1, <1>2, CallMoves
  <2>2. place'[t] = place[t] /\ position'[t] = position[t] /\ batch'[t] = batch[t]
    BY <1>2, <2>1, CallMoves DEF TypeOK
  <2> QED BY <2>2 DEF Reached
<1>3. ASSUME NEW u \in Tasks, NEW row \in Rows, place[u] = "adding", Flush(u, row)
      PROVE  Reached(t, k)' /\ batch'[t] = batch[t]
  <2>1. place' = [place EXCEPT ![u] = "committing"] /\ position' = position /\ batch' = batch
    BY <1>3 DEF Flush, Move
  <2> QED BY <1>3, <2>1 DEF Reached, TypeOK
<1>4. ASSUME NEW u \in Tasks, Step(u)
      PROVE  Reached(t, k)' /\ batch'[t] = batch[t]
  <2>1. /\ place[u] \in {"adding", "committing", "replying"} /\ batch' = batch
        /\ \A v \in Tasks \ {u} : place'[v] = place[v] /\ position'[v] = position[v]
        /\ \/ Commit(u)
           \/ /\ position'[u] = position[u]
              /\ place'[u] = "returned" \/ place'[u] = "replying"
    BY <1>4, StepMoves
  <2>2. CASE t # u
    BY <2>1, <2>2 DEF Reached
  <2>3. CASE t = u /\ Commit(u)
    <3>1. position[t] < position'[t] /\ position'[t] <= Len(batch[t]) + 1 /\ place[t] = "committing"
      BY <2>3, CommitMoves DEF Commit
    <3>2. position'[t] \in Nat
      BY <2>3, <1>4, StepMoves
    <3> QED BY <1>0, <1>1, <2>1, <3>1, <3>2 DEF Reached
  <2>4. CASE t = u /\ ~Commit(u)
    BY <2>1, <2>4 DEF Reached
  <2> QED BY <2>2, <2>3, <2>4
<1>5. CASE UNCHANGED vars
  BY <1>5 DEF vars, Reached
<1> QED BY <1>2, <1>3, <1>4, <1>5, StepCases

\* A call that commits has reached its event, and only then.
LEMMA CommitReaches ==
    ASSUME TypeOK, CallsInOrder, NEW t \in Tasks, Step(t), place[t] = "committing",
           NEW k, k = position[t]
    PROVE  k \in Nat /\ ~Reached(t, k) /\ Reached(t, k)' /\ batch'[t] = batch[t]
<1>1. k \in Nat /\ k \in DOMAIN batch[t]
  BY DEF TypeOK, CallsInOrder
<1>2. ~Reached(t, k)
  BY DEF Reached
<1>3. batch' = batch
  BY StepMoves
<1>4. CASE Commit(t)
  <2>1. position[t] < position'[t]
    BY <1>4, CommitMoves
  <2>2. position'[t] \in Nat
    BY StepMoves
  <2>3. Reached(t, k)'
    BY <1>1, <1>3, <2>1, <2>2 DEF Reached
  <2> QED BY <1>1, <1>2, <1>3, <2>3
<1>5. CASE ~Commit(t)
  <2>1. position'[t] = position[t] /\ place'[t] \in {"returned", "replying"}
    BY <1>5, StepMoves
  <2>2. Reached(t, k)'
    BY <1>1, <1>3, <2>1 DEF Reached
  <2> QED BY <1>1, <1>2, <1>3, <2>2
<1> QED BY <1>4, <1>5

LEMMA StepRowsAreReached ==
    ASSUME TypeOK, CallsInOrder, IdsApart, RowsAreReached, Next
    PROVE  RowsAreReached'
<1> SUFFICES ASSUME NEW u \in Tasks, NEW row \in chat_messages', row.id \in stored'[u]
             PROVE  \E k \in Nat : Reached(u, k)' /\ row.content = batch'[u][k]
  BY DEF RowsAreReached
<1>1. CASE row \in chat_messages /\ row.id \in stored[u]
  <2>1. PICK k \in Nat : Reached(u, k) /\ row.content = batch[u][k]
    BY <1>1 DEF RowsAreReached
  <2>2. Reached(u, k)' /\ batch'[u] = batch[u]
    BY <2>1, ReachedStaysReached
  <2> QED BY <2>1, <2>2
<1>2. CASE ~(row \in chat_messages /\ row.id \in stored[u])
  <2>1. PICK t \in Tasks :
            /\ Step(t) /\ place[t] = "committing" /\ saving[t] # None
            /\ saving[t].content = batch[t][position[t]]
            /\ chat_messages' = chat_messages \cup {saving[t]}
            /\ \A v \in Tasks :
                stored'[v] = IF v = t THEN stored[t] \cup {saving[t].id} ELSE stored[v]
            /\ \A v \in Tasks : saving[t].id \notin stored[v]
            /\ \A r \in chat_messages : r.id # saving[t].id
    BY <1>2, TableGrows
  <2>2. row = saving[t] /\ u = t
    BY <1>2, <2>1
  <2>3. PICK k : k = position[t]
    OBVIOUS
  <2>4. k \in Nat /\ Reached(t, k)' /\ batch'[t] = batch[t]
    BY <2>1, <2>3, CommitReaches
  <2> QED BY <2>1, <2>2, <2>3, <2>4
<1> QED BY <1>1, <1>2

LEMMA StepRowsAreSingle ==
    ASSUME TypeOK, CallsInOrder, IdsApart, RowsAreReached, RowsAreSingle, Next
    PROVE  RowsAreSingle'
<1>1. CASE chat_messages' = chat_messages /\ stored' = stored
  BY <1>1 DEF RowsAreSingle
<1>2. ASSUME NEW t \in Tasks,
             Step(t), place[t] = "committing", saving[t] # None,
             saving[t].content = batch[t][position[t]],
             chat_messages' = chat_messages \cup {saving[t]},
             \A u \in Tasks :
                stored'[u] = IF u = t THEN stored[t] \cup {saving[t].id} ELSE stored[u],
             \A u \in Tasks : saving[t].id \notin stored[u],
             \A r \in chat_messages : r.id # saving[t].id
      PROVE  RowsAreSingle'
  <2>1. \A u \in Tasks : stored'[u] = IF u = t THEN stored[t] \cup {saving[t].id} ELSE stored[u]
    BY <1>2
  <2>2. \A u \in Tasks, row \in chat_messages' : row.id \in stored'[u] =>
            \/ row \in chat_messages /\ row.id \in stored[u]
            \/ u = t /\ row = saving[t]
    BY <1>2
  <2>3. ASSUME NEW row \in chat_messages, row.id \in stored[t], row.content = saving[t].content
        PROVE  FALSE
    <3>1. PICK k \in Nat : Reached(t, k) /\ row.content = batch[t][k]
      BY <2>3 DEF RowsAreReached
    <3>2. k \in DOMAIN batch[t] /\ position[t] \in DOMAIN batch[t] /\ IsInjective(batch[t])
      BY <1>2, <3>1 DEF Reached, CallsInOrder
    <3>3. batch[t][k] = batch[t][position[t]]
      BY <1>2, <2>3, <3>1
    <3>4. k = position[t]
      BY <3>2, <3>3 DEF IsInjective
    <3> QED BY <1>2, <3>1, <3>4, CommitReaches
  <2>4. \A u \in Tasks, r, s \in chat_messages' :
            r.id \in stored'[u] /\ s.id \in stored'[u] /\ r.content = s.content => r = s
    BY <2>2, <2>3 DEF RowsAreSingle
  <2> QED BY <2>4 DEF RowsAreSingle
<1> QED BY <1>1, <1>2, TableGrows

\* What is stored for a call stays stored.
LEMMA RowsOfGrow ==
    ASSUME TypeOK, CallsInOrder, IdsApart, Next, NEW t \in Tasks, NEW e, RowsOf(t, e) # {}
    PROVE  RowsOf(t, e)' # {}
<1>1. PICK row \in chat_messages : row.id \in stored[t] /\ row.content = e
  BY DEF RowsOf
<1>2. row \in chat_messages' /\ row.id \in stored'[t]
  BY <1>1, TableGrows
<1> QED BY <1>1, <1>2 DEF RowsOf

LEMMA StepPassedIsStored ==
    ASSUME TypeOK, CallsInOrder, IdsApart, PassedIsStored, Next
    PROVE  PassedIsStored'
<1> SUFFICES ASSUME NEW u \in Tasks, NEW i \in DOMAIN batch'[u],
                    i < position'[u], IsText(batch[u][i])'
             PROVE  RowsOf(u, batch[u][i])' # {}
  BY DEF PassedIsStored
<1>0. batch[u] \in Seq(Events) /\ position[u] \in Nat
  BY DEF TypeOK
<1>1. ASSUME batch'[u] = batch[u], position'[u] = position[u]
      PROVE  RowsOf(u, batch[u][i])' # {}
  <2>1. RowsOf(u, batch[u][i]) # {}
    BY <1>1 DEF PassedIsStored, IsText
  <2> QED BY <1>1, <2>1, RowsOfGrow DEF RowsOf
<1>2. ASSUME NEW t \in Tasks, NEW events \in Seq(Events), Call(t, events)
      PROVE  RowsOf(u, batch[u][i])' # {}
  <2>1. /\ batch' = [batch EXCEPT ![t] = events]
        /\ \A v \in Tasks \ {t} : position'[v] = position[v]
        /\ \A j \in 1 .. position'[t] - 1 : ~IsText(events[j])
        /\ position' \in [Tasks -> Nat]
    BY <1>2, CallMoves
  <2>2. CASE u # t
    BY <1>1, <2>1, <2>2 DEF TypeOK
  <2>3. CASE u = t
    <3>1. batch'[t] = events
      BY <2>1 DEF TypeOK
    <3>2. i \in 1 .. position'[t] - 1
      BY <2>1, <2>3, <3>1
    <3> QED BY <2>1, <2>3, <3>1, <3>2 DEF IsText
  <2> QED BY <2>2, <2>3
<1>3. ASSUME NEW t \in Tasks, NEW row \in Rows, Flush(t, row)
      PROVE  RowsOf(u, batch[u][i])' # {}
  BY <1>1, <1>3 DEF Flush
<1>4. ASSUME NEW t \in Tasks, Step(t)
      PROVE  RowsOf(u, batch[u][i])' # {}
  <2>1. batch' = batch
    BY <1>4, StepMoves
  <2>2. CASE u # t \/ ~Commit(t)
    <3>1. position'[u] = position[u]
      BY <1>4, <2>2, StepMoves
    <3> QED BY <1>1, <2>1, <3>1
  <2>3. CASE u = t /\ Commit(t)
    <3>1. /\ position[t] \in DOMAIN batch[t] /\ position[t] \in Nat
          /\ \A j \in position[t] + 1 .. position'[t] - 1 : ~IsText(batch[t][j])
      BY <2>3, CommitMoves
    <3>2. position'[t] \in Nat
      BY <1>4, StepMoves
    <3>3. i \in DOMAIN batch[t] /\ i \in Nat /\ IsText(batch[t][i])
      BY <1>0, <2>1, <2>3 DEF IsText
    <3>4. i <= position[t]
      BY <2>3, <3>1, <3>2, <3>3
    <3>5. CASE i < position[t]
      <4>1. RowsOf(t, batch[t][i]) # {}
        BY <3>3, <3>5 DEF PassedIsStored
      <4> QED BY <2>1, <2>3, <4>1, RowsOfGrow DEF RowsOf
    <3>6. CASE i = position[t]
      <4>1. /\ saving[t] # None /\ saving[t].content = batch[t][i]
            /\ chat_messages' = chat_messages \cup {saving[t]}
            /\ stored' = [stored EXCEPT ![t] = @ \cup {saving[t].id}]
        BY <2>3, <3>6 DEF Commit, Committed, CallsInOrder, CurrentEvent
      <4>2. saving[t] \in chat_messages' /\ saving[t].id \in stored'[t]
        BY <4>1 DEF TypeOK
      <4> QED BY <2>1, <2>3, <4>1, <4>2 DEF RowsOf
    <3> QED BY <3>1, <3>3, <3>4, <3>5, <3>6
  <2> QED BY <2>2, <2>3
<1>5. CASE UNCHANGED vars
  BY <1>1, <1>5 DEF vars
<1> QED BY <1>2, <1>3, <1>4, <1>5, StepCases

LEMMA StepIInv == IInv /\ [Next]_vars => IInv'
<1>1. ASSUME IInv, Next PROVE IInv'
  <2> USE <1>1
  <2>1. TypeOK /\ CallsInOrder /\ IdsApart /\ RowsAreReached /\ RowsAreSingle /\ PassedIsStored
    BY DEF IInv
  <2>2. TypeOK' /\ CallsInOrder' /\ IdsApart'
    BY <2>1, StepTypeOK, StepCallsInOrder, StepIdsApart
  <2>3. RowsAreReached' /\ RowsAreSingle' /\ PassedIsStored'
    BY <2>1, StepRowsAreReached, StepRowsAreSingle, StepPassedIsStored
  <2> QED BY <2>2, <2>3 DEF IInv
<1>2. ASSUME IInv, UNCHANGED vars PROVE IInv'
  <2> USE <1>2 DEF vars
  <2>1. TypeOK'
    BY DEF IInv, TypeOK
  <2>2. CallsInOrder'
    BY DEF IInv, CallsInOrder, CurrentEvent, IsText
  <2>3. IdsApart'
    BY DEF IInv, IdsApart
  <2>4. RowsAreReached' /\ RowsAreSingle'
    BY DEF IInv, RowsAreReached, RowsAreSingle, Reached
  <2>5. PassedIsStored'
    BY DEF IInv, PassedIsStored, RowsOf, IsText
  <2> QED BY <2>1, <2>2, <2>3, <2>4, <2>5 DEF IInv
<1> QED BY <1>1, <1>2

-----------------------------------------------------------------------------
(* Theorems *)

\* The inductive invariant holds in every reachable state.
THEOREM Invariant == Spec => []IInv
BY InitIInv, StepIInv, PTL DEF Spec

\* The table and everything the calls hold have their types.
THEOREM TypesAreCorrect == Spec => []TypeOK
<1>1. IInv => TypeOK
  BY DEF IInv
<1> QED BY <1>1, Invariant, PTL

\* The prefix follows from the invariant: nothing is stored for an event that is
\* not reached, and an OK is answered behind the last event.
LEMMA PrefixFromInvariant == IInv => StoresAPrefix
<1> SUFFICES ASSUME IInv, NEW t \in Tasks, NEW i \in DOMAIN batch[t]
             PROVE  /\ i < position[t] /\ IsText(batch[t][i]) => RowsOf(t, batch[t][i]) # {}
                    /\ i > position[t] => RowsOf(t, batch[t][i]) = {}
                    /\ answer[t] = "OK" /\ IsText(batch[t][i]) => RowsOf(t, batch[t][i]) # {}
  BY DEF StoresAPrefix
<1>1. batch[t] \in Seq(Events) /\ position[t] \in Nat /\ IsInjective(batch[t])
  BY DEF IInv, TypeOK, CallsInOrder
<1>2. i \in Nat /\ i <= Len(batch[t])
  BY <1>1
<1>3. i < position[t] /\ IsText(batch[t][i]) => RowsOf(t, batch[t][i]) # {}
  BY DEF IInv, PassedIsStored
<1>4. ASSUME i > position[t], RowsOf(t, batch[t][i]) # {}
      PROVE  FALSE
  <2>1. PICK row \in chat_messages : row.id \in stored[t] /\ row.content = batch[t][i]
    BY <1>4 DEF RowsOf
  <2>2. PICK k \in Nat : Reached(t, k) /\ row.content = batch[t][k]
    BY <2>1 DEF IInv, RowsAreReached
  <2>3. k \in DOMAIN batch[t] /\ k <= position[t]
    BY <2>2 DEF Reached
  <2>4. k = i
    BY <1>1, <2>1, <2>2, <2>3 DEF IsInjective
  <2> QED BY <1>1, <1>2, <1>4, <2>3, <2>4
<1>5. answer[t] = "OK" => i < position[t]
  <2>1. answer[t] = "OK" => position[t] = Len(batch[t]) + 1
    BY DEF IInv, CallsInOrder
  <2> QED BY <1>1, <1>2, <2>1
<1> QED BY <1>3, <1>4, <1>5

\* What a call has stored is a prefix of its batch, and all of it if LINE is
\* answered OK, through failed saves, failed replies and ends of the process.
THEOREM CallsStoreAPrefix == Spec => []StoresAPrefix
BY Invariant, PrefixFromInvariant, PTL

LEMMA OneCopyFromInvariant == IInv => OneCopyPerCall
<1> SUFFICES ASSUME IInv, NEW t \in Tasks, NEW i \in DOMAIN batch[t]
             PROVE  Cardinality(RowsOf(t, batch[t][i])) <= 1
  BY DEF OneCopyPerCall
<1> DEFINE S == RowsOf(t, batch[t][i])
<1>1. \A r, s \in S : r = s
  BY DEF IInv, RowsAreSingle, RowsOf
<1>2. S = {} \/ \E r : S = {r}
  BY <1>1
<1>3. Cardinality(S) \in {0, 1}
  BY <1>2, FS_EmptySet, FS_Singleton
<1> QED BY <1>3

\* A call stores a message at most once.
THEOREM CallsStoreOneCopy == Spec => []OneCopyPerCall
BY Invariant, OneCopyFromInvariant, PTL

-----------------------------------------------------------------------------
(* The order of the history query *)

\* No two rows have one id.
Distinct(rows) == \A r, s \in rows : r.id = s.id => r = s

\* The rows that come before a row.
Ahead(rows, row) == {r \in rows : Newer(r, row)}

LEMMA NewerIsOrder ==
    ASSUME NEW rows \in SUBSET Rows, Distinct(rows)
    PROVE  /\ \A r \in rows : ~Newer(r, r)
           /\ \A r, s, t \in rows : Newer(r, s) /\ Newer(s, t) => Newer(r, t)
           /\ \A r, s \in rows : r # s => Newer(r, s) \/ Newer(s, r)
<1>1. \A r \in rows : r.id \in Int /\ r.occurred_at \in Int
  BY ChatAssumption DEF Rows, MessageIds
<1> QED BY <1>1 DEF Newer, Distinct

\* A row that comes later has more rows ahead of it.
LEMMA RanksDiffer ==
    ASSUME NEW rows \in SUBSET Rows, Distinct(rows), IsFiniteSet(rows),
           NEW r \in rows, NEW s \in rows, Newer(r, s)
    PROVE  /\ Cardinality(Ahead(rows, r)) \in Nat /\ Cardinality(Ahead(rows, s)) \in Nat
           /\ Cardinality(Ahead(rows, r)) < Cardinality(Ahead(rows, s))
<1>1. Ahead(rows, r) \in SUBSET Ahead(rows, s)
  BY NewerIsOrder DEF Ahead
<1>2. r \in Ahead(rows, s) /\ r \notin Ahead(rows, r)
  BY NewerIsOrder DEF Ahead
<1>3. IsFiniteSet(Ahead(rows, r)) /\ IsFiniteSet(Ahead(rows, s))
  <2>1. Ahead(rows, r) \in SUBSET rows /\ Ahead(rows, s) \in SUBSET rows
    BY DEF Ahead
  <2> QED BY <2>1, FS_Subset
<1>4. /\ Cardinality(Ahead(rows, r)) <= Cardinality(Ahead(rows, s))
      /\ Cardinality(Ahead(rows, r)) # Cardinality(Ahead(rows, s))
  BY <1>1, <1>2, <1>3, FS_Subset
<1> QED BY <1>3, <1>4, FS_CardinalityType

\* There is a sequence of the rows in their order: each row stands behind as many
\* places as rows are ahead of it.
LEMMA NewestIsSorted ==
    ASSUME NEW rows \in SUBSET Rows, Distinct(rows), IsFiniteSet(rows)
    PROVE  /\ Cardinality(rows) \in Nat
           /\ Newest(rows) \in [1 .. Cardinality(rows) -> rows]
           /\ \A i, j \in 1 .. Cardinality(rows) :
                i < j => Newer(Newest(rows)[i], Newest(rows)[j])
<1> DEFINE n == Cardinality(rows)
           rank == [r \in rows |-> Cardinality(Ahead(rows, r)) + 1]
<1>1. n \in Nat
  BY FS_CardinalityType
<1>2. rank \in [rows -> 1 .. n]
  <2>1. ASSUME NEW r \in rows PROVE Cardinality(Ahead(rows, r)) + 1 \in 1 .. n
    <3>1. Ahead(rows, r) \in SUBSET rows /\ Ahead(rows, r) # rows
      BY NewerIsOrder DEF Ahead
    <3>2. /\ IsFiniteSet(Ahead(rows, r)) /\ Cardinality(Ahead(rows, r)) <= n
          /\ Cardinality(Ahead(rows, r)) # n
      BY <3>1, FS_Subset
    <3>3. Cardinality(Ahead(rows, r)) \in Nat
      BY <3>2, FS_CardinalityType
    <3> HIDE DEF n
    <3> QED BY <1>1, <3>2, <3>3
  <2> QED BY <2>1
<1>3. \A r, s \in rows : Newer(r, s) => rank[r] < rank[s]
  BY RanksDiffer
<1>4. rank \in Injection(rows, 1 .. n)
  <2>1. \A r, s \in rows : r # s => Newer(r, s) \/ Newer(s, r)
    BY NewerIsOrder
  <2>2. \A r \in rows : rank[r] \in Int
    BY <1>1, <1>2
  <2>3. \A r, s \in rows : rank[r] = rank[s] => r = s
    <3> HIDE DEF rank
    <3> QED BY <1>3, <2>1, <2>2
  <2> QED BY <1>2, <2>3 DEF Injection, IsInjective
<1>5. rank \in Surjection(rows, 1 .. n)
  <2>1. IsFiniteSet(1 .. n) /\ Cardinality(1 .. n) = n
    <3> HIDE DEF n
    <3> QED BY <1>1, FS_Interval
  <2> QED BY <1>4, <2>1, FS_Injection
<1> DEFINE sorted == [i \in 1 .. n |-> CHOOSE r \in rows : rank[r] = i]
<1> HIDE DEF rank
<1>6. \A i \in 1 .. n : sorted[i] \in rows /\ rank[sorted[i]] = i
  BY <1>5 DEF Surjection
<1>7. sorted \in [1 .. n -> rows] /\ DOMAIN sorted = 1 .. n
  BY <1>6
<1> HIDE DEF sorted
<1>8. \A i, j \in 1 .. n : i < j => Newer(sorted[i], sorted[j])
  <2>1. ASSUME NEW i \in 1 .. n, NEW j \in 1 .. n, i < j PROVE Newer(sorted[i], sorted[j])
    <3>1. sorted[i] # sorted[j] /\ ~Newer(sorted[j], sorted[i])
      BY <1>3, <1>6, <2>1
    <3> QED BY <1>6, <3>1, NewerIsOrder
  <2> QED BY <2>1
<1>9. \E s \in [1 .. n -> rows] : \A i, j \in DOMAIN s : i < j => Newer(s[i], s[j])
  BY <1>7, <1>8
<1>10. /\ Newest(rows) \in [1 .. n -> rows]
       /\ \A i, j \in DOMAIN Newest(rows) : i < j => Newer(Newest(rows)[i], Newest(rows)[j])
  BY <1>9 DEF Newest
<1> QED BY <1>1, <1>10

\* Every row has its place in this sequence, and the rows ahead of it the places
\* before.
LEMMA NewestRanks ==
    ASSUME NEW rows \in SUBSET Rows, Distinct(rows), IsFiniteSet(rows)
    PROVE  /\ \A r \in rows : \E i \in 1 .. Cardinality(rows) : Newest(rows)[i] = r
           /\ \A i, j \in 1 .. Cardinality(rows) : Newest(rows)[i] = Newest(rows)[j] => i = j
           /\ \A i \in 1 .. Cardinality(rows) :
                Cardinality(Ahead(rows, Newest(rows)[i])) = i - 1
<1> DEFINE n == Cardinality(rows)
           s == Newest(rows)
<1>1. /\ n \in Nat /\ s \in [1 .. n -> rows]
      /\ \A i, j \in 1 .. n : i < j => Newer(s[i], s[j])
  BY NewestIsSorted
<1> HIDE DEF n, s
<1>2. \A i, j \in 1 .. n : s[i] = s[j] => i = j
  <2>1. \A i, j \in 1 .. n : i < j => s[i] # s[j]
    BY <1>1, NewerIsOrder
  <2> QED BY <1>1, <2>1
<1>3. s \in Injection(1 .. n, rows)
  BY <1>1, <1>2 DEF Injection, IsInjective
<1>4. s \in Surjection(1 .. n, rows)
  BY <1>1, <1>3, FS_Injection, FS_Interval DEF n
<1>5. \A r \in rows : \E i \in 1 .. n : s[i] = r
  BY <1>4 DEF Surjection
<1>6. ASSUME NEW i \in 1 .. n PROVE Cardinality(Ahead(rows, s[i])) = i - 1
  <2> DEFINE f == [j \in 1 .. i - 1 |-> s[j]]
  <2>1. i \in Nat /\ i - 1 \in Nat /\ 1 .. i - 1 \subseteq 1 .. n
    BY <1>1
  <2>2. \A j \in 1 .. i - 1 : f[j] \in Ahead(rows, s[i])
    BY <1>1, <2>1 DEF Ahead
  <2>3. \A r \in Ahead(rows, s[i]) : \E j \in 1 .. i - 1 : f[j] = r
    <3> SUFFICES ASSUME NEW r \in Ahead(rows, s[i]) PROVE \E j \in 1 .. i - 1 : s[j] = r
      OBVIOUS
    <3>1. PICK j \in 1 .. n : s[j] = r
      BY <1>5 DEF Ahead
    <3>2. Newer(s[j], s[i]) /\ s[i] \in rows /\ s[j] \in rows
      BY <1>1, <3>1 DEF Ahead
    <3>3. j # i /\ ~(i < j)
      BY <1>1, <3>2, NewerIsOrder
    <3>4. j \in 1 .. i - 1
      BY <1>1, <3>3
    <3> QED BY <3>1, <3>4
  <2>4. f \in [1 .. i - 1 -> Ahead(rows, s[i])]
    BY <2>2
  <2>5. f \in Surjection(1 .. i - 1, Ahead(rows, s[i]))
    <3> HIDE DEF f
    <3> QED BY <2>3, <2>4 DEF Surjection
  <2>6. f \in Injection(1 .. i - 1, Ahead(rows, s[i]))
    <3>1. \A j, k \in 1 .. i - 1 : f[j] = f[k] => j = k
      BY <1>2, <2>1
    <3> HIDE DEF f
    <3> QED BY <2>4, <3>1 DEF Injection, IsInjective
  <2>7. IsFiniteSet(1 .. i - 1) /\ Cardinality(1 .. i - 1) = i - 1
    BY <2>1, FS_Interval
  <2> HIDE DEF f
  <2> QED BY <2>5, <2>6, <2>7, FS_Surjection
<1> QED BY <1>2, <1>5, <1>6 DEF n, s

-----------------------------------------------------------------------------
(* Rows and the messages they are made from *)

\* The message a save makes of an event.
MessageOf(id, e) ==
    IF e \in DiscordEvents
    THEN CreateDiscord(id, "DM", About[e].id, e, About[e].time)
    ELSE CreateLine(id, SourceScope(About[e]), e, About[e].time)

\* Events that are stored at all.
Storable == {e \in Events : IsText(e)}

LEMMA DiscordRows ==
    ASSUME NEW id \in MessageIds, NEW e \in Storable, e \in DiscordEvents, NEW row,
           row = ToOrm(MessageOf(id, e))
    PROVE  /\ row \in Rows /\ row.id = id /\ row.content = e /\ row.occurred_at = About[e].time
           /\ FromOrm(row) = MessageOf(id, e) /\ MessageOf(id, e) \in Messages
           /\ \A scope \in ConversationScope : Matches(row, scope) <=> InConversation(e, scope)
<1> DEFINE scope == [guild_id |-> "DM", channel_id |-> About[e].id]
           json == [platform |-> "DISCORD", guild_id |-> "DM", channel_id |-> About[e].id]
<1>1. /\ e \in Contents /\ About[e].id \in Identifiers /\ About[e].time \in Nat
      /\ "DM" \in Identifiers /\ id \in Nat
  BY ChatAssumption DEF Storable, MessageIds
<1>2. MessageOf(id, e) = [id |-> id, platform |-> "DISCORD", conversation_scope |-> scope,
                          content |-> e, occurred_at |-> About[e].time]
  BY DEF MessageOf, CreateDiscord, Message
<1>3. scope \in DiscordConversationScope /\ scope \in ConversationScope
  BY <1>1 DEF DiscordConversationScope, ConversationScope
<1>4. ToPrimitive(scope) = json
  BY DEF ToPrimitive, IsDiscord
<1>5. row = [id |-> id, platform |-> "DISCORD", conversation_scope |-> json,
             content |-> e, occurred_at |-> About[e].time]
  <2> HIDE DEF scope, json
  <2> QED BY <1>2, <1>4 DEF ToOrm
<1>6. row \in Rows
  <2>1. json \in {ToPrimitive(s) : s \in ConversationScope}
    BY <1>3, <1>4
  <2> HIDE DEF json
  <2> QED BY <1>1, <1>5, <2>1 DEF Rows
<1>7. MessageOf(id, e) \in Messages
  <2> HIDE DEF scope
  <2> QED BY <1>1, <1>2, <1>3 DEF Messages
<1>8. ScopeFromOrm(row.platform, row.conversation_scope) = scope
  <2>1. ScopeFromOrm("DISCORD", json) = scope
    BY DEF ScopeFromOrm
  <2> HIDE DEF scope, json
  <2> QED BY <1>5, <2>1
<1>9. FromOrm(row) = MessageOf(id, e)
  <2>1. scope # Invalid
    BY <1>3, InvalidAssumption
  <2> HIDE DEF scope, json
  <2> QED BY <1>2, <1>5, <1>8, <2>1 DEF FromOrm
<1>10. ASSUME NEW s \in ConversationScope
       PROVE  Matches(row, s) <=> InConversation(e, s)
  <2>1. row.platform = "DISCORD" /\ row.conversation_scope = json
    BY <1>5
  <2>2. CASE s \in DiscordConversationScope
    <3>1. IsDiscord(s) /\ s = [guild_id |-> s.guild_id, channel_id |-> s.channel_id]
      BY <2>2 DEF DiscordConversationScope, IsDiscord
    <3>2. Matches(row, s) <=> s.guild_id = "DM" /\ s.channel_id = About[e].id
      BY <2>1, <3>1 DEF Matches, Platform
    <3>3. InConversation(e, s) <=> s = scope
      BY DEF InConversation
    <3> QED BY <3>1, <3>2, <3>3
  <2>3. CASE s \notin DiscordConversationScope
    <3>1. DOMAIN s = LineFields
      BY <2>3 DEF ConversationScope, LineConversationScope
    <3>2. ~IsDiscord(s)
      BY <3>1 DEF IsDiscord, LineFields
    <3>3. ~Matches(row, s)
      BY <2>1, <3>2 DEF Matches, Platform
    <3>4. s # scope
      BY <1>3, <2>3
    <3> QED BY <3>3, <3>4 DEF InConversation
  <2> QED BY <2>2, <2>3
<1> QED BY <1>1, <1>5, <1>6, <1>7, <1>9, <1>10

\* A scope made from a source tells its kind and its identifier.
LEMMA SourcesOfScopes ==
    ASSUME NEW id \in Identifiers
    PROVE  /\ Kind(LineUser(id)) = "user" /\ Locator(LineUser(id)) = id
           /\ Kind(LineGroup(id)) = "group" /\ Locator(LineGroup(id)) = id
           /\ Kind(LineRoom(id)) = "room" /\ Locator(LineRoom(id)) = id
           /\ ~IsDiscord(LineUser(id)) /\ ~IsDiscord(LineGroup(id)) /\ ~IsDiscord(LineRoom(id))
<1>1. id # None
  BY IdentifiersAssumption
<1>2. Kind(LineUser(id)) = "user" /\ Kind(LineGroup(id)) = "group" /\ Kind(LineRoom(id)) = "room"
  BY <1>1 DEF Kind, LineUser, LineGroup, LineRoom, LineFields
<1>3. LocatorField(LineUser(id)) = "line_user_id"
  <2>1. \A f \in LineFields : LineUser(id)[f] # None <=> f = "line_user_id"
    BY <1>1 DEF LineUser, LineFields
  <2> QED BY <2>1 DEF LocatorField, LineFields
<1>4. LocatorField(LineGroup(id)) = "line_group_id"
  <2>1. \A f \in LineFields : LineGroup(id)[f] # None <=> f = "line_group_id"
    BY <1>1 DEF LineGroup, LineFields
  <2> QED BY <2>1 DEF LocatorField, LineFields
<1>5. LocatorField(LineRoom(id)) = "line_room_id"
  <2>1. \A f \in LineFields : LineRoom(id)[f] # None <=> f = "line_room_id"
    BY <1>1 DEF LineRoom, LineFields
  <2> QED BY <2>1 DEF LocatorField, LineFields
<1>6. /\ Locator(LineUser(id)) = id /\ Locator(LineGroup(id)) = id /\ Locator(LineRoom(id)) = id
  BY <1>3, <1>4, <1>5 DEF Locator, LineUser, LineGroup, LineRoom, LineFields
<1>7. ~IsDiscord(LineUser(id)) /\ ~IsDiscord(LineGroup(id)) /\ ~IsDiscord(LineRoom(id))
  BY DEF IsDiscord, LineUser, LineGroup, LineRoom, LineFields
<1> QED BY <1>2, <1>6, <1>7

LEMMA LineRows ==
    ASSUME NEW id \in MessageIds, NEW e \in Storable, e \notin DiscordEvents, NEW row,
           row = ToOrm(MessageOf(id, e))
    PROVE  /\ row \in Rows /\ row.id = id /\ row.content = e /\ row.occurred_at = About[e].time
           /\ FromOrm(row) = MessageOf(id, e) /\ MessageOf(id, e) \in Messages
           /\ \A scope \in ConversationScope : Matches(row, scope) <=> InConversation(e, scope)
<1> DEFINE kind == About[e].in
           source == About[e].id
           scope == SourceScope(About[e])
           json == [platform |-> "LINE", kind |-> kind, locator |-> source]
<1>1. /\ e \in Contents /\ source \in Identifiers /\ About[e].time \in Nat
      /\ kind \in {"user", "group", "room"} /\ id \in Nat
  BY ChatAssumption DEF Storable, MessageIds, IsText
<1>2. MessageOf(id, e) = [id |-> id, platform |-> "LINE", conversation_scope |-> scope,
                          content |-> e, occurred_at |-> About[e].time]
  BY DEF MessageOf, CreateLine, Message
<1>3. /\ kind = "user" => scope = LineUser(source)
      /\ kind = "group" => scope = LineGroup(source)
      /\ kind = "room" => scope = LineRoom(source)
  BY <1>1 DEF SourceScope
<1> HIDE DEF scope
<1>4. scope \in ConversationScope /\ ~IsDiscord(scope) /\ Kind(scope) = kind /\ Locator(scope) = source
  BY <1>1, <1>3, ScopesOfSources, SourcesOfScopes
<1>5. ToPrimitive(scope) = json
  BY <1>4 DEF ToPrimitive
<1>6. row = [id |-> id, platform |-> "LINE", conversation_scope |-> json,
             content |-> e, occurred_at |-> About[e].time]
  <2> HIDE DEF json
  <2> QED BY <1>2, <1>5 DEF ToOrm
<1>7. row \in Rows
  <2>1. json \in {ToPrimitive(s) : s \in ConversationScope}
    BY <1>4, <1>5
  <2> HIDE DEF json
  <2> QED BY <1>1, <1>6, <2>1 DEF Rows
<1>8. MessageOf(id, e) \in Messages
  BY <1>1, <1>2, <1>4 DEF Messages
<1>9. ScopeFromOrm(row.platform, row.conversation_scope) = scope
  <2>1. ScopeFromOrm("LINE", json) = CASE kind = "user" -> LineUser(source)
                                       [] kind = "group" -> LineGroup(source)
                                       [] kind = "room" -> LineRoom(source)
                                       [] OTHER -> Invalid
    <3>1. json["platform"] = "LINE" /\ json.kind = kind /\ json.locator = source
          /\ DOMAIN json = {"platform", "kind", "locator"}
      OBVIOUS
    <3> HIDE DEF json
    <3> QED BY <3>1 DEF ScopeFromOrm
  <2> HIDE DEF json, kind, source
  <2> QED BY <1>1, <1>3, <1>6, <2>1
<1>10. FromOrm(row) = MessageOf(id, e)
  <2>1. scope # Invalid
    BY <1>4, InvalidAssumption
  <2> HIDE DEF json
  <2> QED BY <1>2, <1>6, <1>9, <2>1 DEF FromOrm
<1>11. ASSUME NEW s \in ConversationScope
       PROVE  Matches(row, s) <=> InConversation(e, s)
  <2>1. row.platform = "LINE" /\ row.conversation_scope = json
    BY <1>6
  <2>2. CASE IsDiscord(s)
    BY <2>1, <2>2 DEF Matches, Platform, InConversation
  <2>3. CASE ~IsDiscord(s)
    <3>1. Matches(row, s) <=> kind = Kind(s) /\ source = Locator(s)
      BY <2>1, <2>3 DEF Matches, Platform
    <3> QED BY <2>3, <3>1 DEF InConversation
  <2> QED BY <2>2, <2>3
<1> QED BY <1>1, <1>6, <1>7, <1>8, <1>10, <1>11

\* A row restores to the message it was made from, and the query finds it in the
\* conversation of its event and in no other.
LEMMA RowsRestore ==
    ASSUME NEW id \in MessageIds, NEW e \in Storable, NEW row, row = ToOrm(MessageOf(id, e))
    PROVE  /\ row \in Rows /\ row.id = id /\ row.content = e /\ row.occurred_at = About[e].time
           /\ FromOrm(row) = MessageOf(id, e) /\ MessageOf(id, e) \in Messages
           /\ \A scope \in ConversationScope : Matches(row, scope) <=> InConversation(e, scope)
<1>1. CASE e \in DiscordEvents
  BY <1>1, DiscordRows
<1>2. CASE e \notin DiscordEvents
  BY <1>2, LineRows
<1> QED BY <1>1, <1>2

-----------------------------------------------------------------------------
(* The table of messages *)

\* A listener is given what Discord announces.
ListenersHear == \A l \in Listeners : batch[l] \in Seq(DiscordEvents)

\* Every row, committed or about to be, is what a save made of its event.
RowsAreMade ==
    /\ \A row \in chat_messages :
        row.content \in Storable /\ row = ToOrm(MessageOf(row.id, row.content))
    /\ \A t \in Tasks : saving[t] # None =>
        /\ saving[t].content \in Storable
        /\ saving[t] = ToOrm(MessageOf(saving[t].id, saving[t].content))

LogInv == ListenersHear /\ RowsAreMade /\ Distinct(chat_messages) /\ IsFiniteSet(chat_messages)

\* What a save flushes.
LEMMA FlushedIsMade ==
    ASSUME TypeOK, CallsInOrder, ListenersHear, NEW t \in Tasks,
           \/ t \in Deliveries /\ SaveLineChat(t)
           \/ t \in Listeners /\ SaveDiscordChat(t)
    PROVE  \E id \in MessageIds :
                /\ CurrentEvent(t) \in Storable
                /\ Flush(t, ToOrm(MessageOf(id, CurrentEvent(t))))
<1> DEFINE e == CurrentEvent(t)
<1>1. place[t] = "adding"
  BY DEF SaveLineChat, SaveDiscordChat, Flush
<1>2. position[t] \in DOMAIN batch[t] /\ IsText(e) /\ e \in Events /\ batch[t] \in Seq(Events)
  BY <1>1 DEF CallsInOrder, CurrentEvent, TypeOK
<1>3. e \in Storable
  BY <1>2 DEF Storable
<1>4. CASE t \in Deliveries /\ SaveLineChat(t)
  <2>1. e \notin DiscordEvents
    BY <1>2, <1>4 DEF CallsInOrder, CurrentEvent
  <2>2. PICK id \in UnusedIds :
            Flush(t, ToOrm(CreateLine(id, SourceScope(About[e]), e, About[e].time)))
    BY <1>4 DEF SaveLineChat
  <2>3. id \in MessageIds
    BY DEF UnusedIds
  <2> QED BY <1>3, <2>1, <2>2, <2>3 DEF MessageOf
<1>5. CASE t \in Listeners /\ SaveDiscordChat(t)
  <2>1. e \in DiscordEvents
    BY <1>2, <1>5 DEF ListenersHear, CurrentEvent
  <2>2. PICK id \in UnusedIds :
            Flush(t, ToOrm(CreateDiscord(id, "DM", About[e].id, e, About[e].time)))
    BY <1>5 DEF SaveDiscordChat
  <2>3. id \in MessageIds
    BY DEF UnusedIds
  <2> QED BY <1>3, <2>1, <2>2, <2>3 DEF MessageOf
<1> QED BY <1>4, <1>5

LEMMA InitLogInv == Init => LogInv
<1> SUFFICES ASSUME Init PROVE LogInv
  OBVIOUS
<1>1. <<>> \in Seq(DiscordEvents) /\ IsFiniteSet({})
  BY FS_EmptySet
<1> QED BY <1>1 DEF Init, LogInv, ListenersHear, RowsAreMade, Distinct, Tasks

LEMMA StepListenersHear ==
    ASSUME TypeOK, CallsInOrder, ListenersHear, Next
    PROVE  ListenersHear'
<1>0. Deliveries \cap Listeners = {} /\ batch \in [Tasks -> Seq(Events)]
  BY ChatAssumption DEF TypeOK
<1>1. ASSUME NEW d \in Deliveries, HandleCallback(d) PROVE ListenersHear'
  <2>1. \A l \in Listeners : batch'[l] = batch[l]
    BY <1>0, <1>1 DEF HandleCallback, Call, Tasks
  <2> QED BY <2>1 DEF ListenersHear
<1>2. ASSUME NEW l \in Listeners, OnMessage(l) PROVE ListenersHear'
  <2>1. PICK e \in DiscordEvents : batch' = [batch EXCEPT ![l] = <<e>>]
    BY <1>2 DEF OnMessage, Call
  <2>2. <<e>> \in Seq(DiscordEvents)
    OBVIOUS
  <2> QED BY <1>0, <2>1, <2>2 DEF ListenersHear, Tasks
<1>3. ASSUME batch' = batch PROVE ListenersHear'
  BY <1>3 DEF ListenersHear
<1>4. ASSUME NEW t \in Tasks, SaveLineChat(t) \/ SaveDiscordChat(t) PROVE batch' = batch
  BY <1>4 DEF SaveLineChat, SaveDiscordChat, Flush
<1>5. ASSUME NEW t \in Tasks, Step(t) PROVE batch' = batch
  BY <1>5, StepMoves
<1>6. CASE AllReturned
  BY <1>3, <1>6 DEF AllReturned, vars
<1> QED BY <1>1, <1>2, <1>3, <1>4, <1>5, <1>6 DEF Next, Tasks

LEMMA StepLogInv == IInv /\ LogInv /\ [Next]_vars => LogInv'
<1> SUFFICES ASSUME IInv, LogInv, [Next]_vars PROVE LogInv'
  OBVIOUS
<1>0. TypeOK /\ CallsInOrder /\ IdsApart
  BY DEF IInv
<1>1. CASE UNCHANGED vars
  BY <1>1 DEF vars, LogInv, ListenersHear, RowsAreMade, Distinct
<1>2. CASE Next
  <2>1. ListenersHear'
    BY <1>0, <1>2, StepListenersHear DEF LogInv
  <2>2. /\ \A row \in chat_messages' :
            row \in chat_messages \/ \E t \in Tasks : saving[t] # None /\ row = saving[t]
        /\ Distinct(chat_messages') /\ IsFiniteSet(chat_messages')
    <3>1. CASE chat_messages' = chat_messages
      BY <3>1 DEF LogInv
    <3>2. ASSUME NEW t \in Tasks, saving[t] # None,
                 chat_messages' = chat_messages \cup {saving[t]},
                 \A r \in chat_messages : r.id # saving[t].id
          PROVE  /\ \A row \in chat_messages' :
                    row \in chat_messages \/ \E u \in Tasks : saving[u] # None /\ row = saving[u]
                 /\ Distinct(chat_messages') /\ IsFiniteSet(chat_messages')
      <4>1. Distinct(chat_messages')
        BY <3>2 DEF LogInv, Distinct
      <4>2. IsFiniteSet(chat_messages')
        BY <3>2, FS_AddElement DEF LogInv
      <4> QED BY <3>2, <4>1, <4>2
    <3> QED BY <1>0, <1>2, <3>1, <3>2, TableGrows
  <2>3. \A row \in chat_messages' :
            row.content \in Storable /\ row = ToOrm(MessageOf(row.id, row.content))
    BY <2>2 DEF LogInv, RowsAreMade
  <2>4. ASSUME NEW t \in Tasks, saving'[t] # None
        PROVE  /\ saving'[t].content \in Storable
               /\ saving'[t] = ToOrm(MessageOf(saving'[t].id, saving'[t].content))
    <3>1. CASE saving'[t] = saving[t]
      BY <2>4, <3>1 DEF LogInv, RowsAreMade
    <3>2. CASE saving'[t] # saving[t]
      <4>1. ASSUME NEW u \in Tasks, \/ u \in Deliveries /\ SaveLineChat(u)
                                    \/ u \in Listeners /\ SaveDiscordChat(u)
            PROVE  /\ saving'[t].content \in Storable
                   /\ saving'[t] = ToOrm(MessageOf(saving'[t].id, saving'[t].content))
        <5>1. PICK id \in MessageIds :
                /\ CurrentEvent(u) \in Storable
                /\ Flush(u, ToOrm(MessageOf(id, CurrentEvent(u))))
          BY <1>0, <4>1, FlushedIsMade DEF LogInv
        <5>2. PICK row : row = ToOrm(MessageOf(id, CurrentEvent(u)))
          OBVIOUS
        <5>3. row.id = id /\ row.content = CurrentEvent(u)
          BY <5>1, <5>2, RowsRestore
        <5>4. saving'[t] = row
          BY <1>0, <3>2, <5>1, <5>2 DEF Flush, TypeOK
        <5> QED BY <5>1, <5>2, <5>3, <5>4
      <4>2. ASSUME NEW u \in Tasks, Step(u) PROVE FALSE
        <5>1. saving' = [saving EXCEPT ![u] = None]
          BY <1>0, <4>2, StepMoves
        <5> QED BY <1>0, <2>4, <3>2, <5>1 DEF TypeOK
      <4>3. ASSUME saving' = saving PROVE FALSE
        BY <3>2, <4>3
      <4>4. ASSUME NEW u \in Tasks, HandleCallback(u) \/ OnMessage(u) PROVE saving' = saving
        BY <4>4 DEF HandleCallback, OnMessage, Call
      <4>5. CASE AllReturned
        BY <4>3, <4>5 DEF AllReturned, vars
      <4> QED BY <1>2, <4>1, <4>2, <4>3, <4>4, <4>5 DEF Next, Tasks
    <3> QED BY <3>1, <3>2
  <2> QED BY <2>1, <2>2, <2>3, <2>4 DEF LogInv, RowsAreMade
<1> QED BY <1>1, <1>2

\* The log of messages holds what saves made, under ids of their own.
THEOREM LogInvariant == Spec => []LogInv
BY InitLogInv, StepLogInv, Invariant, PTL DEF Spec

-----------------------------------------------------------------------------
(* The window of a query *)

\* A table as saves leave it.
MadeBySaves(rows) ==
    /\ rows \in SUBSET Rows /\ Distinct(rows) /\ IsFiniteSet(rows)
    /\ \A row \in rows : row.content \in Storable /\ row = ToOrm(MessageOf(row.id, row.content))

Selected(rows, scope) == {row \in rows : Matches(row, scope)}

LEMMA TablesAreMade == IInv /\ LogInv => MadeBySaves(chat_messages)
BY DEF IInv, TypeOK, LogInv, RowsAreMade, MadeBySaves

LEMMA RestoredRows ==
    ASSUME NEW rows, MadeBySaves(rows), NEW row \in rows
    PROVE  /\ FromOrm(row) \in Messages /\ FromOrm(row) # Invalid
           /\ FromOrm(row).id = row.id /\ FromOrm(row).content = row.content
           /\ row.id \in Int /\ row.occurred_at = About[row.content].time /\ row.occurred_at \in Int
           /\ \A scope \in ConversationScope : Matches(row, scope) <=> InConversation(row.content, scope)
<1>1. row \in Rows /\ row.content \in Storable /\ row = ToOrm(MessageOf(row.id, row.content))
  BY DEF MadeBySaves
<1>2. row.id \in MessageIds /\ row.id \in Int /\ row.occurred_at \in Int
  BY <1>1, ChatAssumption DEF Rows, MessageIds
<1>3. PICK id \in MessageIds, e \in Storable : id = row.id /\ e = row.content
  BY <1>1, <1>2
<1>4. /\ row.occurred_at = About[e].time
      /\ FromOrm(row) = MessageOf(id, e) /\ MessageOf(id, e) \in Messages
      /\ \A scope \in ConversationScope : Matches(row, scope) <=> InConversation(e, scope)
  BY <1>1, <1>3, RowsRestore
<1>5. MessageOf(id, e).id = id /\ MessageOf(id, e).content = e
  BY DEF MessageOf, CreateDiscord, CreateLine, Message
<1>6. FromOrm(row) # Invalid
  BY <1>4, InvalidAssumption
<1> QED BY <1>2, <1>3, <1>4, <1>5, <1>6

LEMMA SelectedIsATable ==
    ASSUME NEW rows, MadeBySaves(rows), NEW scope
    PROVE  MadeBySaves(Selected(rows, scope))
<1>1. Selected(rows, scope) \in SUBSET rows
  BY DEF Selected
<1>2. IsFiniteSet(Selected(rows, scope))
  BY <1>1, FS_Subset DEF MadeBySaves
<1> QED BY <1>1, <1>2 DEF MadeBySaves, Distinct

\* Order of rows and order of messages.
LEMMA NewerIsLater ==
    ASSUME NEW rows, MadeBySaves(rows), NEW r \in rows, NEW s \in rows, Newer(r, s)
    PROVE  Before(FromOrm(s), FromOrm(r))
BY RestoredRows DEF Newer, Before

LEMMA FirstOfSequence ==
    ASSUME NEW S, NEW s \in Seq(S), NEW m \in 0 .. Len(s)
    PROVE  /\ Len(Reverse(SubSeq(s, 1, m))) = m
           /\ DOMAIN Reverse(SubSeq(s, 1, m)) = 1 .. m
           /\ \A i \in 1 .. m : Reverse(SubSeq(s, 1, m))[i] = s[m + 1 - i]
<1> DEFINE f == SubSeq(s, 1, m)
<1>1. f \in Seq(S) /\ Len(f) = m /\ \A i \in 1 .. m : f[i] = s[i]
  OBVIOUS
<1> HIDE DEF f
<1>2. Reverse(f) = [i \in 1 .. m |-> f[m - i + 1]]
  BY <1>1 DEF Reverse
<1>3. m \in Nat
  OBVIOUS
<1>4. Len(Reverse(f)) = m /\ DOMAIN Reverse(f) = 1 .. m
  BY <1>2, <1>3
<1>5. \A i \in 1 .. m : Reverse(f)[i] = s[m + 1 - i]
  <2> SUFFICES ASSUME NEW i \in 1 .. m PROVE Reverse(f)[i] = s[m + 1 - i]
    OBVIOUS
  <2>1. m - i + 1 \in 1 .. m /\ m - i + 1 = m + 1 - i
    BY <1>3
  <2> QED BY <1>1, <1>2, <2>1
<1> QED BY <1>4, <1>5 DEF f

LEMMA MinOfTwo ==
    ASSUME NEW a \in Int, NEW b \in Int
    PROVE  Min({a, b}) = IF a < b THEN a ELSE b
<1>1. PICK m \in {a, b} : \A y \in {a, b} : m =< y
  <2>1. a =< b \/ b =< a
    OBVIOUS
  <2> QED BY <2>1
<1>2. Min({a, b}) \in {a, b} /\ \A y \in {a, b} : Min({a, b}) =< y
  BY <1>1 DEF Min
<1> QED BY <1>2

\* What the query answers: the first rows of the order, turned round and restored.
LEMMA WindowIs ==
    ASSUME NEW rows, MadeBySaves(rows), NEW scope \in ConversationScope, NEW limit \in Int,
           NEW newest, newest = Newest(Selected(rows, scope)),
           NEW n, n = Cardinality(Selected(rows, scope)),
           NEW m, m = IF limit < n THEN limit ELSE n
    PROVE  /\ n \in Nat
           /\ limit <= 0 => ~RecentHistory(rows, scope, limit).ok
           /\ limit > 0 =>
                /\ RecentHistory(rows, scope, limit).ok
                /\ RecentHistory(rows, scope, limit).messages =
                        [i \in 1 .. m |-> FromOrm(newest[m + 1 - i])]
<1> DEFINE S == Selected(rows, scope)
<1>1. MadeBySaves(S)
  BY SelectedIsATable
<1>2. n \in Nat /\ newest \in [1 .. n -> S]
  BY <1>1, NewestIsSorted DEF MadeBySaves
<1>3. newest \in Seq(S) /\ Len(newest) = n
  <2> HIDE DEF S
  <2> QED BY <1>2
<1>4. Min({limit, Len(newest)}) = m
  BY <1>2, <1>3, MinOfTwo
<1> DEFINE taken == Reverse(SubSeq(newest, 1, m))
           messages == [i \in DOMAIN taken |-> FromOrm(taken[i])]
<1>5. RecentHistory(rows, scope, limit) =
        IF limit <= 0 \/ \E i \in DOMAIN messages : messages[i] = Invalid
        THEN Err
        ELSE Ok(messages)
  BY <1>4 DEF RecentHistory, Selected
<1>6. CASE limit <= 0
  <2>1. RecentHistory(rows, scope, limit) = Err
    BY <1>5, <1>6
  <2> QED BY <1>2, <1>6, <2>1 DEF Err
<1>7. CASE limit > 0
  <2>1. m \in 0 .. Len(newest)
    BY <1>2, <1>3, <1>7
  <2>2. DOMAIN taken = 1 .. m /\ \A i \in 1 .. m : taken[i] = newest[m + 1 - i]
    BY <1>3, <2>1, FirstOfSequence
  <2> HIDE DEF taken, S
  <2>3. messages = [i \in 1 .. m |-> FromOrm(newest[m + 1 - i])]
    BY <2>2
  <2>4. \A i \in 1 .. m : newest[m + 1 - i] \in S
    BY <1>2, <1>3, <2>1
  <2>5. \A i \in DOMAIN messages : messages[i] # Invalid
    BY <1>1, <2>3, <2>4, RestoredRows
  <2> HIDE DEF messages
  <2>6. RecentHistory(rows, scope, limit) = Ok(messages)
    BY <1>5, <1>7, <2>5
  <2> QED BY <1>2, <1>7, <2>3, <2>6 DEF Ok
<1> QED BY <1>2, <1>6, <1>7

\* A row is shown exactly if it is selected and fewer rows than the limit are ahead.
LEMMA WindowHolds ==
    ASSUME NEW rows, MadeBySaves(rows), NEW scope \in ConversationScope,
           NEW limit \in Int, limit > 0, NEW row \in rows
    PROVE  FromOrm(row) \in ToSet(RecentHistory(rows, scope, limit).messages) <=>
                /\ row \in Selected(rows, scope)
                /\ Cardinality(Ahead(Selected(rows, scope), row)) < limit
<1> DEFINE S == Selected(rows, scope)
<1>1. PICK newest, n, m : /\ newest = Newest(S) /\ n = Cardinality(S)
                          /\ m = IF limit < n THEN limit ELSE n
  OBVIOUS
<1>2. /\ n \in Nat
      /\ RecentHistory(rows, scope, limit).messages = [i \in 1 .. m |-> FromOrm(newest[m + 1 - i])]
  BY <1>1, WindowIs
<1>3. MadeBySaves(S) /\ S \in SUBSET rows
  BY SelectedIsATable DEF Selected
<1>4. /\ newest \in [1 .. n -> S]
      /\ \A r \in S : \E i \in 1 .. n : newest[i] = r
      /\ \A i \in 1 .. n : Cardinality(Ahead(S, newest[i])) = i - 1
  BY <1>1, <1>3, NewestIsSorted, NewestRanks DEF MadeBySaves
<1> HIDE DEF S
<1>5. ToSet(RecentHistory(rows, scope, limit).messages) = {FromOrm(newest[m + 1 - i]) : i \in 1 .. m}
  <2>1. PICK window : window = [i \in 1 .. m |-> FromOrm(newest[m + 1 - i])]
    OBVIOUS
  <2>2. DOMAIN window = 1 .. m /\ \A i \in 1 .. m : window[i] = FromOrm(newest[m + 1 - i])
    BY <2>1
  <2>3. ToSet(window) = {FromOrm(newest[m + 1 - i]) : i \in 1 .. m}
    BY <2>2 DEF ToSet
  <2> QED BY <1>2, <2>1, <2>3
<1>6. m \in Nat /\ m <= n /\ m <= limit /\ (m = n \/ m = limit)
  BY <1>1, <1>2
<1>7. ASSUME NEW i \in 1 .. m, FromOrm(newest[m + 1 - i]) = FromOrm(row)
      PROVE  row \in S /\ Cardinality(Ahead(S, row)) < limit
  <2>1. PICK j \in 1 .. n : j = m + 1 - i /\ j - 1 < limit
    <3>1. m + 1 - i \in 1 .. n /\ m + 1 - i \in Int /\ (m + 1 - i) - 1 < limit
      BY <1>2, <1>6
    <3> QED BY <3>1
  <2>2. newest[j] \in S /\ Cardinality(Ahead(S, newest[j])) = j - 1
    BY <1>4
  <2>3. newest[j] = row
    BY <1>3, <1>7, <2>1, <2>2, RestoredRows DEF MadeBySaves, Distinct
  <2> QED BY <2>1, <2>2, <2>3
<1>8. ASSUME row \in S, Cardinality(Ahead(S, row)) < limit
      PROVE  \E i \in 1 .. m : FromOrm(newest[m + 1 - i]) = FromOrm(row)
  <2>1. PICK j \in 1 .. n : newest[j] = row
    BY <1>4, <1>8
  <2>2. j - 1 < limit
    BY <1>4, <1>8, <2>1
  <2>3. PICK i \in 1 .. m : m + 1 - i = j
    <3>1. m + 1 - j \in 1 .. m /\ m + 1 - (m + 1 - j) = j
      BY <1>2, <1>6, <2>2
    <3> QED BY <3>1
  <2> QED BY <2>1, <2>3
<1> QED BY <1>5, <1>7, <1>8 DEF S

-----------------------------------------------------------------------------
(* What users read *)

LEMMA ReadableFromInvariant == IInv /\ LogInv => ConversationsAreReadable
<1> SUFFICES ASSUME IInv, LogInv, NEW scope \in ConversationScope, NEW limit \in Limits
             PROVE  RecentHistory(chat_messages, scope, limit).ok <=> limit > 0
  BY DEF ConversationsAreReadable
<1>1. MadeBySaves(chat_messages)
  BY TablesAreMade
<1>2. limit \in Int
  BY ChatAssumption DEF Limits
<1>3. /\ limit <= 0 => ~RecentHistory(chat_messages, scope, limit).ok
      /\ limit > 0 => RecentHistory(chat_messages, scope, limit).ok
  BY <1>1, <1>2, WindowIs
<1> QED BY <1>2, <1>3

LEMMA HistoryFromInvariant == IInv /\ LogInv => HistoryIsTheRecentPast
<1> SUFFICES ASSUME IInv, LogInv, NEW scope \in ConversationScope,
                    NEW limit \in Limits \ {-1, 0}
             PROVE  LET window == RecentHistory(chat_messages, scope, limit).messages
                        shown == ToSet(window)
                        all == {FromOrm(row) : row \in {r \in chat_messages :
                                                            InConversation(r.content, scope)}}
                    IN /\ shown \subseteq all
                       /\ Len(window) = Cardinality(shown)
                       /\ Len(window) = IF limit < Cardinality(all)
                                        THEN limit ELSE Cardinality(all)
                       /\ \A i \in 1 .. Len(window) - 1 : Before(window[i], window[i + 1])
                       /\ \A m \in all \ shown, s \in shown : Before(m, s)
  BY DEF HistoryIsTheRecentPast
<1> DEFINE S == Selected(chat_messages, scope)
           all == {FromOrm(row) : row \in {r \in chat_messages : InConversation(r.content, scope)}}
<1>1. MadeBySaves(chat_messages) /\ MadeBySaves(S) /\ S \in SUBSET chat_messages
  BY TablesAreMade, SelectedIsATable DEF Selected
<1>2. limit \in Int /\ limit > 0
  BY ChatAssumption DEF Limits
<1>3. PICK newest, n, m : /\ newest = Newest(S) /\ n = Cardinality(S)
                          /\ m = IF limit < n THEN limit ELSE n
  OBVIOUS
<1>4. PICK window : /\ window = RecentHistory(chat_messages, scope, limit).messages
                    /\ window = [i \in 1 .. m |-> FromOrm(newest[m + 1 - i])]
  <2>1. RecentHistory(chat_messages, scope, limit).messages =
            [i \in 1 .. m |-> FromOrm(newest[m + 1 - i])]
    BY <1>1, <1>2, <1>3, WindowIs
  <2> QED BY <2>1
<1>5. n \in Nat /\ m \in Nat /\ m <= n
  <2>1. n \in Nat
    BY <1>1, <1>3, FS_CardinalityType DEF MadeBySaves
  <2> QED BY <1>2, <1>3, <2>1
<1>6. /\ newest \in [1 .. n -> S]
      /\ \A i, j \in 1 .. n : i < j => Newer(newest[i], newest[j])
      /\ \A i, j \in 1 .. n : newest[i] = newest[j] => i = j
  BY <1>1, <1>3, NewestIsSorted, NewestRanks DEF MadeBySaves
<1>7. \A r \in chat_messages : FromOrm(r) \in ToSet(window) <=>
            r \in S /\ Cardinality(Ahead(S, r)) < limit
  BY <1>1, <1>2, <1>4, WindowHolds
<1>8. all = {FromOrm(r) : r \in S}
  BY <1>1, RestoredRows DEF Selected
<1>9. \A r, s \in S : FromOrm(r) = FromOrm(s) => r = s
  BY <1>1, RestoredRows DEF MadeBySaves, Distinct
<1>10. \A r, s \in S : Newer(r, s) => Before(FromOrm(s), FromOrm(r))
  BY <1>1, NewerIsLater
<1> HIDE DEF S, all
<1>11. /\ DOMAIN window = 1 .. m /\ Len(window) = m
       /\ \A i \in 1 .. m : m + 1 - i \in 1 .. n /\ window[i] = FromOrm(newest[m + 1 - i])
  <2>1. DOMAIN window = 1 .. m /\ Len(window) = m
    BY <1>4, <1>5
  <2>2. \A i \in 1 .. m : m + 1 - i \in 1 .. n
    BY <1>5
  <2> QED BY <1>4, <2>1, <2>2
<1>12. ToSet(window) \subseteq all
  BY <1>6, <1>8, <1>11 DEF ToSet
<1>13. Cardinality(ToSet(window)) = m
  <2>1. \A i, j \in 1 .. m : window[i] = window[j] => i = j
    <3> SUFFICES ASSUME NEW i \in 1 .. m, NEW j \in 1 .. m, window[i] = window[j] PROVE i = j
      OBVIOUS
    <3>1. m + 1 - i = m + 1 - j
      BY <1>6, <1>9, <1>11
    <3> QED BY <1>5, <3>1
  <2>2. window \in [1 .. m -> ToSet(window)]
    <3>1. \A i \in 1 .. m : window[i] \in ToSet(window)
      BY <1>11 DEF ToSet
    <3> QED BY <1>4, <3>1
  <2>3. \A x \in ToSet(window) : \E i \in 1 .. m : window[i] = x
    BY <1>11 DEF ToSet
  <2>4. window \in Injection(1 .. m, ToSet(window)) /\ window \in Surjection(1 .. m, ToSet(window))
    BY <2>1, <2>2, <2>3 DEF Injection, IsInjective, Surjection
  <2>5. IsFiniteSet(1 .. m) /\ Cardinality(1 .. m) = m
    BY <1>5, FS_Interval
  <2> QED BY <2>4, <2>5, FS_Surjection
<1>14. Cardinality(all) = n
  <2> DEFINE f == [r \in S |-> FromOrm(r)]
  <2>1. f \in [S -> all] /\ \A x \in all : \E r \in S : f[r] = x
    BY <1>8
  <2>2. \A r, s \in S : f[r] = f[s] => r = s
    BY <1>9
  <2> HIDE DEF f
  <2>3. f \in Injection(S, all) /\ f \in Surjection(S, all)
    BY <2>1, <2>2 DEF Injection, IsInjective, Surjection
  <2>4. IsFiniteSet(S)
    BY <1>1 DEF MadeBySaves
  <2> QED BY <1>3, <2>3, <2>4, FS_Surjection
<1>15. \A i \in 1 .. m - 1 : Before(window[i], window[i + 1])
  <2> SUFFICES ASSUME NEW i \in 1 .. m - 1 PROVE Before(window[i], window[i + 1])
    OBVIOUS
  <2>1. PICK j \in 1 .. n, k \in 1 .. n : j = m + 1 - i /\ k = m + 1 - (i + 1) /\ k < j
    <3>1. /\ m + 1 - i \in 1 .. n /\ m + 1 - (i + 1) \in 1 .. n
          /\ m + 1 - (i + 1) < m + 1 - i
      BY <1>5
    <3> QED BY <3>1
  <2>2. i \in 1 .. m /\ i + 1 \in 1 .. m
    BY <1>5
  <2>3. window[i] = FromOrm(newest[j]) /\ window[i + 1] = FromOrm(newest[k])
    BY <1>11, <2>1, <2>2
  <2>4. Newer(newest[k], newest[j]) /\ newest[j] \in S /\ newest[k] \in S
    BY <1>6, <2>1
  <2> QED BY <1>10, <2>3, <2>4
<1>16. ASSUME NEW x \in all \ ToSet(window), NEW y \in ToSet(window)
       PROVE  Before(x, y)
  <2>1. PICK r \in S, s \in S : x = FromOrm(r) /\ y = FromOrm(s)
    BY <1>8, <1>12, <1>16
  <2>2. ~(Cardinality(Ahead(S, r)) < limit) /\ Cardinality(Ahead(S, s)) < limit
    BY <1>1, <1>7, <1>16, <2>1
  <2>3. r # s
    BY <2>2
  <2>4. ~Newer(r, s)
    <3>1. ASSUME Newer(r, s) PROVE FALSE
      <4>1. /\ Cardinality(Ahead(S, r)) \in Nat /\ Cardinality(Ahead(S, s)) \in Nat
            /\ Cardinality(Ahead(S, r)) < Cardinality(Ahead(S, s))
        BY <1>1, <3>1, RanksDiffer DEF MadeBySaves
      <4> QED BY <1>2, <2>2, <4>1
    <3> QED BY <3>1
  <2>5. Newer(s, r)
    BY <1>1, <2>3, <2>4, NewerIsOrder DEF MadeBySaves
  <2> QED BY <1>10, <2>1, <2>5
<1> QED BY <1>4, <1>11, <1>12, <1>13, <1>14, <1>15, <1>16, <1>3 DEF all

\* Rows are only added, so a row has more and more rows ahead of it.
LEMMA StepScrolls ==
    ASSUME IInv, LogInv, IInv', LogInv', Next,
           NEW scope \in ConversationScope, NEW limit \in 1 .. MaxRows
    PROVE  ToSet(RecentHistory(chat_messages', scope, limit).messages)
               \cap {FromOrm(row) : row \in chat_messages}
             \subseteq ToSet(RecentHistory(chat_messages, scope, limit).messages)
<1>1. PICK rows, grown : rows = chat_messages /\ grown = chat_messages'
  OBVIOUS
<1>2. MadeBySaves(rows)
  BY <1>1, TablesAreMade
<1>3. MadeBySaves(grown)
  BY <1>1 DEF IInv, TypeOK, LogInv, RowsAreMade, MadeBySaves
<1>4. rows \subseteq grown
  BY <1>1, TableGrows DEF IInv
<1>5. limit \in Int /\ limit > 0
  BY ChatAssumption
<1>6. ASSUME NEW row \in rows,
             FromOrm(row) \in ToSet(RecentHistory(grown, scope, limit).messages)
      PROVE  FromOrm(row) \in ToSet(RecentHistory(rows, scope, limit).messages)
  <2>1. /\ row \in Selected(grown, scope)
        /\ Cardinality(Ahead(Selected(grown, scope), row)) < limit
    BY <1>3, <1>4, <1>5, <1>6, WindowHolds
  <2>2. row \in Selected(rows, scope)
    BY <2>1 DEF Selected
  <2>3. Ahead(Selected(rows, scope), row) \in SUBSET Ahead(Selected(grown, scope), row)
    BY <1>4 DEF Ahead, Selected
  <2>4. IsFiniteSet(Ahead(Selected(grown, scope), row))
    <3>1. Ahead(Selected(grown, scope), row) \in SUBSET grown
      BY DEF Ahead, Selected
    <3> QED BY <1>3, <3>1, FS_Subset DEF MadeBySaves
  <2>5. /\ Cardinality(Ahead(Selected(rows, scope), row)) \in Nat
        /\ Cardinality(Ahead(Selected(grown, scope), row)) \in Nat
        /\ Cardinality(Ahead(Selected(rows, scope), row))
             <= Cardinality(Ahead(Selected(grown, scope), row))
    BY <2>3, <2>4, FS_Subset, FS_CardinalityType
  <2>6. Cardinality(Ahead(Selected(rows, scope), row)) < limit
    BY <1>5, <2>1, <2>5
  <2> QED BY <1>2, <1>5, <2>2, <2>6, WindowHolds
<1> QED BY <1>1, <1>6

\* No stored row makes its conversation unreadable, whatever was saved, and the
\* limit alone decides whether a query is answered.
THEOREM ConversationsStayReadable == Spec => []ConversationsAreReadable
BY Invariant, LogInvariant, ReadableFromInvariant, PTL

\* A window is the end of its conversation in chronological order.
THEOREM WindowsShowTheRecentPast == Spec => []HistoryIsTheRecentPast
BY Invariant, LogInvariant, HistoryFromInvariant, PTL

\* A message that has scrolled out of a window never comes back to it.
THEOREM WindowsOnlyScroll == Spec => ScrolledOutStaysOut
<1> DEFINE Scrolls ==
        \A scope \in ConversationScope, limit \in 1 .. MaxRows :
            LET Window(rows) == ToSet(RecentHistory(rows, scope, limit).messages)
                known == {FromOrm(row) : row \in chat_messages}
            IN Window(chat_messages') \cap known \subseteq Window(chat_messages)
<1>1. IInv /\ LogInv /\ IInv' /\ LogInv' /\ [Next]_vars => [Scrolls]_vars
  BY StepScrolls
<1> QED BY <1>1, Invariant, LogInvariant, PTL DEF Spec, ScrolledOutStaysOut

=============================================================================
