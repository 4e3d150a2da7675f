----------------------------- MODULE ChatIngest -----------------------------
(***************************************************************************)
(* How messages get into chat_messages: the LINE webhook, which saves the   *)
(* text messages of a batch one after the other, and the Discord listener,  *)
(* which saves one direct message.  Both run as tasks that interleave with  *)
(* each other at every await; each save is a scope of its own.              *)
(*                                                                         *)
(* LINE delivers a batch again when it does not get the answer it wants, or *)
(* gets it too late; the webhook does not look at isRedelivery.             *)
(***************************************************************************)
EXTENDS ChatMessages

CONSTANTS
    Deliveries,     \* calls of handle_callback
    Listeners,      \* calls of on_message
    Batches,        \* sequences of events that LINE may deliver
    DiscordEvents,
    About,          \* per event: what happened, where ("in", "id") and when
    MaxRows         \* bound on rows

Tasks == Deliveries \cup Listeners
Events == DOMAIN About
MessageIds == 1 .. MaxRows

ASSUME ChatAssumption ==
    /\ MaxRows \in Nat
    /\ Events \subseteq Contents
    /\ DiscordEvents \subseteq Events
    /\ "DM" \in Identifiers
    /\ Deliveries \cap Listeners = {}
    /\ Batches \subseteq {b \in Seq(Events \ DiscordEvents) : IsInjective(b)}
    /\ \A e \in Events :
        /\ About[e].id \in Identifiers /\ About[e].time \in Nat
        /\ About[e].what = "text" /\ e \notin DiscordEvents =>
                About[e].in \in {"user", "group", "room"}

VARIABLES
    chat_messages,  \* the committed rows
    place,          \* per task, the await it is at
    batch,          \* per task, the events it was given
    position,       \* per task, the index of the event it is at
    saving,         \* per task, the row its scope has flushed, or None
    answer,         \* per delivery, what LINE is answered
    \* history:
    stored          \* per task, the ids of the rows it has committed

vars == <<chat_messages, place, batch, position, saving, answer, stored>>

Places == {"uncalled", "adding", "committing", "replying", "returned"}
Answers == {"none", "OK", "null", "error"}
Rows == [id : MessageIds, platform : {"DISCORD", "LINE"},
         conversation_scope : {ToPrimitive(s) : s \in ConversationScope},
         content : Contents, occurred_at : Nat]

ASSUME NoRowIsNone == None \notin Rows

TypeOK ==
    /\ chat_messages \subseteq Rows
    /\ place \in [Tasks -> Places]
    /\ batch \in [Tasks -> Seq(Events)]
    /\ position \in [Tasks -> Nat]
    /\ saving \in [Tasks -> Rows \cup {None}]
    /\ answer \in [Tasks -> Answers]
    /\ stored \in [Tasks -> SUBSET MessageIds]

Init ==
    /\ chat_messages = {}
    /\ place = [t \in Tasks |-> "uncalled"]
    /\ batch = [t \in Tasks |-> <<>>]
    /\ position = [t \in Tasks |-> 0]
    /\ saving = [t \in Tasks |-> None]
    /\ answer = [t \in Tasks |-> "none"]
    /\ stored = [t \in Tasks |-> {}]

-----------------------------------------------------------------------------
(* One event after the other *)

IsText(e) == About[e].what = "text"

\* A timestamp out of range raises ValueError, which nobody catches.
Raises(e) == About[e].what = "badTimestamp"

Move(t, p) == place' = [place EXCEPT ![t] = p]
AnswerWith(t, a) ==
    /\ Move(t, "returned")
    /\ answer' = [answer EXCEPT ![t] = a]

Matters(e) == IsText(e) \/ Raises(e)

\* From one await to the next: other events, messages that are not text or
\* have no sender are passed over.
Proceed(t, events, from) ==
    \/ /\ \A i \in from .. Len(events) : ~Matters(events[i])
       /\ AnswerWith(t, "OK")
       /\ position' = [position EXCEPT ![t] = Len(events) + 1]
    \/ \E i \in from .. Len(events) :
        /\ Matters(events[i]) /\ \A j \in from .. i - 1 : ~Matters(events[j])
        /\ position' = [position EXCEPT ![t] = i]
        /\ IF Raises(events[i])
           THEN AnswerWith(t, "error")
           ELSE Move(t, "adding") /\ UNCHANGED answer

Call(t, events) ==
    /\ place[t] = "uncalled"
    /\ batch' = [batch EXCEPT ![t] = events]
    /\ Proceed(t, events, 1)
    /\ UNCHANGED <<chat_messages, saving, stored>>

\* A batch delivered for the first time or again.
HandleCallback(d) == \E events \in Batches : Call(d, events)

\* The gateway announces every message once, those of the bot and those in
\* guild channels included.
OnMessage(l) ==
    \E e \in DiscordEvents :
        /\ \A other \in Listeners : batch[other] # <<e>>
        /\ Call(l, <<e>>)

-----------------------------------------------------------------------------
(* Saving one message *)

CurrentEvent(t) == batch[t][position[t]]
UnusedIds ==
    MessageIds \ ({row.id : row \in chat_messages}
                    \cup {saving[t].id : t \in {u \in Tasks : saving[u] # None}})

\* The webhook's scope of a LINE source.
SourceScope(about) ==
    CASE about.in = "user" -> LineUser(about.id)
      [] about.in = "group" -> LineGroup(about.id)
      [] about.in = "room" -> LineRoom(about.id)

\* Mutant: a save first deletes what an earlier delivery has stored.
FlushReplaces(t, row) ==
    /\ place[t] = "adding"
    /\ saving' = [saving EXCEPT ![t] = row]
    /\ Move(t, "committing")
    /\ chat_messages' = {r \in chat_messages : r.content # row.content}
    /\ UNCHANGED <<batch, position, answer, stored>>

Flush(t, row) ==
    /\ place[t] = "adding"
    /\ saving' = [saving EXCEPT ![t] = row]
    /\ Move(t, "committing")
    /\ UNCHANGED <<chat_messages, batch, position, answer, stored>>

\* The message is created and flushed.  Its id is a ULID: ids made within one
\* millisecond are in no particular order.
SaveLineChat(d) ==
    \E id \in UnusedIds :
        LET about == About[CurrentEvent(d)]
        IN Flush(d, ToOrm(CreateLine(id, SourceScope(about), CurrentEvent(d), about.time)))

\* The listener files every direct message under the guild "DM".
SaveDiscordChat(l) ==
    \E id \in UnusedIds :
        LET about == About[CurrentEvent(l)]
        IN Flush(l, ToOrm(CreateDiscord(id, "DM", about.id, CurrentEvent(l), about.time)))

Committed(t) ==
    /\ chat_messages' = chat_messages \cup {saving[t]}
    /\ stored' = [stored EXCEPT ![t] = @ \cup {saving[t].id}]

NotCommitted == UNCHANGED <<chat_messages, stored>>

Leave(t) == saving' = [saving EXCEPT ![t] = None]

\* commit() returns Ok, and the next event is looked at.
Commit(t) ==
    /\ place[t] = "committing"
    /\ Committed(t)
    /\ Leave(t)
    /\ Proceed(t, batch[t], position[t] + 1)
    /\ UNCHANGED batch

\* Mutants: a failed save is tried again; the batch goes on after it.
SaveAgain(t) ==
    /\ \/ place[t] = "adding" /\ NotCommitted
       \/ place[t] = "committing" /\ (Committed(t) \/ NotCommitted)
    /\ Leave(t)
    /\ Move(t, "adding")
    /\ UNCHANGED <<batch, position, answer>>
SkipAndGoOn(t) ==
    /\ \/ place[t] = "adding" /\ NotCommitted
       \/ place[t] = "committing" /\ (Committed(t) \/ NotCommitted)
    /\ Leave(t)
    /\ Proceed(t, batch[t], position[t] + 1)
    /\ UNCHANGED batch

\* add() or commit() fails; what a failed commit did is not known.
SaveFails(t) ==
    /\ \/ place[t] = "adding" /\ NotCommitted
       \/ place[t] = "committing" /\ (Committed(t) \/ NotCommitted)
    /\ Leave(t)
    /\ Move(t, "replying")
    /\ UNCHANGED <<batch, position, answer>>

\* The sender is told, and that ends the call: LINE gets a success all the same.
Reply(t) ==
    /\ place[t] = "replying"
    /\ AnswerWith(t, "null")
    /\ UNCHANGED <<chat_messages, batch, position, saving, stored>>

ReplyFails(t) ==
    /\ place[t] = "replying"
    /\ AnswerWith(t, "error")
    /\ UNCHANGED <<chat_messages, batch, position, saving, stored>>

\* The task or its process ends at an await.
Die(t) ==
    /\ place[t] \in {"adding", "committing", "replying"}
    /\ \/ NotCommitted
       \/ place[t] = "committing" /\ Committed(t)
    /\ Leave(t)
    /\ AnswerWith(t, "error")
    /\ UNCHANGED <<batch, position>>

Step(t) == Commit(t) \/ SaveFails(t) \/ Reply(t) \/ ReplyFails(t) \/ Die(t)

AllReturned ==
    /\ \A t \in Tasks : place[t] = "returned"
    /\ UNCHANGED vars

Next ==
    \/ \E d \in Deliveries : HandleCallback(d) \/ SaveLineChat(d)
    \/ \E l \in Listeners : OnMessage(l) \/ SaveDiscordChat(l)
    \/ \E t \in Tasks : Step(t)
    \/ AllReturned

Spec == Init /\ [][Next]_vars

-----------------------------------------------------------------------------
(* Properties *)

Limits == -1 .. MaxRows
RowsOf(t, e) == {row \in chat_messages : row.id \in stored[t] /\ row.content = e}

\* Conversations and their order, told from what happened and not from the rows.
InConversation(e, scope) ==
    IF e \in DiscordEvents
    THEN scope = [guild_id |-> "DM", channel_id |-> About[e].id]
    ELSE ~IsDiscord(scope) /\ Kind(scope) = About[e].in /\ Locator(scope) = About[e].id

Before(a, b) ==
    LET timeOf(m) == About[m.content].time
    IN \/ timeOf(a) < timeOf(b)
       \/ timeOf(a) = timeOf(b) /\ a.id < b.id

\* A window of the query is the end of the conversation in chronological order:
\* nothing of another conversation, nothing twice, nothing left out between or
\* after its messages, the limit used up if there is enough, whatever the order
\* of commits.
HistoryIsTheRecentPast ==
    \A scope \in ConversationScope, limit \in Limits \ {-1, 0} :
        LET window == RecentHistory(chat_messages, scope, limit).messages
            shown == ToSet(window)
            all == {FromOrm(row) : row \in {r \in chat_messages : InConversation(r.content, scope)}}
        IN /\ shown \subseteq all
           /\ Len(window) = Cardinality(shown)
           /\ Len(window) = IF limit < Cardinality(all) THEN limit ELSE Cardinality(all)
           /\ \A i \in 1 .. Len(window) - 1 : Before(window[i], window[i + 1])
           /\ \A m \in all \ shown, s \in shown : Before(m, s)

\* No stored row makes its conversation unreadable, and a limit that is not
\* positive is refused (what is written is what the restoring mapper accepts).
ConversationsAreReadable ==
    \A scope \in ConversationScope, limit \in Limits :
        RecentHistory(chat_messages, scope, limit).ok <=> limit > 0

\* A message that has scrolled out of a window never comes back to it, although
\* messages are committed out of order and batches are delivered again (the log
\* is append-only).
ScrolledOutStaysOut ==
    [][\A scope \in ConversationScope, limit \in 1 .. MaxRows :
        LET Window(rows) == ToSet(RecentHistory(rows, scope, limit).messages)
            known == {FromOrm(row) : row \in chat_messages}
        IN Window(chat_messages') \cap known \subseteq Window(chat_messages)]_vars

\* What a call has stored is a prefix of its batch: everything storable before the
\* event it stopped at, nothing behind it; and all of it if the answer is OK.
StoresAPrefix ==
    \A t \in Tasks : \A i \in DOMAIN batch[t] :
        /\ i < position[t] /\ IsText(batch[t][i]) => RowsOf(t, batch[t][i]) # {}
        /\ i > position[t] => RowsOf(t, batch[t][i]) = {}
        /\ answer[t] = "OK" /\ IsText(batch[t][i]) => RowsOf(t, batch[t][i]) # {}

\* A message is stored at most once per call that was given it, even if a commit
\* fails with its outcome unknown: copies come from redeliveries only.
OneCopyPerCall ==
    \A t \in Tasks : \A i \in DOMAIN batch[t] : Cardinality(RowsOf(t, batch[t][i])) <= 1

=============================================================================
