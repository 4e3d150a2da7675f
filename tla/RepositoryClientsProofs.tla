----------------------- MODULE RepositoryClientsProofs -----------------------
(***************************************************************************)
(* Proofs about RepositoryClients and KeptAggregates, for any number of     *)
(* clients, ids, index entries and changes.                                 *)
(*                                                                         *)
(* The inductive invariant says, in this order: what the flags and places   *)
(* of a client mean; who may touch a row; which ids are still unknown to    *)
(* everybody else; and that writes and aggregates know the changes of the   *)
(* row they are about.  Two more invariants follow, of the entries of the   *)
(* unique index and of the changes that were discarded.                     *)
(*                                                                         *)
(* Most of it holds for all callers.  Those of RepositoryClients enter a    *)
(* scope with empty hands; those of KeptAggregates with an aggregate that   *)
(* knows the committed row, which is one more invariant, at the end.        *)
(***************************************************************************)
EXTENDS KeptAggregates, TLAPS

HandOn(c, id) == hand[c] # NoAggregate /\ hand[c].id = id

\* The flags of a client agree with the place it is at.
Places_OK ==
    \A c \in Clients :
        /\ active[c] <=> pc[c] # "closed"
        /\ active[c] => (isFailed[c] <=> broken[c])
        /\ pc[c] = "unwinding" => hand[c] = NoAggregate
        /\ pc[c] = "closed" => pending[c] = NoWrites
        /\ pc[c] = "closed" \/ broken[c] => wrote[c] = NothingWritten
        /\ pc[c] \in {"adding", "updating", "deleting"} => hand[c] # NoAggregate
        /\ pc[c] = "adding" => hand[c].new

\* Two transactions never hold writes of the same row.
RowsExclusive ==
    \A c, d \in Clients, id \in Ids :
        pending[c][id] # Untouched /\ pending[d][id] # Untouched => c = d

\* Rows and aggregates carry generated ids.
OnlyIssued ==
    \A id \in Ids : id \notin issued =>
        /\ table[id] = NoRow
        /\ \A c \in Clients : pending[c][id] = Untouched /\ ~HandOn(c, id)

\* A new aggregate is nobody else's business.
NewIsPrivate ==
    \A c \in Clients : hand[c] # NoAggregate /\ hand[c].new =>
        /\ table[hand[c].id] = NoRow
        /\ \A d \in Clients \ {c} :
            pending[d][hand[c].id] = Untouched /\ ~HandOn(d, hand[c].id)

\* Neither is an uncommitted INSERT.
InsertIsPrivate ==
    \A c \in Clients, id \in Ids :
        pending[c][id] # Untouched /\ table[id] = NoRow =>
            \A d \in Clients \ {c} : ~HandOn(d, id)

\* A write of an unbroken scope knows every change of the committed row, and
\* is ahead of it.
KnowsItsWrites(c) ==
    \A id \in Ids : ~broken[c] =>
        /\ pending[c][id] = Untouched => wrote[c][id] = {}
        /\ pending[c][id] # Untouched => DataIn(id) \subseteq wrote[c][id]
        /\ pending[c][id] \in Row =>
            /\ pending[c][id].data = wrote[c][id]
            /\ table[id] # NoRow => table[id].version < pending[c][id].version

WritesKnow == \A c \in Clients : KnowsItsWrites(c)

\* An aggregate is never ahead of its row, and if their versions agree it knows
\* every change of the row.
KnowsItsRow(c) ==
    LET a == hand[c] IN
    (~broken[c] /\ a # NoAggregate /\ View(c, a.id) # NoRow) =>
        /\ a.version <= View(c, a.id).version
        /\ a.version = View(c, a.id).version => View(c, a.id).data \subseteq a.data

HandKnows == \A c \in Clients : KnowsItsRow(c)

\* The same of the committed row, which is the one that the next scope of the
\* client will see.
KnowsCommitted(c) ==
    LET a == hand[c] IN
    (a # NoAggregate /\ table[a.id] # NoRow) =>
        /\ a.version <= table[a.id].version
        /\ a.version = table[a.id].version => table[a.id].data \subseteq a.data

\* Nobody takes an aggregate out of its scope: what tells these callers from
\* those of KeptAggregates.
EmptyHanded == \A c \in Clients : pc[c] = "closed" => hand[c] = NoAggregate

IInv ==
    /\ TypeOK
    /\ Places_OK
    /\ RowsExclusive
    /\ OnlyIssued
    /\ NewIsPrivate
    /\ InsertIsPrivate
    /\ WritesKnow
    /\ HandKnows

-----------------------------------------------------------------------------
(* Types *)

\* A statement finds a row or nothing, never the mark of an unwritten row.
LEMMA ViewType ==
    ASSUME UowTypeOK, NEW s \in Scopes, NEW id \in Ids
    PROVE  View(s, id) \in Row \cup {NoRow}
BY SentinelsAssumption DEF UowTypeOK, View

\* Every step of a scope keeps the types of the table and the scopes.
LEMMA UowStepsKeepType ==
    ASSUME UowTypeOK, NEW s \in Scopes,
           \/ Open(s) \/ Fail(s) \/ Rollback(s) \/ Close(s)
           \/ CommitOk(s) \/ CommitRefused(s) \/ CommitError(s) \/ CommitCancelled(s)
           \/ \E id \in Ids, row \in Row \cup {NoRow} : Flush(s, id, row)
    PROVE  UowTypeOK'
<1>1. Merged(s) \in [Ids -> Row \cup {NoRow}]
    BY ViewType DEF Merged
<1>2. NoWrites \in [Ids -> Row \cup {NoRow, Untouched}]
    BY DEF NoWrites
<1>3. CASE \E id \in Ids, row \in Row \cup {NoRow} : Flush(s, id, row)
    BY <1>3 DEF UowTypeOK, Flush
<1>4. CASE CommitOk(s) \/ CommitRefused(s) \/ CommitError(s) \/ CommitCancelled(s)
    BY <1>1, <1>2, <1>4 DEF UowTypeOK, CommitOk, CommitRefused, CommitError, CommitCancelled
<1>5. CASE Open(s) \/ Fail(s) \/ Rollback(s) \/ Close(s)
    BY <1>2, <1>5 DEF UowTypeOK, Open, Fail, Rollback, Close
<1>6. QED
    BY <1>3, <1>4, <1>5

\* Recording and discarding changes keep the types of the history.
LEMMA HistoryKeepsType ==
    ASSUME TypeOK, NEW c \in Clients,
           \/ Discard(c)
           \/ \E id \in Ids, changes \in SUBSET Changes : Record(c, id, changes)
    PROVE  wrote' \in [Clients -> [Ids -> SUBSET Changes]] /\ lost' \in SUBSET Pairs
<1>1. CASE Discard(c)
    BY <1>1 DEF TypeOK, Discard, Unfinished, NothingWritten
<1>2. CASE \E id \in Ids, changes \in SUBSET Changes : Record(c, id, changes)
    <2>1. PICK id \in Ids, changes \in SUBSET Changes : Record(c, id, changes)
        BY <1>2
    <2>2. CASE broken[c]
        BY <2>1, <2>2 DEF TypeOK, Record
    <2>3. CASE ~broken[c]
        <3>1. lost' = lost /\ wrote' = [wrote EXCEPT ![c][id] = changes]
            BY <2>1, <2>3 DEF Record
        <3>2. QED
            BY <3>1 DEF TypeOK
    <2>4. QED
        BY <2>2, <2>3
<1>3. QED
    BY <1>1, <1>2

\* The fields of an aggregate in a client's hand.
LEMMA HandType ==
    ASSUME TypeOK, NEW c \in Clients, Holds(c)
    PROVE  /\ hand[c] \in Aggregate
           /\ hand[c].id \in Ids
           /\ hand[c].key \in Keys \cup {NoKey}
           /\ hand[c].data \in SUBSET Changes
           /\ hand[c].version \in Nat
           /\ hand[c].new \in BOOLEAN
BY ChangesAssumption DEF TypeOK, Holds, Aggregate

\* A row that was read becomes an aggregate.
LEMMA FromRowType ==
    ASSUME NEW id \in Ids, NEW row \in Row
    PROVE  FromRow(id, row) \in Aggregate
BY DEF FromRow, Row, Aggregate

\* A change made within the bound is one of the changes.
LEMMA NewChangeType ==
    ASSUME TypeOK, MakeChange
    PROVE  NewChange \in Changes /\ clock' \in 0 .. MaxChanges
BY ChangesAssumption DEF TypeOK, MakeChange, NewChange, Changes

\* The aggregate of c as its caller hands it to update().
Changed(c, key) ==
    [hand[c] EXCEPT !.key = key, !.data = @ \cup {NewChange}, !.new = FALSE]

\* What its caller makes of an aggregate is an aggregate.
LEMMA ChangedType ==
    ASSUME TypeOK, NEW c \in Clients, Holds(c), MakeChange, NEW key \in Keys \cup {NoKey}
    PROVE  Changed(c, key) \in Aggregate
BY HandType, NewChangeType, ChangesAssumption DEF Changed, Aggregate

\* A failing statement, wherever it leaves the client.
LEMMA BreaksKeepsType ==
    ASSUME TypeOK, NEW c \in Clients, Breaks(c),
           pc' = pc \/ GoTo(c, "open")
    PROVE  TypeOK'
<1>1. UowTypeOK'
    BY UowStepsKeepType DEF TypeOK, Clients, Breaks
<1>2. wrote' \in [Clients -> [Ids -> SUBSET Changes]] /\ lost' \in SUBSET Pairs
    BY HistoryKeepsType DEF Breaks
<1>3. QED
    BY <1>1, <1>2 DEF TypeOK, Breaks, GoTo, Places

\* A flush that succeeds and is recorded.
LEMMA FlushKeepsType ==
    ASSUME TypeOK, NEW c \in Clients, Holds(c),
           NEW row \in Row \cup {NoRow},
           Flush(c, hand[c].id, row), Record(c, hand[c].id, hand[c].data)
    PROVE  /\ UowTypeOK'
           /\ wrote' \in [Clients -> [Ids -> SUBSET Changes]]
           /\ broken' \in [Clients -> BOOLEAN]
           /\ acked' \in SUBSET Pairs
           /\ lost' \in SUBSET Pairs
           /\ erased' \in SUBSET Ids
<1>1. UowTypeOK'
    BY HandType, UowStepsKeepType DEF TypeOK, Clients
<1>2. wrote' \in [Clients -> [Ids -> SUBSET Changes]] /\ lost' \in SUBSET Pairs
    BY HandType, HistoryKeepsType
<1>3. QED
    BY <1>1, <1>2 DEF TypeOK, Record

\* Every step of every client keeps the types.  Places_OK supplies that a client
\* in the middle of a write holds an aggregate.
LEMMA StepKeepsType ==
    ASSUME TypeOK, Places_OK, NEW c \in Clients, Step(c)
    PROVE  TypeOK'
<1>. USE DEF GoTo, Hold, At
<1>1. CASE Enter(c)
    <2>1. UowTypeOK'
        BY <1>1, UowStepsKeepType DEF TypeOK, Clients, Enter
    <2>2. QED
        BY <1>1, <2>1 DEF TypeOK, Enter, Places
<1>2. CASE SelectError(c)
    BY <1>2, BreaksKeepsType DEF SelectError
<1>3. CASE \E id \in Ids, key \in Keys \cup {NoKey} : Create(c, id, key)
    <2>1. PICK id \in Ids, key \in Keys \cup {NoKey} : Create(c, id, key)
        BY <1>3
    <2>2. [id |-> id, key |-> key, data |-> {NewChange}, version |-> 0, new |-> TRUE]
            \in Aggregate
        BY <2>1, NewChangeType, ChangesAssumption DEF Create, Aggregate
    <2>3. clock' \in 0 .. MaxChanges
        BY <2>1, NewChangeType DEF Create
    <2>4. QED
        BY <2>1, <2>2, <2>3 DEF TypeOK, UowTypeOK, Create, uowVars, history
<1>4. CASE \E id \in Ids : GetById(c, id)
    <2>1. PICK id \in Ids : GetById(c, id)
        BY <1>4
    <2>2. FromRow(id, View(c, id)) \in Aggregate
        BY <2>1, ViewType, FromRowType DEF GetById, TypeOK, Clients
    <2>3. QED
        BY <2>1, <2>2 DEF TypeOK, UowTypeOK, GetById, uowVars, history
<1>5. CASE AddCheck(c)
    BY <1>5 DEF TypeOK, UowTypeOK, AddCheck, uowVars, history, Places
<1>6. CASE AddFlush(c)
    <2>1. Holds(c)
        BY <1>6 DEF AddFlush, Places_OK, Holds
    <2>2. [key |-> hand[c].key, data |-> hand[c].data, version |-> hand[c].version] \in Row
        BY <2>1, HandType, ChangesAssumption DEF Row
    <2>3. QED
        BY <1>6, <2>1, <2>2, FlushKeepsType DEF AddFlush, TypeOK, Places
<1>7. CASE \E key \in Keys \cup {NoKey} : UpdateCheck(c, key)
    <2>1. PICK key \in Keys \cup {NoKey} : UpdateCheck(c, key)
        BY <1>7
    <2>2. Changed(c, key) \in Aggregate
        BY <2>1, ChangedType DEF UpdateCheck
    <2>3. clock' \in 0 .. MaxChanges
        BY <2>1, NewChangeType DEF UpdateCheck
    <2>4. pc' \in [Clients -> Places]
        BY <2>1 DEF UpdateCheck, TypeOK, Places
    <2>5. QED
        BY <2>1, <2>2, <2>3, <2>4 DEF TypeOK, UowTypeOK, UpdateCheck, Changed, uowVars, history
<1>8. CASE UpdateFlush(c)
    <2>. DEFINE row == Updated(hand[c].key, hand[c].data, hand[c].version)
    <2>1. Holds(c)
        BY <1>8 DEF UpdateFlush, Places_OK, Holds
    <2>2. row \in Row /\ FromRow(hand[c].id, row) \in Aggregate
        BY <2>1, HandType, FromRowType, ChangesAssumption DEF Row, Updated
    <2>3. hand' \in [Clients -> Aggregate \cup {NoAggregate}]
        BY <1>8, <2>2 DEF UpdateFlush, TypeOK
    <2>. HIDE DEF row
    <2>4. Flush(c, hand[c].id, row)
        BY <1>8 DEF UpdateFlush, row
    <2>5. QED
        BY <1>8, <2>1, <2>2, <2>3, <2>4, FlushKeepsType DEF UpdateFlush, TypeOK, Places
<1>9. CASE DeleteCheck(c)
    BY <1>9 DEF TypeOK, UowTypeOK, DeleteCheck, uowVars, history, Places
<1>10. CASE DeleteFlush(c)
    <2>1. Holds(c)
        BY <1>10 DEF DeleteFlush, Places_OK, Holds
    <2>2. QED
        BY <1>10, <2>1, FlushKeepsType DEF DeleteFlush, TypeOK, Places
<1>11. CASE StaleFlush(c) \/ KeyConflict(c) \/ FlushError(c)
    BY <1>11, BreaksKeepsType DEF StaleFlush, KeyConflict, FlushError
<1>12. CASE Submit(c)
    BY <1>12 DEF TypeOK, UowTypeOK, Submit, uowVars, history, Places
<1>13. Settled(c) \in Aggregate \cup {NoAggregate}
    BY HandType DEF Settled, Aggregate
<1>14. CASE CommitAnswersOk(c)
    <2>1. UowTypeOK'
        BY <1>14, UowStepsKeepType DEF TypeOK, Clients, CommitAnswersOk
    <2>2. QED
        BY <1>13, <1>14, <2>1
        DEF TypeOK, CommitAnswersOk, Deletions, NothingWritten, Pairs, Places
<1>15. CASE CommitAnswersRefused(c)
    BY <1>15 DEF TypeOK, UowTypeOK, CommitAnswersRefused, CommitRefused, history, Places
<1>16. CASE CommitOutcomeUnknown(c)
    <2>1. UowTypeOK'
        BY <1>16, UowStepsKeepType DEF TypeOK, Clients, CommitOutcomeUnknown
    <2>2. erased' \in SUBSET Ids /\ wrote' \in [Clients -> [Ids -> SUBSET Changes]]
        BY <1>16 DEF TypeOK, CommitOutcomeUnknown, Deletions, NothingWritten
    <2>3. pc' \in [Clients -> Places] /\ broken' \in [Clients -> BOOLEAN]
        BY <1>16 DEF TypeOK, CommitOutcomeUnknown, Places
    <2>4. hand' \in [Clients -> Aggregate \cup {NoAggregate}]
        BY <1>13, <1>16 DEF TypeOK, CommitOutcomeUnknown
    <2>5. QED
        BY <1>16, <2>1, <2>2, <2>3, <2>4 DEF TypeOK, CommitOutcomeUnknown
<1>17. CASE CallRollback(c)
    <2>1. UowTypeOK'
        BY <1>17, UowStepsKeepType DEF TypeOK, Clients, CallRollback
    <2>2. QED
        BY <1>17, <2>1, HistoryKeepsType DEF TypeOK, CallRollback
<1>18. CASE Leave(c)
    <2>1. UowTypeOK'
        BY <1>18, UowStepsKeepType DEF TypeOK, Clients, Leave
    <2>2. QED
        BY <1>18, <2>1, HistoryKeepsType DEF TypeOK, Leave, Places
<1>19. QED
    BY <1>1, <1>2, <1>3, <1>4, <1>5, <1>6, <1>7, <1>8, <1>9, <1>10, <1>11, <1>12,
       <1>14, <1>15, <1>16, <1>17, <1>18 DEF Step

-----------------------------------------------------------------------------
(* The steps, sorted by what they change *)

\* Steps that change at most the place of the client and its flags.
Quiet(c) ==
    Enter(c) \/ AddCheck(c) \/ DeleteCheck(c) \/ Submit(c) \/ CommitAnswersRefused(c)

\* A statement of an open scope fails.
Failing(c) ==
    /\ Breaks(c)
    /\ pc[c] \in {"open", "adding", "updating", "deleting"}
    /\ GoTo(c, "open")

\* The two ways in which the outcome of a commit is unknown.
CommitEndsInError(c) ==
    /\ At(c, "committing")
    /\ CommitError(c)
    /\ broken' = [broken EXCEPT ![c] = TRUE]
    /\ wrote' = [wrote EXCEPT ![c] = NothingWritten]
    /\ Hold(c, Settled(c))
    /\ GoTo(c, "open")
    /\ UNCHANGED <<issued, lost>>

CommitIsCancelled(c) ==
    /\ At(c, "committing")
    /\ CommitCancelled(c)
    /\ broken' = broken
    /\ wrote' = [wrote EXCEPT ![c] = NothingWritten]
    /\ Hold(c, NoAggregate)
    /\ GoTo(c, "unwinding")
    /\ UNCHANGED <<issued, lost>>

\* Every step is one of these; the proofs below go through them.
LEMMA StepCases ==
    ASSUME TypeOK, NEW c \in Clients, Step(c)
    PROVE  \/ Quiet(c)
           \/ Failing(c)
           \/ \E id \in Ids, key \in Keys \cup {NoKey} : Create(c, id, key)
           \/ \E id \in Ids : GetById(c, id)
           \/ AddFlush(c)
           \/ \E key \in Keys \cup {NoKey} : UpdateCheck(c, key)
           \/ UpdateFlush(c)
           \/ DeleteFlush(c)
           \/ CommitAnswersOk(c)
           \/ CommitEndsInError(c)
           \/ CommitIsCancelled(c)
           \/ CallRollback(c)
           \/ Leave(c)
<1>1. CASE SelectError(c)
    BY <1>1 DEF SelectError, Failing, GoTo, At, TypeOK
<1>2. CASE StaleFlush(c)
    BY <1>2 DEF StaleFlush, Failing
<1>3. CASE KeyConflict(c)
    BY <1>3 DEF KeyConflict, Failing
<1>4. CASE FlushError(c)
    BY <1>4 DEF FlushError, Failing
<1>5. CASE CommitOutcomeUnknown(c)
    BY <1>5 DEF CommitOutcomeUnknown, CommitEndsInError, CommitIsCancelled
<1>6. CASE Quiet(c)
    BY <1>6
<1>7. QED
    BY <1>1, <1>2, <1>3, <1>4, <1>5, <1>6 DEF Step, Quiet

\* A step of c leaves the transaction, the hand and the history of every other
\* client alone.
LEMMA OthersUntouched ==
    ASSUME TypeOK, NEW c \in Clients, Step(c), NEW d \in Clients, d # c
    PROVE  /\ pending'[d] = pending[d]
           /\ hand'[d] = hand[d]
           /\ broken'[d] = broken[d]
           /\ wrote'[d] = wrote[d]
<1>. USE DEF TypeOK, UowTypeOK, Clients, Hold
<1>1. CASE Quiet(c)
    BY <1>1 DEF Quiet, Enter, Open, AddCheck, DeleteCheck, Submit, CommitAnswersRefused,
                CommitRefused, uowVars, history
<1>2. CASE Failing(c)
    BY <1>2 DEF Failing, Breaks, Fail, Discard
<1>3. CASE \/ \E id \in Ids, key \in Keys \cup {NoKey} : Create(c, id, key)
           \/ \E id \in Ids : GetById(c, id)
           \/ \E key \in Keys \cup {NoKey} : UpdateCheck(c, key)
    BY <1>3 DEF Create, GetById, UpdateCheck, uowVars, history
<1>4. CASE AddFlush(c)
    BY <1>4 DEF AddFlush, Flush, Record
<1>5. CASE UpdateFlush(c)
    BY <1>5 DEF UpdateFlush, Flush, Record
<1>6. CASE DeleteFlush(c)
    BY <1>6 DEF DeleteFlush, Flush, Record
<1>7. CASE CommitAnswersOk(c)
    BY <1>7 DEF CommitAnswersOk, CommitOk
<1>8. CASE CommitEndsInError(c)
    BY <1>8 DEF CommitEndsInError, CommitError
<1>9. CASE CommitIsCancelled(c)
    BY <1>9 DEF CommitIsCancelled, CommitCancelled
<1>10. CASE CallRollback(c)
    BY <1>10 DEF CallRollback, Rollback, Discard
<1>11. CASE Leave(c)
    BY <1>11 DEF Leave, Close, Discard
<1>12. QED
    BY <1>1, <1>2, <1>3, <1>4, <1>5, <1>6, <1>7, <1>8, <1>9, <1>10, <1>11, StepCases

\* A transaction reaches the table only through a commit of an unbroken scope.
LEMMA OnlyCommitsChangeTheTable ==
    ASSUME IInv, NEW c \in Clients, Step(c), table' # table
    PROVE  table' = Merged(c) /\ ~broken[c] /\ At(c, "committing")
<1>1. At(c, "committing") /\ (CommitOk(c) \/ CommitError(c) \/ CommitCancelled(c))
    BY DEF Step, Enter, Create, GetById, SelectError, AddCheck, AddFlush, UpdateCheck,
           UpdateFlush, DeleteCheck, DeleteFlush, StaleFlush, KeyConflict, FlushError, Submit,
           CommitAnswersOk, CommitAnswersRefused, CommitOutcomeUnknown, CallRollback, Leave,
           Open, Flush, Fail, Rollback, CommitRefused, Close, Breaks, uowVars
<1>2. QED
    BY <1>1 DEF CommitOk, CommitError, CommitCancelled, IInv, Places_OK

-----------------------------------------------------------------------------
(* Every step keeps each part of the invariant *)

\* Flags and places: only failing statements raise isFailed and broken, and only
\* together; a place inside a write is entered with an aggregate at hand.
LEMMA StepKeepsPlaces ==
    ASSUME IInv, TypeOK', NEW c \in Clients, Step(c)
    PROVE  Places_OK'
<1>. USE DEF IInv, TypeOK, UowTypeOK, Places_OK, GoTo, Hold, At, Holds, Clients, clientVars
<1>1. CASE Quiet(c)
    BY <1>1 DEF Quiet, Enter, Open, AddCheck, DeleteCheck, Submit, CommitAnswersRefused,
                CommitRefused, uowVars, history
<1>2. CASE Failing(c)
    BY <1>2 DEF Failing, Breaks, Fail, Discard
<1>3. CASE \E id \in Ids, key \in Keys \cup {NoKey} : Create(c, id, key)
    BY <1>3 DEF Create, uowVars, history
<1>4. CASE \E id \in Ids : GetById(c, id)
    BY <1>4 DEF GetById, uowVars, history
<1>5. CASE AddFlush(c)
    BY <1>5 DEF AddFlush, Flush, Record
<1>6. CASE \E key \in Keys \cup {NoKey} : UpdateCheck(c, key)
    <2>1. PICK key \in Keys \cup {NoKey} : UpdateCheck(c, key)
        BY <1>6
    <2>2. Changed(c, key) # NoAggregate
        BY <2>1, ChangedType, NoAggregateAssumption DEF UpdateCheck
    <2>3. pc[c] = "open" /\ (pc' = pc \/ pc' = [pc EXCEPT ![c] = "updating"])
        BY <2>1 DEF UpdateCheck
    <2>4. hand' = [hand EXCEPT ![c] = Changed(c, key)] /\ UNCHANGED <<uowVars, history>>
        BY <2>1 DEF UpdateCheck, Changed
    <2>5. QED
        BY <2>2, <2>3, <2>4 DEF uowVars, history
<1>7. CASE UpdateFlush(c)
    BY <1>7 DEF UpdateFlush, Flush, Record
<1>8. CASE DeleteFlush(c)
    BY <1>8 DEF DeleteFlush, Flush, Record
<1>9. CASE CommitAnswersOk(c)
    BY <1>9 DEF CommitAnswersOk, CommitOk
<1>10. CASE CommitEndsInError(c)
    BY <1>10 DEF CommitEndsInError, CommitError
<1>11. CASE CommitIsCancelled(c)
    BY <1>11 DEF CommitIsCancelled, CommitCancelled
<1>12. CASE CallRollback(c)
    BY <1>12 DEF CallRollback, Rollback, Discard
<1>13. CASE Leave(c)
    BY <1>13 DEF Leave, Close, Discard
<1>14. QED
    BY <1>1, <1>2, <1>3, <1>4, <1>5, <1>6, <1>7, <1>8, <1>9, <1>10, <1>11, <1>12, <1>13,
       StepCases

\* A flush waits for the row's lock, and an INSERT is of a row that nobody else
\* can have written; every other step only ends writes.
LEMMA StepKeepsRowsExclusive ==
    ASSUME IInv, TypeOK', NEW c \in Clients, Step(c)
    PROVE  RowsExclusive'
<1>. USE DEF IInv, TypeOK, UowTypeOK, RowsExclusive, NewIsPrivate, Places_OK,
         NoWrites, GoTo, Hold, At, Holds, Clients, clientVars
<1>1. CASE Quiet(c)
    BY <1>1 DEF Quiet, Enter, Open, AddCheck, DeleteCheck, Submit,
       CommitAnswersRefused, CommitRefused, uowVars, history
<1>2. CASE Failing(c)
    BY <1>2 DEF Failing, Breaks, Fail, Discard
<1>3. CASE \E id \in Ids, key \in Keys \cup {NoKey} : Create(c, id, key)
    BY <1>3 DEF Create, uowVars, history
<1>4. CASE \E id \in Ids : GetById(c, id)
    BY <1>4 DEF GetById, FromRow, uowVars, history
<1>5. CASE AddFlush(c)
    BY <1>5 DEF AddFlush, Flush, Record
<1>6. CASE \E key \in Keys \cup {NoKey} : UpdateCheck(c, key)
    BY <1>6 DEF UpdateCheck, uowVars, history
<1>7. CASE UpdateFlush(c)
    BY <1>7 DEF UpdateFlush, Flush, Record, RowLocked
<1>8. CASE DeleteFlush(c)
    BY <1>8 DEF DeleteFlush, Flush, Record, RowLocked
<1>9. CASE CommitAnswersOk(c)
    BY <1>9 DEF CommitAnswersOk, CommitOk, Merged
<1>10. CASE CommitEndsInError(c)
    BY <1>10 DEF CommitEndsInError, CommitError, Merged
<1>11. CASE CommitIsCancelled(c)
    BY <1>11 DEF CommitIsCancelled, CommitCancelled, Merged
<1>12. CASE CallRollback(c)
    BY <1>12 DEF CallRollback, Rollback, Discard
<1>13. CASE Leave(c)
    BY <1>13 DEF Leave, Close, Discard
<1>14. QED
    BY <1>1, <1>2, <1>3, <1>4, <1>5, <1>6, <1>7, <1>8,
       <1>9, <1>10, <1>11, <1>12, <1>13, StepCases

\* An aggregate comes from Create, which issues its id, or from a row; a write
\* is of an aggregate, and a row comes from a write.
LEMMA StepKeepsOnlyIssued ==
    ASSUME IInv, TypeOK', NEW c \in Clients, Step(c)
    PROVE  OnlyIssued'
<1>. USE NoAggregateAssumption DEF IInv, TypeOK, UowTypeOK, OnlyIssued,
         NewIsPrivate, Places_OK, NoWrites, HandOn, View, Aggregate, GoTo, Hold, At,
         Holds, Clients, clientVars
<1>1. CASE Quiet(c)
    BY <1>1 DEF Quiet, Enter, Open, AddCheck, DeleteCheck, Submit,
       CommitAnswersRefused, CommitRefused, uowVars, history
<1>2. CASE Failing(c)
    BY <1>2 DEF Failing, Breaks, Fail, Discard
<1>3. CASE \E id \in Ids, key \in Keys \cup {NoKey} : Create(c, id, key)
    BY <1>3 DEF Create, uowVars, history
<1>4. CASE \E id \in Ids : GetById(c, id)
    BY <1>4 DEF GetById, FromRow, uowVars, history
<1>5. CASE AddFlush(c)
    BY <1>5 DEF AddFlush, Flush, Record
<1>6. CASE \E key \in Keys \cup {NoKey} : UpdateCheck(c, key)
    BY <1>6 DEF UpdateCheck, uowVars, history, VersionMatches
<1>7. CASE UpdateFlush(c)
    BY <1>7 DEF UpdateFlush, Flush, Record, RowLocked, Updated, FromRow,
       MatchesWhere
<1>8. CASE DeleteFlush(c)
    BY <1>8 DEF DeleteFlush, Flush, Record, RowLocked
<1>9. CASE CommitAnswersOk(c)
    BY <1>9 DEF CommitAnswersOk, CommitOk, Merged, Settled
<1>10. CASE CommitEndsInError(c)
    BY <1>10 DEF CommitEndsInError, CommitError, Merged, Settled
<1>11. CASE CommitIsCancelled(c)
    BY <1>11 DEF CommitIsCancelled, CommitCancelled, Merged
<1>12. CASE CallRollback(c)
    BY <1>12 DEF CallRollback, Rollback, Discard
<1>13. CASE Leave(c)
    BY <1>13 DEF Leave, Close, Discard
<1>14. QED
    BY <1>1, <1>2, <1>3, <1>4, <1>5, <1>6, <1>7, <1>8,
       <1>9, <1>10, <1>11, <1>12, <1>13, StepCases

\* A fresh id is in no row, write or aggregate; nobody can read it, and when its
\* transaction ends the aggregate is not new any more.
LEMMA StepKeepsNewIsPrivate ==
    ASSUME IInv, TypeOK', NEW c \in Clients, Step(c)
    PROVE  NewIsPrivate'
<1>. USE NoAggregateAssumption DEF IInv, TypeOK, UowTypeOK, NewIsPrivate,
         OnlyIssued, RowsExclusive, InsertIsPrivate, Places_OK, NoWrites, HandOn,
         View, Aggregate, GoTo, Hold, At, Holds, Clients, clientVars
<1>1. CASE Quiet(c)
    BY <1>1 DEF Quiet, Enter, Open, AddCheck, DeleteCheck, Submit,
       CommitAnswersRefused, CommitRefused, uowVars, history
<1>2. CASE Failing(c)
    BY <1>2 DEF Failing, Breaks, Fail, Discard
<1>3. CASE \E id \in Ids, key \in Keys \cup {NoKey} : Create(c, id, key)
    BY <1>3 DEF Create, uowVars, history
<1>4. CASE \E id \in Ids : GetById(c, id)
    BY <1>4 DEF GetById, FromRow, uowVars, history
<1>5. CASE AddFlush(c)
    BY <1>5 DEF AddFlush, Flush, Record
<1>6. CASE \E key \in Keys \cup {NoKey} : UpdateCheck(c, key)
    BY <1>6 DEF UpdateCheck, uowVars, history, VersionMatches
<1>7. CASE UpdateFlush(c)
    <2>. DEFINE a == hand[c]
                row == Updated(a.key, a.data, a.version)
    <2>1. /\ table' = table
          /\ pending' = [pending EXCEPT ![c][a.id] = row]
          /\ hand' = hand \/ hand' = [hand EXCEPT ![c] = FromRow(a.id, row)]
        BY <1>7 DEF UpdateFlush, Flush
    <2>2. ~FromRow(a.id, row).new /\ FromRow(a.id, row).id = a.id
        BY DEF FromRow
    <2>. HIDE DEF row
    <2>3. QED
        BY <1>7, <2>1, <2>2 DEF UpdateFlush
<1>8. CASE DeleteFlush(c)
    BY <1>8 DEF DeleteFlush, Flush, Record, RowLocked
<1>9. CASE CommitAnswersOk(c)
    BY <1>9 DEF CommitAnswersOk, CommitOk, Merged, Settled
<1>10. CASE CommitEndsInError(c)
    BY <1>10 DEF CommitEndsInError, CommitError, Merged, Settled
<1>11. CASE CommitIsCancelled(c)
    BY <1>11 DEF CommitIsCancelled, CommitCancelled, Merged
<1>12. CASE CallRollback(c)
    BY <1>12 DEF CallRollback, Rollback, Discard
<1>13. CASE Leave(c)
    BY <1>13 DEF Leave, Close, Discard
<1>14. QED
    BY <1>1, <1>2, <1>3, <1>4, <1>5, <1>6, <1>7, <1>8,
       <1>9, <1>10, <1>11, <1>12, <1>13, StepCases

\* While the row of a write is not committed, no other client can read it.
LEMMA StepKeepsInsertIsPrivate ==
    ASSUME IInv, TypeOK', NEW c \in Clients, Step(c)
    PROVE  InsertIsPrivate'
<1>. USE NoAggregateAssumption DEF IInv, TypeOK, UowTypeOK, InsertIsPrivate,
         NewIsPrivate, OnlyIssued, RowsExclusive, Places_OK, NoWrites, HandOn, View,
         Aggregate, GoTo, Hold, At, Holds, Clients, clientVars
<1>1. CASE Quiet(c)
    BY <1>1 DEF Quiet, Enter, Open, AddCheck, DeleteCheck, Submit,
       CommitAnswersRefused, CommitRefused, uowVars, history
<1>2. CASE Failing(c)
    BY <1>2 DEF Failing, Breaks, Fail, Discard
<1>3. CASE \E id \in Ids, key \in Keys \cup {NoKey} : Create(c, id, key)
    BY <1>3 DEF Create, uowVars, history
<1>4. CASE \E id \in Ids : GetById(c, id)
    BY <1>4 DEF GetById, FromRow, uowVars, history
<1>5. CASE AddFlush(c)
    BY <1>5 DEF AddFlush, Flush, Record
<1>6. CASE \E key \in Keys \cup {NoKey} : UpdateCheck(c, key)
    BY <1>6 DEF UpdateCheck, uowVars, history, VersionMatches
<1>7. CASE UpdateFlush(c)
    BY <1>7 DEF UpdateFlush, Flush, Record, RowLocked, Updated, FromRow,
       MatchesWhere
<1>8. CASE DeleteFlush(c)
    BY <1>8 DEF DeleteFlush, Flush, Record, RowLocked, MatchesWhere
<1>9. CASE CommitAnswersOk(c)
    BY <1>9 DEF CommitAnswersOk, CommitOk, Merged, Settled
<1>10. CASE CommitEndsInError(c)
    BY <1>10 DEF CommitEndsInError, CommitError, Merged, Settled
<1>11. CASE CommitIsCancelled(c)
    BY <1>11 DEF CommitIsCancelled, CommitCancelled, Merged
<1>12. CASE CallRollback(c)
    BY <1>12 DEF CallRollback, Rollback, Discard
<1>13. CASE Leave(c)
    BY <1>13 DEF Leave, Close, Discard
<1>14. QED
    BY <1>1, <1>2, <1>3, <1>4, <1>5, <1>6, <1>7, <1>8,
       <1>9, <1>10, <1>11, <1>12, <1>13, StepCases

\* A flushed UPDATE or DELETE is of an aggregate whose version the WHERE clause
\* found in the row, so by HandKnows it knows the row's changes; and as nobody
\* else holds a write of that row, the row stays until the writer's commit.
LEMMA StepKeepsWritesKnow ==
    ASSUME IInv, TypeOK', NEW c \in Clients, Step(c)
    PROVE  WritesKnow'
<1>1. SUFFICES ASSUME NEW d \in Clients PROVE KnowsItsWrites(d)'
    BY DEF WritesKnow
<1>2. KnowsItsWrites(d) /\ KnowsItsWrites(c)
    BY DEF IInv, WritesKnow
<1>3. CASE d # c
    <2>1. UNCHANGED <<pending[d], broken[d], wrote[d]>>
        BY <1>3, OthersUntouched DEF IInv
    <2>2. ASSUME NEW id \in Ids, pending[d][id] # Untouched PROVE table'[id] = table[id]
        <3>1. pending[c][id] = Untouched
            BY <1>3, <2>2 DEF IInv, RowsExclusive
        <3>2. QED
            BY <3>1, OnlyCommitsChangeTheTable DEF Merged, View
    <2>3. QED
        BY <1>2, <2>1, <2>2, SentinelsAssumption DEF KnowsItsWrites, DataIn
<1>4. ASSUME table' = table, pending'[c] = pending[c], wrote'[c] = wrote[c],
             broken'[c] = broken[c]
      PROVE  KnowsItsWrites(c)'
    BY <1>2, <1>4 DEF KnowsItsWrites, DataIn
<1>5. ASSUME pending'[c] = NoWrites, wrote'[c] = NothingWritten PROVE KnowsItsWrites(c)'
    BY <1>5, SentinelsAssumption DEF KnowsItsWrites, NoWrites, NothingWritten
<1>6. ASSUME broken'[c] PROVE KnowsItsWrites(c)'
    BY <1>6 DEF KnowsItsWrites
<1>7. ASSUME NEW row,
             Flush(c, hand[c].id, row), Record(c, hand[c].id, hand[c].data), Holds(c),
             ~broken[c] => DataIn(hand[c].id) \subseteq hand[c].data,
             ~broken[c] /\ row \in Row =>
                /\ row.data = hand[c].data
                /\ table[hand[c].id] # NoRow => table[hand[c].id].version < row.version,
             row # Untouched
      PROVE  KnowsItsWrites(c)'
    <2>1. CASE broken[c]
        BY <1>6, <1>7, <2>1 DEF Record
    <2>2. CASE ~broken[c]
        <3>. DEFINE a == hand[c]
        <3>1. /\ table' = table
              /\ wrote'[c] = [wrote[c] EXCEPT ![a.id] = a.data]
              /\ pending'[c] = [pending[c] EXCEPT ![a.id] = row]
              /\ a.id \in Ids
            BY <1>7, <2>2, HandType DEF Flush, Record, IInv, TypeOK, UowTypeOK, Clients
        <3>2. pending[c] \in [Ids -> Row \cup {NoRow, Untouched}] /\ wrote[c] \in [Ids -> SUBSET Changes]
            BY DEF IInv, TypeOK, UowTypeOK, Clients
        <3>3. ~broken'[c]
            BY <1>7, <2>2 DEF Record
        <3>. HIDE DEF a
        <3>4. ASSUME NEW id \in Ids, id # a.id
              PROVE  pending'[c][id] = pending[c][id] /\ wrote'[c][id] = wrote[c][id]
            BY <3>1, <3>2, <3>4
        <3>5. pending'[c][a.id] = row /\ wrote'[c][a.id] = a.data
            BY <3>1, <3>2
        <3>6. QED
            BY <1>2, <1>7, <2>2, <3>1, <3>3, <3>4, <3>5 DEF KnowsItsWrites, DataIn, a
    <2>3. QED
        BY <2>1, <2>2
<1>8. SUFFICES KnowsItsWrites(c)'
    BY <1>3
<1>. USE DEF IInv, TypeOK, UowTypeOK, Clients
<1>10. CASE Quiet(c)
    BY <1>10, <1>4, <1>5 DEF Quiet, Enter, Open, AddCheck, DeleteCheck, Submit, At, Places_OK,
                             CommitAnswersRefused, CommitRefused, uowVars, history
<1>11. CASE Failing(c)
    BY <1>11, <1>6 DEF Failing, Breaks
<1>12. CASE \/ \E id \in Ids, key \in Keys \cup {NoKey} : Create(c, id, key)
            \/ \E id \in Ids : GetById(c, id)
            \/ \E key \in Keys \cup {NoKey} : UpdateCheck(c, key)
    BY <1>12, <1>4 DEF Create, GetById, UpdateCheck, uowVars, history
<1>13. CASE AddFlush(c)
    <2>. DEFINE a == hand[c]
                row == [key |-> a.key, data |-> a.data, version |-> a.version]
    <2>1. Holds(c) /\ a.new
        BY <1>13 DEF AddFlush, At, Holds, Places_OK
    <2>2. row \in Row
        BY <2>1, HandType, ChangesAssumption DEF Row
    <2>3. table[a.id] = NoRow /\ DataIn(a.id) = {}
        BY <2>1 DEF NewIsPrivate, Holds, DataIn
    <2>4. Flush(c, a.id, row) /\ Record(c, a.id, a.data)
        BY <1>13 DEF AddFlush
    <2>5. row.data = a.data /\ row # Untouched
        BY <2>2, SentinelsAssumption
    <2>. HIDE DEF row, IInv
    <2>6. QED
        BY <1>7, <2>1, <2>3, <2>4, <2>5
<1>14. ASSUME Holds(c), MatchesWhere(c, hand[c].id, hand[c].version), ~broken[c]
       PROVE  /\ DataIn(hand[c].id) \subseteq hand[c].data
              /\ table[hand[c].id] # NoRow => table[hand[c].id].version <= hand[c].version
    <2>1. View(c, hand[c].id).data \subseteq hand[c].data
        BY <1>14 DEF HandKnows, KnowsItsRow, MatchesWhere, Holds
    <2>2. CASE pending[c][hand[c].id] = Untouched
        BY <1>14, <2>1, <2>2, HandType DEF View, DataIn, MatchesWhere
    <2>3. CASE pending[c][hand[c].id] # Untouched
        <3>1. pending[c][hand[c].id] \in Row
            BY <1>14, <2>3, HandType DEF View, MatchesWhere
        <3>2. QED
            BY <1>2, <1>14, <2>1, <2>3, <3>1, HandType
            DEF View, MatchesWhere, KnowsItsWrites, Row
    <2>4. QED
        BY <2>2, <2>3
<1>15. CASE UpdateFlush(c)
    <2>. DEFINE a == hand[c]
                row == Updated(a.key, a.data, a.version)
    <2>1. Holds(c)
        BY <1>15 DEF UpdateFlush, At, Holds, Places_OK
    <2>2. row \in Row /\ row.data = a.data /\ row.version = a.version + 1
        BY <2>1, HandType, ChangesAssumption DEF Row, Updated
    <2>3. /\ Flush(c, a.id, row) /\ Record(c, a.id, a.data)
          /\ MatchesWhere(c, a.id, a.version)
        BY <1>15 DEF UpdateFlush
    <2>4. ~broken[c] /\ table[a.id] # NoRow => table[a.id].version < row.version
        BY <1>14, <2>1, <2>2, <2>3, HandType DEF Row
    <2>5. row # Untouched
        BY <2>2, SentinelsAssumption
    <2>. HIDE DEF row, IInv
    <2>6. QED
        BY <1>7, <1>14, <2>1, <2>2, <2>3, <2>4, <2>5
<1>16. CASE DeleteFlush(c)
    BY <1>16, <1>14, <1>7, SentinelsAssumption DEF DeleteFlush, At, Holds, Places_OK
<1>17. CASE CommitAnswersOk(c)
    BY <1>17, <1>5 DEF CommitAnswersOk, CommitOk
<1>18. CASE CommitEndsInError(c)
    BY <1>18, <1>6 DEF CommitEndsInError
<1>19. CASE CommitIsCancelled(c)
    BY <1>19, <1>5 DEF CommitIsCancelled, CommitCancelled
<1>20. CASE CallRollback(c) \/ Leave(c)
    BY <1>20, <1>5 DEF CallRollback, Rollback, Leave, Close, Discard
<1>21. QED
    BY <1>10, <1>11, <1>12, <1>13, <1>15, <1>16, <1>17, <1>18, <1>19, <1>20, StepCases

\* A row changes under an aggregate only by a commit, which by WritesKnow puts
\* the row's version above that of every aggregate read before.  An aggregate
\* brought into a scope must know its committed row.
LEMMA StepKeepsHandKnows ==
    ASSUME IInv, TypeOK', NEW c \in Clients, Step(c), At(c, "closed") => KnowsCommitted(c)
    PROVE  HandKnows'
<1>1. SUFFICES ASSUME NEW d \in Clients PROVE KnowsItsRow(d)'
    BY DEF HandKnows
<1>2. KnowsItsRow(d) /\ KnowsItsRow(c)
    BY DEF IInv, HandKnows
<1>3. CASE d # c
    <2>1. UNCHANGED <<pending[d], hand[d], broken[d]>>
        BY <1>3, OthersUntouched DEF IInv
    <2>2. SUFFICES ASSUME hand[d] # NoAggregate, ~broken[d], table' # table,
                          pending[d][hand[d].id] = Untouched,
                          pending[c][hand[d].id] \in Row
                   PROVE  KnowsItsRow(d)'
        <3>1. CASE table' = table \/ pending[d][hand[d].id] # Untouched
            BY <1>2, <2>1, <3>1 DEF KnowsItsRow, View
        <3>2. CASE table' = Merged(c) /\ pending[c][hand[d].id] = Untouched
                                     /\ hand[d] # NoAggregate
            BY <1>2, <2>1, <3>2, HandType DEF KnowsItsRow, View, Merged, IInv, Holds
        <3>3. CASE table' = Merged(c) /\ pending[c][hand[d].id] = NoRow
                                     /\ hand[d] # NoAggregate
            BY <2>1, <2>2, <3>1, <3>3, HandType, SentinelsAssumption
            DEF KnowsItsRow, View, Merged, IInv, Holds
        <3>4. QED
            BY <2>1, <2>2, <3>1, <3>2, <3>3, OnlyCommitsChangeTheTable, HandType
            DEF KnowsItsRow, IInv, TypeOK, UowTypeOK, Clients, Holds
    <2>. DEFINE id == hand[d].id
    <2>3. id \in Ids /\ hand[d].version \in Nat
        BY <2>2, HandType DEF IInv, Holds
    <2>4. table' = Merged(c) /\ ~broken[c]
        BY <2>2, OnlyCommitsChangeTheTable
    <2>5. table[id] # NoRow
        BY <1>3, <2>2, <2>3, SentinelsAssumption DEF IInv, InsertIsPrivate, HandOn
    <2>6. table[id].version < pending[c][id].version
        BY <2>2, <2>3, <2>4, <2>5 DEF IInv, WritesKnow, KnowsItsWrites
    <2>7. hand[d].version <= table[id].version
        BY <1>2, <2>2, <2>5 DEF KnowsItsRow, View
    <2>8. View(d, id)' = pending[c][id]
        BY <2>1, <2>2, <2>3, <2>4, SentinelsAssumption DEF View, Merged
    <2>9. hand[d].version < pending[c][id].version
        BY <2>2, <2>3, <2>5, <2>6, <2>7 DEF IInv, TypeOK, UowTypeOK, Row
    <2>10. QED
        BY <2>1, <2>2, <2>3, <2>8, <2>9 DEF KnowsItsRow, Row
<1>4. ASSUME table' = table, pending'[c] = pending[c], hand'[c] = hand[c],
             broken'[c] = broken[c]
      PROVE  KnowsItsRow(c)'
    BY <1>2, <1>4 DEF KnowsItsRow, View
<1>5. ASSUME hand'[c] = NoAggregate \/ broken'[c] PROVE KnowsItsRow(c)'
    BY <1>5 DEF KnowsItsRow
<1>6. SUFFICES KnowsItsRow(c)'
    BY <1>3
<1>. USE DEF IInv, TypeOK, UowTypeOK, Clients, At, Hold
<1>7. CASE Quiet(c)
    <2>1. CASE Enter(c)
        <3>1. UNCHANGED <<table, pending, hand>> /\ pending[c] = NoWrites /\ At(c, "closed")
            BY <2>1 DEF Enter, Open, Places_OK
        <3>2. hand[c] # NoAggregate => View(c, hand[c].id)' = table[hand[c].id]
            BY <3>1, HandType DEF View, NoWrites, Holds
        <3>3. QED
            BY <3>1, <3>2 DEF KnowsItsRow, KnowsCommitted
    <2>2. QED
        BY <1>7, <2>1, <1>4 DEF Quiet, AddCheck, DeleteCheck, Submit, CommitAnswersRefused,
                                CommitRefused, uowVars, history
<1>8. CASE Failing(c)
    BY <1>8, <1>5 DEF Failing, Breaks
<1>9. CASE \E id \in Ids, key \in Keys \cup {NoKey} : Create(c, id, key)
    <2>1. PICK id \in Ids, key \in Keys \cup {NoKey} : Create(c, id, key)
        BY <1>9
    <2>2. View(c, id)' = NoRow /\ hand'[c].id = id
        BY <2>1 DEF Create, uowVars, View, OnlyIssued
    <2>3. QED
        BY <2>2 DEF KnowsItsRow
<1>10. CASE \E id \in Ids : GetById(c, id)
    <2>1. PICK id \in Ids : GetById(c, id)
        BY <1>10
    <2>2. View(c, id)' = View(c, id) /\ View(c, id) \in Row
        BY <2>1, ViewType DEF GetById, uowVars, View
    <2>3. hand'[c] = FromRow(id, View(c, id))
        BY <2>1 DEF GetById
    <2>4. QED
        BY <2>2, <2>3 DEF KnowsItsRow, FromRow, Row
<1>11. CASE AddFlush(c)
    <2>. DEFINE a == hand[c]
    <2>1. a \in Aggregate
        BY <1>11 DEF AddFlush, Places_OK
    <2>2. View(c, a.id)' = [key |-> a.key, data |-> a.data, version |-> a.version]
        BY <1>11, <2>1, SentinelsAssumption, ChangesAssumption
        DEF AddFlush, Flush, View, Aggregate, Row
    <2>3. hand'[c] = a
        BY <1>11 DEF AddFlush
    <2>4. QED
        BY <2>1, <2>2, <2>3 DEF KnowsItsRow, Aggregate
<1>12. CASE \E key \in Keys \cup {NoKey} : UpdateCheck(c, key)
    <2>1. PICK key \in Keys \cup {NoKey} : UpdateCheck(c, key)
        BY <1>12
    <2>2. Holds(c) /\ hand'[c] = Changed(c, key) /\ UNCHANGED <<table, pending, broken>>
        BY <2>1 DEF UpdateCheck, Changed, uowVars, history
    <2>3. hand[c] \in Aggregate /\ hand[c] # NoAggregate
        BY <2>2 DEF Holds
    <2>4. /\ hand'[c].id = hand[c].id /\ hand'[c].version = hand[c].version
          /\ hand[c].data \subseteq hand'[c].data
        BY <2>2, <2>3 DEF Changed, Aggregate
    <2>5. QED
        BY <1>2, <2>2, <2>3, <2>4 DEF KnowsItsRow, View
<1>13. CASE UpdateFlush(c)
    <2>. DEFINE a == hand[c]
                row == Updated(a.key, a.data, a.version)
    <2>1. a \in Aggregate /\ row \in Row
        BY <1>13, ChangesAssumption DEF UpdateFlush, Places_OK, Updated, Row, Aggregate
    <2>2. pending' = [pending EXCEPT ![c][a.id] = row]
        BY <1>13 DEF UpdateFlush, Flush
    <2>. HIDE DEF row
    <2>3. pending'[c][a.id] = row /\ row # Untouched
        BY <2>1, <2>2, SentinelsAssumption DEF Aggregate
    <2>4. hand'[c] = a \/ hand'[c] = FromRow(a.id, row)
        BY <1>13 DEF UpdateFlush, row
    <2>5. hand'[c].id = a.id
        BY <2>4 DEF FromRow
    <2>6. View(c, hand[c].id)' = row
        BY <2>3, <2>5 DEF View
    <2>7. /\ hand'[c].version <= row.version
          /\ hand'[c].version = row.version => row.data \subseteq hand'[c].data
        BY <2>1, <2>4 DEF FromRow, row, Updated, Row, Aggregate
    <2>8. QED
        BY <2>6, <2>7 DEF KnowsItsRow
<1>14. CASE DeleteFlush(c)
    BY <1>14, <1>5 DEF DeleteFlush
<1>15. CASE CommitAnswersOk(c)
    <2>1. hand'[c] = Settled(c)
        BY <1>15 DEF CommitAnswersOk
    <2>2. CASE Holds(c)
        <3>1. /\ hand[c] # NoAggregate /\ hand'[c].id = hand[c].id
              /\ hand'[c].version = hand[c].version /\ hand'[c].data = hand[c].data
            BY <2>1, <2>2, HandType DEF Settled, Holds, Aggregate
        <3>2. View(c, hand[c].id)' = View(c, hand[c].id)
            <4>1. table' = Merged(c) /\ pending'[c] = NoWrites
                BY <1>15 DEF CommitAnswersOk, CommitOk
            <4>2. hand[c].id \in Ids
                BY <2>2, HandType
            <4>. HIDE DEF IInv
            <4>3. QED
                BY <3>1, <4>1, <4>2 DEF View, Merged, NoWrites
        <3>3. broken' = broken
            BY <1>15 DEF CommitAnswersOk
        <3>4. QED
            BY <1>2, <3>1, <3>2, <3>3 DEF KnowsItsRow
    <2>3. CASE ~Holds(c)
        BY <1>5, <2>1, <2>3 DEF Settled
    <2>4. QED
        BY <2>2, <2>3
<1>16. CASE CommitEndsInError(c)
    BY <1>16, <1>5 DEF CommitEndsInError
<1>17. CASE CommitIsCancelled(c) \/ CallRollback(c) \/ Leave(c)
    BY <1>17, <1>5 DEF CommitIsCancelled, CallRollback, Leave
<1>18. QED
    BY <1>7, <1>8, <1>9, <1>10, <1>11, <1>12, <1>13, <1>14, <1>15, <1>16, <1>17, StepCases

-----------------------------------------------------------------------------
(* The theorems *)

\* Before the first call everything is empty.
LEMMA InitEstablishesInvariant == Init => IInv /\ EmptyHanded
<1>1. SUFFICES ASSUME Init PROVE IInv /\ EmptyHanded
    OBVIOUS
<1>2. TypeOK
    <2>1. UowTypeOK
        BY <1>1, SentinelsAssumption DEF Init, UowInit, UowTypeOK, NoWrites
    <2>2. QED
        BY <1>1, <2>1, ChangesAssumption DEF Init, TypeOK, NothingWritten, Places
<1>3. Places_OK /\ RowsExclusive /\ OnlyIssued /\ NewIsPrivate /\ InsertIsPrivate
    BY <1>1 DEF Init, UowInit, NoWrites, Clients, Places_OK, RowsExclusive, OnlyIssued,
                NewIsPrivate, InsertIsPrivate, HandOn
<1>4. WritesKnow /\ HandKnows
    BY <1>1, SentinelsAssumption
    DEF Init, UowInit, NoWrites, NothingWritten, Clients, WritesKnow, KnowsItsWrites, HandKnows,
        KnowsItsRow
<1>5. EmptyHanded
    BY <1>1 DEF Init, EmptyHanded
<1>6. QED
    BY <1>2, <1>3, <1>4, <1>5 DEF IInv

\* Every step of a client keeps the invariant, if the client does not enter a
\* scope with an aggregate that is not up to it.
LEMMA StepKeepsIInv ==
    ASSUME IInv, NEW c \in Clients, Step(c), At(c, "closed") => KnowsCommitted(c)
    PROVE  IInv'
<1>1. TypeOK'
    BY StepKeepsType DEF IInv
<1>2. QED
    BY <1>1, StepKeepsPlaces, StepKeepsRowsExclusive, StepKeepsOnlyIssued,
       StepKeepsNewIsPrivate, StepKeepsInsertIsPrivate, StepKeepsWritesKnow, StepKeepsHandKnows
    DEF IInv

\* A step moves its client alone, and leaves a scope with empty hands.
LEMMA ScopesAreLeftEmpty ==
    ASSUME IInv, NEW c \in Clients, Step(c)
    PROVE  /\ \A d \in Clients \ {c} : pc'[d] = pc[d]
           /\ pc'[c] = "closed" => hand'[c] = NoAggregate
<1>. USE DEF IInv, TypeOK, UowTypeOK, Clients, GoTo, Hold, At, clientVars
<1>1. \A d \in Clients \ {c} : pc'[d] = pc[d]
    BY DEF Step, Enter, Create, GetById, SelectError, AddCheck, AddFlush, UpdateCheck,
           UpdateFlush, DeleteCheck, DeleteFlush, StaleFlush, KeyConflict, FlushError, Submit,
           CommitAnswersOk, CommitAnswersRefused, CommitOutcomeUnknown, CallRollback, Leave
<1>2. CASE Leave(c)
    BY <1>2 DEF Leave
<1>3. CASE ~Leave(c)
    BY <1>3
    DEF Step, Enter, Create, GetById, SelectError, AddCheck, AddFlush, UpdateCheck, UpdateFlush,
        DeleteCheck, DeleteFlush, StaleFlush, KeyConflict, FlushError, Submit, CommitAnswersOk,
        CommitAnswersRefused, CommitOutcomeUnknown, CallRollback
<1>4. QED
    BY <1>1, <1>2, <1>3

LEMMA StepKeepsEmptyHanded ==
    ASSUME IInv, EmptyHanded, NEW c \in Clients, Step(c)
    PROVE  EmptyHanded'
BY ScopesAreLeftEmpty, OthersUntouched DEF IInv, EmptyHanded

\* A step that changes nothing but what is beside the model's own variables.
LEMMA StutterKeepsIInv ==
    ASSUME IInv, UNCHANGED vars
    PROVE  IInv'
<1>. USE DEF vars, uowVars, clientVars, history, IInv
<1>1. TypeOK'
    BY DEF TypeOK, UowTypeOK
<1>2. Places_OK'
    BY DEF Places_OK
<1>3. RowsExclusive'
    BY DEF RowsExclusive
<1>4. OnlyIssued' /\ NewIsPrivate' /\ InsertIsPrivate'
    BY DEF OnlyIssued, NewIsPrivate, InsertIsPrivate, HandOn
<1>5. WritesKnow'
    BY DEF WritesKnow, KnowsItsWrites, DataIn
<1>6. HandKnows'
    BY DEF HandKnows, KnowsItsRow, View
<1>7. QED
    BY <1>1, <1>2, <1>3, <1>4, <1>5, <1>6

\* The invariant is inductive.
LEMMA StepKeepsInvariant == IInv /\ EmptyHanded /\ [Next]_vars => (IInv /\ EmptyHanded)'
<1>1. ASSUME IInv, EmptyHanded, NEW c \in Clients, Step(c) PROVE (IInv /\ EmptyHanded)'
    BY <1>1, StepKeepsIInv, StepKeepsEmptyHanded DEF At, EmptyHanded, KnowsCommitted
<1>2. ASSUME IInv, EmptyHanded, UNCHANGED vars PROVE (IInv /\ EmptyHanded)'
    BY <1>2, StutterKeepsIInv DEF EmptyHanded, vars, clientVars
<1>3. QED
    BY <1>1, <1>2 DEF Next

\* The inductive invariant holds in every reachable state.
THEOREM Invariant == Spec => [](IInv /\ EmptyHanded)
BY InitEstablishesInvariant, StepKeepsInvariant, PTL DEF Spec

\* The table, the transactions and everything the clients hold have their types.
THEOREM TypesAreCorrect == Spec => []TypeOK
<1>1. IInv => TypeOK
    BY DEF IInv
<1>2. QED
    BY <1>1, Invariant, PTL

\* commit() refuses exactly the open scopes in which a statement failed.
THEOREM RefusalsAreEarned == Spec => []RefusedIffBroken
<1>1. IInv => RefusedIffBroken
    BY DEF IInv, Places_OK, RefusedIffBroken
<1>2. QED
    BY <1>1, Invariant, PTL

\* Whoever commits over a row has written what knows every change in it.
LEMMA CommitsKnowTheRow ==
    ASSUME IInv, NEW c \in Clients, Step(c), NEW id \in Ids,
           table[id] # NoRow, table'[id] # table[id]
    PROVE  /\ table'[id] # NoRow => table[id].data \subseteq table'[id].data
           /\ \E d \in Clients : table[id].data \subseteq wrote[d][id]
<1>1. table' = Merged(c) /\ ~broken[c]
    BY OnlyCommitsChangeTheTable
<1>2. table'[id] = pending[c][id] /\ pending[c][id] # Untouched
    BY <1>1 DEF Merged, View
<1>3. table[id].data \subseteq wrote[c][id]
    BY <1>1, <1>2 DEF IInv, WritesKnow, KnowsItsWrites, DataIn
<1>4. CASE table'[id] # NoRow
    <2>1. pending[c][id] \in Row
        BY <1>2, <1>4 DEF IInv, TypeOK, UowTypeOK, Clients
    <2>2. table'[id].data = wrote[c][id]
        BY <1>1, <1>2, <2>1 DEF IInv, WritesKnow, KnowsItsWrites
    <2>3. QED
        BY <1>3, <2>2
<1>5. QED
    BY <1>3, <1>4

\* The optimistic lock: a committed row is replaced or deleted only by a client
\* that has seen every change in it, and a replacement keeps them all.
THEOREM NoUpdateIsLost == Spec => NoLostUpdate
<1>1. IInv /\ [Next]_vars =>
        [\A id \in Ids :
            (table[id] # NoRow /\ table'[id] # table[id]) =>
                /\ table'[id] # NoRow => table[id].data \subseteq table'[id].data
                /\ \E c \in Clients : table[id].data \subseteq wrote[c][id]]_vars
    BY CommitsKnowTheRow DEF Next
<1>2. QED
    BY <1>1, Invariant, PTL DEF Spec, NoLostUpdate

\* A commit that reaches the table says which rows it deletes; a change that is
\* committed and not overwritten stays.
LEMMA CommittedChangesStay ==
    ASSUME IInv, NEW c \in Clients, Step(c), NEW id \in Ids, NEW x \in DataIn(id)
    PROVE  id \in erased' \/ x \in DataIn(id)'
<1>1. CASE table' = table
    BY <1>1 DEF DataIn
<1>2. CASE table' # table
    <2>1. table' = Merged(c) /\ ~broken[c] /\ At(c, "committing")
        BY <1>2, OnlyCommitsChangeTheTable
    <2>2. table[id] # NoRow /\ KnowsItsWrites(c)
        BY DEF IInv, WritesKnow, DataIn
    <2>3. CASE pending[c][id] = Untouched
        BY <2>1, <2>3 DEF DataIn, Merged, View
    <2>4. CASE pending[c][id] = NoRow
        <3>1. CommitAnswersOk(c) \/ CommitOutcomeUnknown(c)
            BY <1>2, <2>1
            DEF Step, At, Enter, Create, GetById, SelectError, AddCheck, AddFlush, UpdateCheck,
                UpdateFlush, DeleteCheck, DeleteFlush, StaleFlush, KeyConflict, FlushError,
                Submit, CommitAnswersRefused, CommitRefused, CallRollback, Leave, Close
        <3>2. QED
            BY <2>4, <3>1 DEF CommitAnswersOk, CommitOutcomeUnknown, Deletions
    <2>5. CASE pending[c][id] \in Row
        <3>1. x \in pending[c][id].data
            BY <2>1, <2>2, <2>5, SentinelsAssumption DEF KnowsItsWrites
        <3>2. table'[id] = pending[c][id]
            BY <2>1, <2>5, SentinelsAssumption DEF Merged, View
        <3>3. QED
            BY <2>5, <3>1, <3>2, SentinelsAssumption DEF DataIn
    <2>6. QED
        BY <2>3, <2>4, <2>5 DEF IInv, TypeOK, UowTypeOK, Clients
<1>3. QED
    BY <1>1, <1>2

\* What commit() acknowledges is in the table or deleted by the same transaction.
LEMMA AcknowledgedChangesArrive ==
    ASSUME IInv, NEW c \in Clients, CommitAnswersOk(c), NEW id \in Ids, NEW x \in wrote[c][id]
    PROVE  id \in erased' \/ x \in DataIn(id)'
<1>1. KnowsItsWrites(c) /\ ~broken[c] /\ table' = Merged(c)
    BY DEF IInv, WritesKnow, Places_OK, CommitAnswersOk, CommitOk
<1>2. CASE pending[c][id] = NoRow
    BY <1>2 DEF CommitAnswersOk, Deletions
<1>3. CASE pending[c][id] = Untouched
    BY <1>1, <1>3 DEF KnowsItsWrites
<1>4. CASE pending[c][id] \in Row
    <2>1. table'[id] = pending[c][id] /\ pending[c][id].data = wrote[c][id]
        BY <1>1, <1>4, SentinelsAssumption DEF KnowsItsWrites, Merged, View
    <2>2. QED
        BY <1>4, <2>1, SentinelsAssumption DEF DataIn
<1>5. QED
    BY <1>2, <1>3, <1>4 DEF IInv, TypeOK, UowTypeOK, Clients

\* Only a commit adds acknowledgements, of changes that it brings to the table.
LEMMA StepKeepsAcknowledged ==
    ASSUME IInv, AcknowledgedChangesStay, NEW c \in Clients, Step(c)
    PROVE  AcknowledgedChangesStay'
<1>1. SUFFICES ASSUME NEW p \in acked'
               PROVE  p[1] \in erased' \/ p[2] \in DataIn(p[1])'
    BY DEF AcknowledgedChangesStay
<1>2. erased \subseteq erased'
    BY DEF Step, Enter, Create, GetById, SelectError, AddCheck, AddFlush, UpdateCheck,
           UpdateFlush, DeleteCheck, DeleteFlush, StaleFlush, KeyConflict, FlushError,
                Submit, CommitAnswersOk, CommitAnswersRefused, CommitOutcomeUnknown,
                CallRollback, Leave, Breaks, Record, history
<1>3. \/ p \in acked
      \/ CommitAnswersOk(c) /\ p \in Pairs /\ p[2] \in wrote[c][p[1]]
    BY <1>1
    DEF Step, Enter, Create, GetById, SelectError, AddCheck, AddFlush, UpdateCheck,
        UpdateFlush, DeleteCheck, DeleteFlush, StaleFlush, KeyConflict, FlushError,
        Submit, CommitAnswersOk, CommitAnswersRefused, CommitOutcomeUnknown,
        CallRollback, Leave, Breaks, Record, history
<1>4. CASE p \in acked
    <2>1. p[1] \in Ids
        BY <1>4 DEF IInv, TypeOK, Pairs
    <2>2. p[1] \in erased \/ p[2] \in DataIn(p[1])
        BY <1>4 DEF AcknowledgedChangesStay
    <2>3. QED
        BY <1>2, <2>1, <2>2, CommittedChangesStay
<1>5. CASE CommitAnswersOk(c) /\ p \in Pairs /\ p[2] \in wrote[c][p[1]]
    BY <1>5, AcknowledgedChangesArrive DEF Pairs
<1>6. QED
    BY <1>3, <1>4, <1>5

\* A change whose commit answered Ok is in its row until somebody deletes the
\* row, whatever commits, fails or is cancelled afterwards.
THEOREM AcknowledgementsHold == Spec => []AcknowledgedChangesStay
<1>1. Init => AcknowledgedChangesStay
    BY DEF Init, AcknowledgedChangesStay
<1>2. ASSUME AcknowledgedChangesStay, UNCHANGED vars PROVE AcknowledgedChangesStay'
    BY <1>2 DEF AcknowledgedChangesStay, DataIn, vars, uowVars, history
<1>3. IInv /\ AcknowledgedChangesStay /\ [Next]_vars => AcknowledgedChangesStay'
    BY <1>2, StepKeepsAcknowledged DEF Next
<1>4. QED
    BY <1>1, <1>3, Invariant, PTL DEF Spec

-----------------------------------------------------------------------------
(* Index entries.  The clients come into it only through three kinds of     *)
(* steps of a transaction.                                                  *)

EndsTransaction(c) ==
    /\ table' \in {table, Merged(c)}
    /\ pending' = [pending EXCEPT ![c] = NoWrites]

FlushesRow(c, id, row) ==
    /\ pending' = [pending EXCEPT ![c][id] = row]
    /\ UNCHANGED table
    /\ row # NoRow => ~KeyLocked(c, row.key) /\ ~KeyTaken(c, id, row.key)

\* Nothing that happens to the table escapes these.
LEMMA TransactionSteps ==
    ASSUME IInv, NEW c \in Clients, Step(c)
    PROVE  \/ UNCHANGED <<table, pending>>
           \/ EndsTransaction(c)
           \/ \E id \in Ids, row \in Row \cup {NoRow} : FlushesRow(c, id, row)
<1>1. CASE Quiet(c)
    BY <1>1 DEF Quiet, Enter, Open, AddCheck, DeleteCheck, Submit, CommitAnswersRefused,
                CommitRefused, uowVars
<1>2. CASE Failing(c)
    BY <1>2 DEF Failing, Breaks, Fail, EndsTransaction
<1>3. CASE \/ \E id \in Ids, key \in Keys \cup {NoKey} : Create(c, id, key)
           \/ \E id \in Ids : GetById(c, id)
           \/ \E key \in Keys \cup {NoKey} : UpdateCheck(c, key)
    BY <1>3 DEF Create, GetById, UpdateCheck, uowVars
<1>4. CASE AddFlush(c)
    <2>. DEFINE a == hand[c]
                row == [key |-> a.key, data |-> a.data, version |-> a.version]
    <2>1. a \in Aggregate
        BY <1>4, HandType DEF AddFlush, At, IInv, Places_OK, Holds
    <2>2. row \in Row /\ row.key = a.key /\ a.id \in Ids
        BY <2>1 DEF Aggregate, Row
    <2>3. FlushesRow(c, a.id, row)
        BY <1>4, <2>2 DEF AddFlush, Flush, FlushesRow
    <2>4. QED
        BY <2>2, <2>3
<1>5. CASE UpdateFlush(c)
    <2>. DEFINE a == hand[c]
                row == Updated(a.key, a.data, a.version)
    <2>1. a \in Aggregate
        BY <1>5, HandType DEF UpdateFlush, At, IInv, Places_OK, Holds
    <2>2. row \in Row /\ row.key = a.key /\ a.id \in Ids
        BY <2>1 DEF Aggregate, Row, Updated
    <2>3. FlushesRow(c, a.id, row)
        BY <1>5, <2>2 DEF UpdateFlush, Flush, FlushesRow
    <2>4. QED
        BY <2>2, <2>3
<1>6. CASE DeleteFlush(c)
    <2>1. hand[c] \in Aggregate
        BY <1>6, HandType DEF DeleteFlush, At, IInv, Places_OK, Holds
    <2>2. hand[c].id \in Ids /\ FlushesRow(c, hand[c].id, NoRow)
        BY <1>6, <2>1 DEF DeleteFlush, Flush, FlushesRow, Aggregate
    <2>3. QED
        BY <2>2
<1>7. CASE CommitAnswersOk(c) \/ CommitEndsInError(c) \/ CommitIsCancelled(c)
    BY <1>7 DEF CommitAnswersOk, CommitOk, CommitEndsInError, CommitError, CommitIsCancelled,
                CommitCancelled, EndsTransaction
<1>8. CASE CallRollback(c) \/ Leave(c)
    BY <1>8 DEF CallRollback, Rollback, Leave, Close, EndsTransaction
<1>9. QED
    BY <1>1, <1>2, <1>3, <1>4, <1>5, <1>6, <1>7, <1>8, StepCases DEF IInv

\* What a transaction sees has each entry once.
EntriesUnique ==
    \A c \in Clients, i, j \in Ids :
        (View(c, i) # NoRow /\ View(c, j) # NoRow /\ View(c, i).key = View(c, j).key)
            => i = j \/ View(c, i).key = NoKey

\* Two transactions never hold the same entry.
EntriesExclusive ==
    \A c, d \in Clients, k \in Keys : HoldsKey(c, k) /\ HoldsKey(d, k) => c = d

KeysInv == KeysUnique /\ EntriesUnique /\ EntriesExclusive

\* A transaction that ends does not bring an entry under which another one, d,
\* has written a row: the two would both hold it.
LEMMA EndMeetsWrite ==
    ASSUME UowTypeOK, UowTypeOK', RowsExclusive, KeysInv,
           NEW c \in Clients, EndsTransaction(c), NEW d \in Clients, d # c,
           NEW i \in Ids, NEW j \in Ids, i # j,
           pending[d][i] # Untouched, pending[d][j] = Untouched,
           View(d, i)' # NoRow, View(d, j)' # NoRow, View(d, i)'.key = View(d, j)'.key
    PROVE  View(d, i)'.key = NoKey
<1>. USE DEF UowTypeOK, Clients
<1>1. pending'[d] = pending[d]
    BY DEF EndsTransaction
<1>2. View(d, i)' = pending[d][i] /\ View(d, j)' = table'[j] /\ View(d, i) = pending[d][i]
    BY <1>1 DEF View
<1>3. pending[d][i] \in Row /\ table'[j] \in Row
    BY <1>2
<1>4. SUFFICES ASSUME pending[d][i].key # NoKey PROVE FALSE
    BY <1>2
<1>5. pending[d][i].key \in Keys /\ HoldsKey(d, pending[d][i].key)
    BY <1>3, <1>4, SentinelsAssumption DEF Row, HoldsKey
<1>6. CASE table'[j] = table[j]
    <2>1. View(d, j) = table[j]
        BY DEF View
    <2>2. QED
        BY <1>2, <1>4, <1>6, <2>1 DEF KeysInv, EntriesUnique
<1>7. CASE table'[j] # table[j]
    <2>1. table'[j] = pending[c][j] /\ pending[c][j] # Untouched
        BY <1>7 DEF EndsTransaction, Merged, View
    <2>2. HoldsKey(c, pending[d][i].key)
        BY <1>2, <1>3, <2>1, SentinelsAssumption DEF HoldsKey
    <2>3. QED
        BY <1>5, <2>2 DEF KeysInv, EntriesExclusive
<1>8. QED
    BY <1>6, <1>7

\* The end of a transaction passes its view on to the table, or drops it.
LEMMA EndKeepsKeys ==
    ASSUME UowTypeOK, UowTypeOK', RowsExclusive, KeysInv, NEW c \in Clients, EndsTransaction(c)
    PROVE  KeysInv'
<1>. USE DEF UowTypeOK, Clients
<1>1. \A id \in Ids : table'[id] = table[id] \/ table'[id] = View(c, id)
    BY DEF EndsTransaction, Merged
<1>2. table' = table \/ \A id \in Ids : table'[id] = View(c, id)
    BY DEF EndsTransaction, Merged
<1>3. \A id \in Ids : View(c, id)' = table'[id]
    BY DEF EndsTransaction, View, NoWrites
<1>4. \A d \in Clients \ {c}, id \in Ids : pending'[d][id] = pending[d][id]
    BY DEF EndsTransaction
<1>5. KeysUnique'
    BY <1>2 DEF KeysInv, KeysUnique, EntriesUnique
<1>6. ASSUME NEW d \in Clients \ {c}, NEW id \in Ids, pending[d][id] # Untouched
      PROVE  table'[id] = table[id]
    <2>1. pending[c][id] = Untouched
        BY <1>6 DEF RowsExclusive
    <2>2. QED
        BY <1>1, <2>1 DEF View
<1>7. ASSUME NEW d \in Clients, NEW k \in Keys, HoldsKey(d, k)'
      PROVE  d # c /\ HoldsKey(d, k)
    BY <1>4, <1>6, <1>7 DEF HoldsKey, EndsTransaction, NoWrites
<1>8. EntriesExclusive'
    BY <1>7 DEF EntriesExclusive, KeysInv
<1>9. EntriesUnique'
    <2>1. SUFFICES ASSUME NEW d \in Clients, NEW i \in Ids, NEW j \in Ids,
                          View(d, i)' # NoRow, View(d, j)' # NoRow,
                          View(d, i)'.key = View(d, j)'.key, i # j, View(d, i)'.key # NoKey
                   PROVE  FALSE
        BY DEF EntriesUnique
    <2>2. CASE d = c
        BY <1>3, <1>5, <2>1, <2>2 DEF KeysUnique
    <2>3. CASE d # c /\ pending[d][i] = Untouched /\ pending[d][j] = Untouched
        BY <1>4, <1>5, <2>1, <2>3 DEF KeysUnique, View
    <2>4. CASE d # c /\ pending[d][i] # Untouched /\ pending[d][j] # Untouched
        BY <1>4, <2>1, <2>4 DEF KeysInv, EntriesUnique, View
    <2>5. CASE d # c /\ pending[d][i] # Untouched /\ pending[d][j] = Untouched
        BY <1>4, <2>1, <2>5, EndMeetsWrite
    <2>6. CASE d # c /\ pending[d][i] = Untouched /\ pending[d][j] # Untouched
        BY <1>4, <2>1, <2>6, EndMeetsWrite
    <2>7. QED
        BY <2>2, <2>3, <2>4, <2>5, <2>6
<1>10. QED
    BY <1>5, <1>8, <1>9 DEF KeysInv

\* A flush adds an entry that nobody holds and nothing in view has, and takes hold
\* of the old entry of its row, which no other transaction can have.
LEMMA FlushKeepsKeys ==
    ASSUME UowTypeOK, UowTypeOK', RowsExclusive', KeysInv, NEW c \in Clients,
           NEW id \in Ids, NEW row \in Row \cup {NoRow}, FlushesRow(c, id, row)
    PROVE  KeysInv'
<1>. USE DEF UowTypeOK, Clients
<1>1. /\ table' = table
      /\ pending'[c][id] = row
      /\ \A i \in Ids \ {id} : pending'[c][i] = pending[c][i]
      /\ \A d \in Clients \ {c} : pending'[d] = pending[d]
    BY DEF FlushesRow
<1>2. row # Untouched
    BY SentinelsAssumption
<1>3. KeysUnique'
    BY <1>1 DEF KeysInv, KeysUnique
<1>4. /\ View(c, id)' = row
      /\ \A i \in Ids \ {id} : View(c, i)' = View(c, i)
      /\ \A d \in Clients \ {c}, i \in Ids : View(d, i)' = View(d, i)
    BY <1>1, <1>2 DEF View
<1>5. ASSUME NEW i \in Ids \ {id}, View(c, i) # NoRow, row # NoRow, row.key = View(c, i).key
      PROVE  row.key = NoKey
    BY <1>5 DEF FlushesRow, KeyTaken
<1>6. EntriesUnique'
    <2>1. SUFFICES ASSUME NEW d \in Clients, NEW i \in Ids, NEW j \in Ids,
                          View(d, i)' # NoRow, View(d, j)' # NoRow,
                          View(d, i)'.key = View(d, j)'.key, i # j
                   PROVE  View(d, i)'.key = NoKey
        BY DEF EntriesUnique
    <2>2. CASE d # c \/ id \notin {i, j}
        BY <1>4, <2>1, <2>2 DEF KeysInv, EntriesUnique
    <2>3. CASE d = c /\ id \in {i, j}
        BY <1>4, <1>5, <2>1, <2>3
    <2>4. QED
        BY <2>2, <2>3
<1>7. \A d \in Clients \ {c}, k \in Keys : HoldsKey(d, k)' <=> HoldsKey(d, k)
    BY <1>1 DEF HoldsKey
<1>8. ASSUME NEW k \in Keys, HoldsKey(c, k)', NEW d \in Clients \ {c}, HoldsKey(d, k)
      PROVE  FALSE
    <2>1. \/ HoldsKey(c, k)
          \/ row # NoRow /\ row.key = k
          \/ table[id] # NoRow /\ table[id].key = k
        BY <1>1, <1>8 DEF HoldsKey
    <2>2. CASE HoldsKey(c, k)
        BY <1>8, <2>2 DEF KeysInv, EntriesExclusive
    <2>3. CASE row # NoRow /\ row.key = k
        BY <1>8, <2>3, SentinelsAssumption DEF FlushesRow, KeyLocked
    <2>4. CASE table[id] # NoRow /\ table[id].key = k
        <3>1. PICK i \in Ids :
                /\ pending[d][i] # Untouched
                /\ \E held \in {pending[d][i], table[i]} \ {NoRow} : held.key = k
            BY <1>8 DEF HoldsKey
        <3>2. pending[d][id] = Untouched
            BY <1>1, <1>2 DEF RowsExclusive
        <3>3. i # id /\ View(d, id) = table[id] /\ View(d, i) = pending[d][i]
            BY <3>1, <3>2 DEF View
        <3>4. k # NoKey
            BY SentinelsAssumption
        <3>5. CASE pending[d][i] # NoRow /\ pending[d][i].key = k
            BY <2>4, <3>1, <3>3, <3>4, <3>5 DEF KeysInv, EntriesUnique
        <3>6. CASE table[i] # NoRow /\ table[i].key = k
            BY <2>4, <3>1, <3>3, <3>4, <3>6 DEF KeysInv, KeysUnique
        <3>7. QED
            BY <3>1, <3>5, <3>6
    <2>5. QED
        BY <2>1, <2>2, <2>3, <2>4
<1>9. EntriesExclusive'
    BY <1>7, <1>8 DEF KeysInv, EntriesExclusive
<1>10. QED
    BY <1>3, <1>6, <1>9 DEF KeysInv

LEMMA StepKeepsKeys ==
    ASSUME IInv, IInv', KeysInv, NEW c \in Clients, Step(c)
    PROVE  KeysInv'
<1>1. UowTypeOK /\ UowTypeOK' /\ RowsExclusive /\ RowsExclusive'
    BY DEF IInv, TypeOK
<1>2. CASE UNCHANGED <<table, pending>>
    BY <1>2 DEF KeysInv, KeysUnique, EntriesUnique, EntriesExclusive, HoldsKey, View
<1>3. QED
    BY <1>1, <1>2, TransactionSteps, EndKeepsKeys, FlushKeepsKeys

\* Two committed rows never share an index entry, however the transactions that
\* wrote them interleave.
THEOREM IndexesAreUnique == Spec => []KeysUnique
<1>1. Init => KeysInv
    BY DEF Init, UowInit, NoWrites, Clients, KeysInv, KeysUnique, EntriesUnique, EntriesExclusive,
           HoldsKey, View
<1>2. ASSUME KeysInv, UNCHANGED vars PROVE KeysInv'
    BY <1>2 DEF KeysInv, KeysUnique, EntriesUnique, EntriesExclusive, HoldsKey, View, vars, uowVars
<1>3. IInv /\ IInv' /\ KeysInv /\ [Next]_vars => KeysInv'
    BY <1>2, StepKeepsKeys DEF Next
<1>4. KeysInv => KeysUnique
    BY DEF KeysInv
<1>5. QED
    BY <1>1, <1>3, <1>4, Invariant, PTL DEF Spec

-----------------------------------------------------------------------------
(* Discarded changes.  The argument follows a change from the client that   *)
(* makes it: until its commit nobody else knows it, and a client that may   *)
(* still commit has forgotten what it discarded.                            *)

\* The changes of row id that c has in hand or has written.
Knows(c, id) ==
    (IF HandOn(c, id) THEN hand[c].data ELSE {})
        \cup wrote[c][id]
        \cup (IF pending[c][id] \in Row THEN pending[c][id].data ELSE {})

\* Changes are numbered as they are made.
ChangesAreDated ==
    /\ \A c \in Clients, id \in Ids : \A x \in Knows(c, id) : x <= clock
    /\ \A id \in Ids : \A x \in DataIn(id) : x <= clock
    /\ \A p \in lost : p[2] <= clock

\* What two clients know of a row is committed.
SharedIsCommitted ==
    \A c, d \in Clients, id \in Ids :
        c # d /\ table[id] # NoRow => Knows(c, id) \cap Knows(d, id) \subseteq DataIn(id)

\* A discarded change is not in its row, and nobody who may commit knows it.
LostIsForgotten ==
    \A p \in lost :
        /\ p[2] \notin DataIn(p[1])
        /\ \A c \in Clients : ~broken[c] => p[2] \notin Knows(c, p[1])

DiscardInv == ChangesAreDated /\ SharedIsCommitted /\ LostIsForgotten

\* What a statement of c finds in a row is committed or its own.
LEMMA ViewIsKnown ==
    ASSUME IInv, NEW c \in Clients, NEW id \in Ids, View(c, id) # NoRow,
           NEW x \in View(c, id).data
    PROVE  x \in Knows(c, id) \/ x \in DataIn(id)
BY SentinelsAssumption DEF IInv, TypeOK, UowTypeOK, Clients, View, Knows, DataIn

\* A step of c leaves what another client knows as it was.
LEMMA OthersKnowTheSame ==
    ASSUME IInv, NEW c \in Clients, Step(c), NEW d \in Clients, d # c, NEW id \in Ids
    PROVE  Knows(d, id)' = Knows(d, id)
BY OthersUntouched DEF IInv, Knows, HandOn

\* The three writes, as far as the changes go: the row gets those of the aggregate.
WritesHand(c, row) ==
    /\ Holds(c)
    /\ row # NoRow => row.data = hand[c].data
    /\ pending' = [pending EXCEPT ![c][hand[c].id] = row]
    /\ Record(c, hand[c].id, hand[c].data)
    /\ \/ UNCHANGED hand
       \/ Hold(c, NoAggregate)
       \/ row # NoRow /\ Hold(c, FromRow(hand[c].id, row))
    /\ UNCHANGED <<table, clock>>

LEMMA Writes ==
    ASSUME IInv, NEW c \in Clients, AddFlush(c) \/ UpdateFlush(c) \/ DeleteFlush(c)
    PROVE  \E row \in Row \cup {NoRow} : WritesHand(c, row)
<1>1. hand[c] \in Aggregate /\ Holds(c)
    BY HandType DEF IInv, Places_OK, AddFlush, UpdateFlush, DeleteFlush, At, Holds
<1>2. CASE AddFlush(c)
    <2>. DEFINE row == [key |-> hand[c].key, data |-> hand[c].data, version |-> hand[c].version]
    <2>1. row \in Row /\ row.data = hand[c].data
        BY <1>1 DEF Aggregate, Row
    <2>2. WritesHand(c, row)
        BY <1>1, <1>2, <2>1 DEF AddFlush, Flush, WritesHand
    <2>3. QED
        BY <2>1, <2>2
<1>3. CASE UpdateFlush(c)
    <2>. DEFINE row == Updated(hand[c].key, hand[c].data, hand[c].version)
    <2>1. row \in Row /\ row.data = hand[c].data
        BY <1>1 DEF Aggregate, Row, Updated
    <2>2. row # NoRow
        BY <2>1, SentinelsAssumption
    <2>3. WritesHand(c, row)
        BY <1>1, <1>3, <2>1, <2>2 DEF UpdateFlush, Flush, WritesHand
    <2>4. QED
        BY <2>1, <2>3
<1>4. CASE DeleteFlush(c)
    BY <1>1, <1>4 DEF DeleteFlush, Flush, WritesHand
<1>5. QED
    BY <1>2, <1>3, <1>4

\* Writing an aggregate teaches its client nothing.
LEMMA WritingKnows ==
    ASSUME IInv, NEW c \in Clients, NEW row \in Row \cup {NoRow}, WritesHand(c, row),
           NEW id \in Ids, NEW x \in Knows(c, id)'
    PROVE  x \in Knows(c, id)
<1>. USE DEF IInv, TypeOK, UowTypeOK, Clients
<1>1. hand[c] \in Aggregate /\ hand[c].id \in Ids
    BY HandType DEF WritesHand
<1>2. wrote'[c][id] \subseteq wrote[c][id] \cup (IF HandOn(c, id) THEN hand[c].data ELSE {})
    BY <1>1 DEF WritesHand, Record, HandOn, Holds
<1>3. pending'[c][id] = IF id = hand[c].id THEN row ELSE pending[c][id]
    BY <1>1 DEF WritesHand
<1>4. HandOn(c, id)' => HandOn(c, id) /\ hand'[c].data = hand[c].data
    BY <1>1 DEF WritesHand, HandOn, FromRow, Hold, Holds
<1>5. HandOn(c, id) <=> id = hand[c].id
    BY <1>1 DEF WritesHand, HandOn, Holds
<1>6. row \in Row => row.data = hand[c].data
    BY SentinelsAssumption DEF WritesHand
<1>7. QED
    BY <1>2, <1>3, <1>4, <1>5, <1>6 DEF Knows

\* A client learns a change by making it or by reading a row.
LEMMA KnowledgeSources ==
    ASSUME IInv, NEW c \in Clients, Step(c), NEW id \in Ids, NEW x \in Knows(c, id)'
    PROVE  x \in Knows(c, id) \/ x \in DataIn(id) \/ (MakeChange /\ x = NewChange)
<1>. USE DEF TypeOK, UowTypeOK, Clients
<1>1. CASE Quiet(c)
    BY <1>1 DEF Quiet, Enter, Open, AddCheck, DeleteCheck, Submit, CommitAnswersRefused,
                CommitRefused, uowVars, history, Knows, HandOn
<1>2. CASE Failing(c)
    BY <1>2, SentinelsAssumption DEF IInv, Failing, Breaks, Fail, Discard, Knows, HandOn,
        NoWrites, NothingWritten
<1>3. CASE \E i \in Ids, key \in Keys \cup {NoKey} : Create(c, i, key)
    BY <1>3 DEF IInv, Create, Hold, uowVars, history, Knows, HandOn
<1>4. CASE \E i \in Ids : GetById(c, i)
    <2>1. PICK i \in Ids : GetById(c, i)
        BY <1>4
    <2>2. hand' = [hand EXCEPT ![c] = FromRow(i, View(c, i))] /\ View(c, i) # NoRow
        BY <2>1 DEF GetById, Hold
    <2>3. UNCHANGED <<pending, wrote>>
        BY <2>1 DEF GetById, uowVars, history
    <2>4. \/ x \in Knows(c, id)
          \/ id = i /\ x \in View(c, i).data
        BY <2>2, <2>3 DEF IInv, Knows, HandOn, FromRow
    <2>5. QED
        BY <2>2, <2>4, ViewIsKnown
<1>5. CASE AddFlush(c) \/ UpdateFlush(c) \/ DeleteFlush(c)
    BY <1>5, Writes, WritingKnows
<1>6. CASE \E key \in Keys \cup {NoKey} : UpdateCheck(c, key)
    <2>1. PICK key \in Keys \cup {NoKey} : UpdateCheck(c, key)
        BY <1>6
    <2>2. hand' = [hand EXCEPT ![c] = Changed(c, key)] /\ MakeChange /\ Holds(c)
        BY <2>1 DEF UpdateCheck, Hold, Changed
    <2>3. UNCHANGED <<pending, wrote>>
        BY <2>1 DEF UpdateCheck, uowVars, history
    <2>4. hand[c] \in Aggregate
        BY <2>2, HandType DEF IInv
    <2>5. Changed(c, key).id = hand[c].id /\ Changed(c, key).data = hand[c].data \cup {NewChange}
        BY <2>4 DEF Changed, Aggregate
    <2>6. QED
        BY <2>2, <2>3, <2>5 DEF IInv, Knows, HandOn, Holds
<1>7. CASE CommitAnswersOk(c) \/ CommitEndsInError(c) \/ CommitIsCancelled(c)
    <2>1. pending'[c] = NoWrites /\ wrote'[c] = NothingWritten
        BY <1>7 DEF IInv, CommitAnswersOk, CommitOk, CommitEndsInError, CommitError,
                    CommitIsCancelled, CommitCancelled
    <2>2. hand' = [hand EXCEPT ![c] = Settled(c)] \/ hand' = [hand EXCEPT ![c] = NoAggregate]
        BY <1>7 DEF CommitAnswersOk, CommitEndsInError, CommitIsCancelled, Hold
    <2>3. x \in (IF HandOn(c, id)' THEN hand'[c].data ELSE {})
        BY <2>1, SentinelsAssumption DEF Knows, NoWrites, NothingWritten
    <2>4. hand'[c] = Settled(c) /\ Holds(c)
        BY <2>2, <2>3 DEF IInv, HandOn, Settled
    <2>5. hand[c] \in Aggregate
        BY <2>4, HandType DEF IInv
    <2>6. hand'[c].id = hand[c].id /\ hand'[c].data = hand[c].data
        BY <2>4, <2>5 DEF Settled, Aggregate
    <2>7. QED
        BY <2>3, <2>4, <2>6 DEF HandOn, Knows, Holds
<1>8. CASE CallRollback(c) \/ Leave(c)
    BY <1>8, SentinelsAssumption DEF IInv, CallRollback, Rollback, Leave, Close, Discard, Hold,
        Knows, HandOn, NoWrites, NothingWritten
<1>9. QED
    BY <1>1, <1>2, <1>3, <1>4, <1>5, <1>6, <1>7, <1>8, StepCases DEF IInv

\* A commit brings into a row what its client knows.
LEMMA RowSources ==
    ASSUME IInv, NEW c \in Clients, Step(c), NEW id \in Ids, NEW x \in DataIn(id)'
    PROVE  x \in DataIn(id) \/ (~broken[c] /\ x \in Knows(c, id))
<1>1. CASE table' = table
    BY <1>1 DEF DataIn
<1>2. CASE table' # table
    <2>1. table' = Merged(c) /\ ~broken[c]
        BY <1>2, OnlyCommitsChangeTheTable
    <2>2. table'[id] = View(c, id) /\ View(c, id) # NoRow /\ x \in View(c, id).data
        BY <2>1 DEF Merged, DataIn
    <2>3. QED
        BY <2>1, <2>2, ViewIsKnown
<1>3. QED
    BY <1>1, <1>2

\* Before the first commit of a row its writer is alone with it.
LEMMA UncommittedIsPrivate ==
    ASSUME IInv, NEW c \in Clients, NEW id \in Ids, table[id] = NoRow,
           pending[c][id] # Untouched \/ (HandOn(c, id) /\ hand[c].new),
           NEW d \in Clients \ {c}
    PROVE  Knows(d, id) = {}
<1>1. pending[d][id] = Untouched /\ ~HandOn(d, id)
    BY DEF IInv, RowsExclusive, InsertIsPrivate, NewIsPrivate, HandOn
<1>2. wrote[d][id] = {}
    BY <1>1 DEF IInv, Places_OK, NothingWritten, WritesKnow, KnowsItsWrites
<1>3. QED
    BY <1>1, <1>2, SentinelsAssumption DEF Knows

\* What a step discards was its client's alone, and the client drops it with the
\* aggregate or is refused from now on.
LEMMA DiscardSources ==
    ASSUME IInv, SharedIsCommitted, NEW c \in Clients, Step(c), NEW p \in lost' \ lost
    PROVE  /\ p[1] \in Ids
           /\ p[2] \in Knows(c, p[1])
           /\ p[2] \notin DataIn(p[1])'
           /\ \A d \in Clients \ {c} : p[2] \notin Knows(d, p[1])
           /\ broken'[c] \/ p[2] \notin Knows(c, p[1])'
<1>. USE DEF TypeOK, UowTypeOK, Clients
<1>1. CASE Failing(c) \/ CallRollback(c) \/ Leave(c)
    <2>1. /\ p[1] \in Ids
          /\ p[2] \in wrote[c][p[1]]
          /\ p[2] \notin DataIn(p[1])
          /\ table' = table
        BY <1>1 DEF Failing, Breaks, Fail, CallRollback, Rollback, Leave, Close, Discard,
                    Unfinished, Pairs
    <2>2. p[2] \in Knows(c, p[1])
        BY <2>1 DEF Knows
    <2>3. ~broken[c]
        BY <2>1 DEF IInv, Places_OK, NothingWritten
    <2>4. pending[c][p[1]] # Untouched
        BY <2>1, <2>3 DEF IInv, WritesKnow, KnowsItsWrites
    <2>5. \A d \in Clients \ {c} : p[2] \notin Knows(d, p[1])
        BY <2>1, <2>2, <2>4, UncommittedIsPrivate DEF SharedIsCommitted
    <2>6. broken'[c] \/ Knows(c, p[1])' = {}
        BY <1>1, <2>1, SentinelsAssumption
        DEF IInv, Failing, Breaks, CallRollback, Rollback, Leave, Close, Discard, Hold,
            Knows, HandOn, NoWrites, NothingWritten
    <2>7. QED
        BY <2>1, <2>2, <2>5, <2>6 DEF DataIn
<1>2. CASE AddFlush(c) \/ UpdateFlush(c) \/ DeleteFlush(c)
    <2>1. PICK row \in Row \cup {NoRow} : WritesHand(c, row)
        BY <1>2, Writes
    <2>2. /\ hand[c].id \in Ids
          /\ HandOn(c, hand[c].id)
        BY <2>1, HandType DEF IInv, WritesHand, HandOn, Holds
    <2>3. /\ p[1] = hand[c].id
          /\ p[2] \in hand[c].data
          /\ p[2] \notin DataIn(p[1])
          /\ broken[c] /\ broken' = broken /\ table' = table
        BY <2>1 DEF WritesHand, Record, Pairs
    <2>4. p[2] \in Knows(c, p[1])
        BY <2>2, <2>3 DEF Knows
    <2>5. table[p[1]] = NoRow => pending[c][p[1]] # Untouched \/ hand[c].new
        BY <1>2, <2>3
        DEF IInv, Places_OK, At, AddFlush, UpdateFlush, DeleteFlush, MatchesWhere, View
    <2>6. \A d \in Clients \ {c} : p[2] \notin Knows(d, p[1])
        BY <2>2, <2>3, <2>4, <2>5, UncommittedIsPrivate DEF SharedIsCommitted
    <2>7. QED
        BY <2>2, <2>3, <2>4, <2>6 DEF DataIn
<1>3. CASE lost' = lost
    BY <1>3
<1>4. Quiet(c) => lost' = lost
    BY DEF Quiet, Enter, AddCheck, DeleteCheck, Submit, CommitAnswersRefused, history
<1>5. CommitAnswersOk(c) => lost' = lost
    BY DEF CommitAnswersOk
<1>6. (\E id \in Ids, key \in Keys \cup {NoKey} : Create(c, id, key)) => lost' = lost
    BY DEF Create, history
<1>7. (\E id \in Ids : GetById(c, id)) => lost' = lost
    BY DEF GetById, history
<1>8. (\E key \in Keys \cup {NoKey} : UpdateCheck(c, key)) => lost' = lost
    BY DEF UpdateCheck, history
<1>9. CommitEndsInError(c) \/ CommitIsCancelled(c) => lost' = lost
    BY DEF CommitEndsInError, CommitIsCancelled
<1>10. QED
    BY <1>1, <1>2, <1>3, <1>4, <1>5, <1>6, <1>7, <1>8, <1>9, StepCases DEF IInv

\* A change is made with the next number, which is the only way the clock moves.
LEMMA ClockSteps ==
    ASSUME IInv, NEW c \in Clients, Step(c)
    PROVE  clock' = clock \/ clock' = clock + 1
BY DEF Step, Enter, Create, GetById, SelectError, AddCheck, AddFlush, UpdateCheck,
       UpdateFlush, DeleteCheck, DeleteFlush, StaleFlush, KeyConflict, FlushError, Submit,
       CommitAnswersOk, CommitAnswersRefused, CommitOutcomeUnknown, CallRollback, Leave,
       Breaks, MakeChange, NewChange

LEMMA StepKeepsDates ==
    ASSUME IInv, IInv', SharedIsCommitted, ChangesAreDated, NEW c \in Clients, Step(c)
    PROVE  ChangesAreDated'
<1>1. clock \in Nat /\ clock' \in Nat /\ clock <= clock'
    BY ClockSteps, ChangesAssumption DEF IInv, TypeOK
<1>2. ASSUME NEW d \in Clients, NEW id \in Ids, NEW x \in Knows(d, id)' PROVE x <= clock'
    <2>1. x \in Changes
        BY <1>2, ChangesAssumption
        DEF IInv, TypeOK, UowTypeOK, Clients, Knows, HandOn, Row, Aggregate
    <2>2. x \in Knows(d, id) \/ x \in DataIn(id) \/ (MakeChange /\ x = NewChange)
        BY <1>2, OthersKnowTheSame, KnowledgeSources
    <2>3. QED
        BY <1>1, <2>1, <2>2 DEF ChangesAreDated, MakeChange, Changes
<1>3. ASSUME NEW id \in Ids, NEW x \in DataIn(id)' PROVE x <= clock'
    <2>1. x \in Changes
        BY <1>3, ChangesAssumption DEF IInv, TypeOK, UowTypeOK, DataIn, Row
    <2>2. x \in DataIn(id) \/ x \in Knows(c, id)
        BY <1>3, RowSources
    <2>3. QED
        BY <1>1, <2>1, <2>2 DEF ChangesAreDated, Changes
<1>4. ASSUME NEW p \in lost' PROVE p[2] <= clock'
    <2>1. p[2] \in Changes
        BY <1>4 DEF IInv, TypeOK, Pairs
    <2>2. p \in lost \/ (p[1] \in Ids /\ p[2] \in Knows(c, p[1]))
        BY <1>4, DiscardSources
    <2>3. QED
        BY <1>1, <2>1, <2>2 DEF ChangesAreDated, Changes
<1>5. QED
    BY <1>2, <1>3, <1>4 DEF ChangesAreDated

LEMMA StepKeepsShared ==
    ASSUME IInv, IInv', SharedIsCommitted, ChangesAreDated, NEW c \in Clients, Step(c)
    PROVE  SharedIsCommitted'
<1>1. SUFFICES ASSUME NEW d \in Clients, NEW e \in Clients, d # e, e # c, NEW id \in Ids,
                      table'[id] # NoRow, NEW x \in Knows(d, id)' \cap Knows(e, id)'
               PROVE  x \in DataIn(id)'
    BY DEF SharedIsCommitted
<1>2. x \in Knows(e, id)
    BY <1>1, OthersKnowTheSame
<1>3. x \in Knows(d, id) \/ x \in DataIn(id)
    <2>1. \/ x \in Knows(d, id) \/ x \in DataIn(id)
          \/ MakeChange /\ x = NewChange
        BY <1>1, OthersKnowTheSame, KnowledgeSources
    <2>2. clock \in Nat /\ x <= clock
        BY <1>2, ChangesAssumption DEF ChangesAreDated, IInv, TypeOK
    <2>3. QED
        BY <2>1, <2>2 DEF NewChange
<1>4. CASE table'[id] = table[id]
    BY <1>1, <1>2, <1>3, <1>4 DEF SharedIsCommitted, DataIn
<1>5. CASE table'[id] # table[id]
    <2>1. table' = Merged(c) /\ ~broken[c]
        BY <1>5, OnlyCommitsChangeTheTable
    <2>2. table'[id] = pending[c][id] /\ pending[c][id] # Untouched
        BY <1>5, <2>1 DEF Merged, View
    <2>3. pending[c][id] \in Row
        BY <1>1, <2>2 DEF IInv, TypeOK, UowTypeOK, Clients
    <2>4. table[id] # NoRow
        BY <1>1, <1>2, <2>2, UncommittedIsPrivate
    <2>5. x \in DataIn(id)
        BY <1>1, <1>2, <1>3, <2>4 DEF SharedIsCommitted
    <2>6. DataIn(id) \subseteq pending[c][id].data
        BY <2>1, <2>2, <2>3 DEF IInv, WritesKnow, KnowsItsWrites
    <2>7. QED
        BY <1>1, <2>2, <2>5, <2>6 DEF DataIn
<1>6. QED
    BY <1>4, <1>5

LEMMA StepKeepsForgotten ==
    ASSUME IInv, IInv', EmptyHanded, SharedIsCommitted, ChangesAreDated, LostIsForgotten,
           NEW c \in Clients, Step(c)
    PROVE  LostIsForgotten'
<1>1. ASSUME NEW p \in lost PROVE p[2] \notin DataIn(p[1])'
    <2>1. p[1] \in Ids
        BY DEF IInv, TypeOK, Pairs
    <2>2. QED
        BY <2>1, RowSources DEF LostIsForgotten
<1>2. ASSUME NEW p \in lost, NEW d \in Clients, ~broken'[d] PROVE p[2] \notin Knows(d, p[1])'
    <2>1. p[1] \in Ids /\ p[2] \in Changes /\ p[2] <= clock /\ clock \in Nat
        BY ChangesAssumption DEF IInv, TypeOK, Pairs, ChangesAreDated
    <2>2. CASE broken[d]
        <3>1. d = c
            BY <1>2, <2>2, OthersUntouched DEF IInv
        <3>2. Enter(c)
            BY <1>2, <2>2, <3>1
            DEF IInv, TypeOK, Step, Create, GetById, SelectError, AddCheck, AddFlush, UpdateCheck,
                UpdateFlush, DeleteCheck, DeleteFlush, StaleFlush, KeyConflict, FlushError,
                Submit, CommitAnswersOk, CommitAnswersRefused, CommitOutcomeUnknown,
                CallRollback, Leave, Breaks, Record, history
        <3>3. UNCHANGED <<hand, pending, wrote>> /\ pc[c] = "closed"
            BY <3>2 DEF Enter, Open, At
        <3>4. Knows(c, p[1])' = {}
            BY <2>1, <3>3, SentinelsAssumption
            DEF IInv, Places_OK, EmptyHanded, Knows, HandOn, NoWrites, NothingWritten
        <3>5. QED
            BY <3>1, <3>4
    <2>3. CASE ~broken[d]
        <3>1. p[2] \notin Knows(d, p[1]) /\ p[2] \notin DataIn(p[1])
            BY <2>3 DEF LostIsForgotten
        <3>2. ASSUME MakeChange, p[2] = NewChange PROVE FALSE
            BY <2>1, <3>2 DEF NewChange, Changes
        <3>3. QED
            BY <2>1, <3>1, <3>2, OthersKnowTheSame, KnowledgeSources
    <2>4. QED
        BY <2>2, <2>3
<1>3. ASSUME NEW p \in lost' \ lost
      PROVE  /\ p[2] \notin DataIn(p[1])'
             /\ \A d \in Clients : ~broken'[d] => p[2] \notin Knows(d, p[1])'
    <2>1. /\ p[1] \in Ids
          /\ p[2] \notin DataIn(p[1])'
          /\ \A d \in Clients \ {c} : p[2] \notin Knows(d, p[1])
          /\ broken'[c] \/ p[2] \notin Knows(c, p[1])'
        BY <1>3, DiscardSources
    <2>2. QED
        BY <2>1, OthersKnowTheSame
<1>4. QED
    BY <1>1, <1>2, <1>3 DEF LostIsForgotten

\* What a failed statement, rollback() or the end of a scope discards, and what is
\* written after the failure, never gets into the table.
THEOREM DiscardsAreFinal == Spec => []DiscardedChangesStayOut
<1>1. Init => DiscardInv
    BY SentinelsAssumption
    DEF Init, UowInit, NoWrites, NothingWritten, Clients, DiscardInv, ChangesAreDated,
        SharedIsCommitted, LostIsForgotten, Knows, HandOn, DataIn
<1>2. ASSUME IInv, IInv', EmptyHanded, DiscardInv, NEW c \in Clients, Step(c)
      PROVE  DiscardInv'
    BY <1>2, StepKeepsDates, StepKeepsShared, StepKeepsForgotten DEF DiscardInv
<1>3. ASSUME DiscardInv, UNCHANGED vars PROVE DiscardInv'
    BY <1>3 DEF DiscardInv, ChangesAreDated, SharedIsCommitted, LostIsForgotten, Knows, HandOn,
        DataIn, vars, uowVars, clientVars, history
<1>4. IInv /\ IInv' /\ EmptyHanded /\ DiscardInv /\ [Next]_vars => DiscardInv'
    BY <1>2, <1>3 DEF Next
<1>5. DiscardInv => DiscardedChangesStayOut
    BY DEF DiscardInv, LostIsForgotten, DiscardedChangesStayOut
<1>6. QED
    BY <1>1, <1>4, <1>5, Invariant, PTL DEF Spec

-----------------------------------------------------------------------------
(* Callers that keep aggregates *)

\* An aggregate that does not come from an uncommitted write knows the committed
\* row, whatever becomes of the scope.
KeptKnows == \A c \in Clients : ~provisional[c] => KnowsCommitted(c)

\* Only such aggregates get out of a scope.
SettledOutside == \A c \in Clients : pc[c] = "closed" /\ Holds(c) => ~provisional[c]

KeptInv ==
    /\ IInv
    /\ provisional \in [Clients -> BOOLEAN]
    /\ KeptKnows
    /\ SettledOutside

Keep(c) == KeepThroughRollback(c) \/ KeepThroughLeave(c)

\* What rollback() and __aexit__ do when the caller goes on with its aggregate.
LEMMA KeepSteps ==
    ASSUME IInv, NEW c \in Clients, Keep(c)
    PROVE  /\ UNCHANGED <<table, hand, issued, clock, broken, acked, erased, provisional>>
           /\ pending' = [pending EXCEPT ![c] = NoWrites]
           /\ wrote' = [wrote EXCEPT ![c] = NothingWritten]
           /\ hand[c] # NoAggregate /\ ~provisional[c]
           /\ lost' \in SUBSET Pairs
           /\ \/ UNCHANGED <<pc, active, isFailed>> /\ pc[c] = "open"
              \/ /\ pc' = [pc EXCEPT ![c] = "closed"]
                 /\ active' = [active EXCEPT ![c] = FALSE]
                 /\ isFailed' = [isFailed EXCEPT ![c] = TRUE]
<1>1. lost' \in SUBSET Pairs
    BY HistoryKeepsType DEF IInv, Keep, KeepThroughRollback, KeepThroughLeave
<1>2. QED
    BY <1>1 DEF Keep, KeepThroughRollback, KeepThroughLeave, MayKeep, Holds, Rollback, Close,
                Discard, GoTo, At

LEMMA KeepKeepsIInv ==
    ASSUME IInv, NEW c \in Clients, Keep(c), KnowsCommitted(c)
    PROVE  IInv'
<1>1. TypeOK'
    <2>1. UowTypeOK
        BY DEF IInv, TypeOK
    <2>2. UowTypeOK'
        BY <2>1, UowStepsKeepType DEF Keep, KeepThroughRollback, KeepThroughLeave, Clients
    <2>3. pc' \in [Clients -> Places]
        BY KeepSteps DEF IInv, TypeOK, Places
    <2>4. wrote' \in [Clients -> [Ids -> SUBSET Changes]]
        <3>1. NothingWritten \in [Ids -> SUBSET Changes]
            BY DEF NothingWritten
        <3>2. QED
            BY <3>1, KeepSteps DEF IInv, TypeOK
    <2>5. QED
        BY <2>2, <2>3, <2>4, KeepSteps DEF IInv, TypeOK
<1>2. /\ UNCHANGED <<table, hand, issued>>
      /\ \A d \in Clients, id \in Ids :
            pending'[d][id] # Untouched => pending[d][id] # Untouched
    <2>1. pending' = [pending EXCEPT ![c] = NoWrites] /\ UNCHANGED <<table, hand, issued>>
        BY KeepSteps
    <2>2. QED
        BY <2>1 DEF IInv, TypeOK, UowTypeOK, Clients, NoWrites
<1>3. Places_OK'
    <2>1. /\ pending'[c] = NoWrites /\ wrote'[c] = NothingWritten
          /\ UNCHANGED <<hand, broken>> /\ hand[c] # NoAggregate
          /\ \/ UNCHANGED <<pc, active, isFailed>> /\ pc[c] = "open"
             \/ pc'[c] = "closed" /\ active'[c] = FALSE
        BY KeepSteps DEF IInv, TypeOK, UowTypeOK, Clients
    <2>2. ASSUME NEW d \in Clients \ {c}
          PROVE  UNCHANGED <<pc[d], active[d], isFailed[d], pending[d], wrote[d]>>
        <3>1. CASE UNCHANGED <<pc, active, isFailed>>
            BY <3>1, KeepSteps DEF IInv, TypeOK, UowTypeOK, Clients
        <3>2. CASE KeepThroughLeave(c)
            BY <3>2 DEF KeepThroughLeave, Close, Discard, GoTo, IInv, TypeOK, UowTypeOK, Clients
        <3>3. QED
            BY <3>1, <3>2 DEF Keep, KeepThroughRollback, Rollback
    <2>3. QED
        BY <2>1, <2>2 DEF IInv, Places_OK
<1>4. RowsExclusive' /\ OnlyIssued' /\ InsertIsPrivate'
    <2>1. RowsExclusive'
        BY <1>2 DEF IInv, RowsExclusive
    <2>2. OnlyIssued'
        BY <1>2 DEF IInv, OnlyIssued, HandOn
    <2>3. InsertIsPrivate'
        BY <1>2 DEF IInv, InsertIsPrivate, HandOn
    <2>4. QED
        BY <2>1, <2>2, <2>3
<1>5. NewIsPrivate'
    <2>1. SUFFICES ASSUME NEW d \in Clients, hand[d] # NoAggregate, hand[d].new
                   PROVE  /\ table[hand[d].id] = NoRow
                          /\ \A e \in Clients \ {d} :
                                pending'[e][hand[d].id] = Untouched /\ ~HandOn(e, hand[d].id)
        BY <1>2 DEF NewIsPrivate, HandOn
    <2>2. hand[d].id \in Ids
        BY <2>1, HandType DEF IInv, Holds
    <2>3. QED
        BY <1>2, <2>1, <2>2 DEF IInv, NewIsPrivate
<1>6. WritesKnow'
    <2>1. SUFFICES ASSUME NEW d \in Clients PROVE KnowsItsWrites(d)'
        BY DEF WritesKnow
    <2>2. CASE d = c
        BY <2>2, KeepSteps, SentinelsAssumption
        DEF IInv, TypeOK, UowTypeOK, Clients, KnowsItsWrites, NoWrites, NothingWritten
    <2>3. CASE d # c
        <3>1. UNCHANGED <<pending[d], wrote[d], broken[d], table>>
            BY <2>3, KeepSteps DEF IInv, TypeOK, UowTypeOK, Clients
        <3>2. QED
            BY <3>1 DEF IInv, WritesKnow, KnowsItsWrites, DataIn
    <2>4. QED
        BY <2>2, <2>3
<1>7. HandKnows'
    <2>1. SUFFICES ASSUME NEW d \in Clients PROVE KnowsItsRow(d)'
        BY DEF HandKnows
    <2>2. CASE d = c
        <3>1. hand[c].id \in Ids /\ pending'[c] = NoWrites
            BY KeepSteps, HandType DEF IInv, TypeOK, UowTypeOK, Clients, Holds
        <3>2. View(c, hand[c].id)' = table[hand[c].id] /\ hand'[c] = hand[c]
            BY <3>1, KeepSteps DEF View, NoWrites
        <3>3. QED
            BY <2>2, <3>2 DEF KnowsItsRow, KnowsCommitted
    <2>3. CASE d # c
        <3>1. UNCHANGED <<pending[d], hand[d], broken[d], table>>
            BY <2>3, KeepSteps DEF IInv, TypeOK, UowTypeOK, Clients
        <3>2. QED
            BY <3>1 DEF IInv, HandKnows, KnowsItsRow, View
    <2>4. QED
        BY <2>2, <2>3
<1>8. QED
    BY <1>1, <1>3, <1>4, <1>5, <1>6, <1>7 DEF IInv

\* A commit puts the version of its rows above that of every aggregate that
\* somebody else has kept.
LEMMA OthersStayBehind ==
    ASSUME IInv, IInv', NEW c \in Clients, Step(c), NEW d \in Clients, d # c, KnowsCommitted(d)
    PROVE  KnowsCommitted(d)'
<1>1. hand'[d] = hand[d]
    BY OthersUntouched DEF IInv
<1>2. SUFFICES ASSUME hand[d] # NoAggregate, table'[hand[d].id] # NoRow,
                      table'[hand[d].id] # table[hand[d].id]
               PROVE  hand[d].version < table'[hand[d].id].version
    <2>1. CASE hand[d] = NoAggregate \/ table'[hand[d].id] = NoRow
                \/ table'[hand[d].id] = table[hand[d].id]
        BY <1>1, <2>1 DEF KnowsCommitted
    <2>2. CASE hand[d] # NoAggregate /\ table'[hand[d].id] # NoRow
                /\ table'[hand[d].id] # table[hand[d].id]
        <3>1. hand[d].version \in Nat /\ table'[hand[d].id].version \in Nat
            BY <2>2, HandType DEF IInv, TypeOK, UowTypeOK, Row, Holds
        <3>2. QED
            BY <1>1, <1>2, <2>2, <3>1 DEF KnowsCommitted
    <2>3. QED
        BY <2>1, <2>2
<1>. DEFINE id == hand[d].id
<1>3. id \in Ids /\ hand[d].version \in Nat
    BY <1>2, HandType DEF IInv, Holds
<1>4. table' = Merged(c) /\ ~broken[c]
    BY <1>2, OnlyCommitsChangeTheTable
<1>5. table'[id] = pending[c][id] /\ pending[c][id] # Untouched /\ pending[c][id] \in Row
    BY <1>2, <1>3, <1>4 DEF Merged, View, IInv, TypeOK, UowTypeOK, Clients
<1>6. table[id] # NoRow
    BY <1>2, <1>3, <1>5 DEF IInv, InsertIsPrivate, HandOn
<1>7. table[id].version < pending[c][id].version
    BY <1>3, <1>4, <1>5, <1>6 DEF IInv, WritesKnow, KnowsItsWrites
<1>8. hand[d].version <= table[id].version
    BY <1>2, <1>6 DEF KnowsCommitted
<1>9. table[id].version \in Nat /\ pending[c][id].version \in Nat
    BY <1>3, <1>5, <1>6 DEF IInv, TypeOK, UowTypeOK, Row
<1>10. QED
    BY <1>3, <1>5, <1>7, <1>8, <1>9

\* Whether a commit answers or not, what it leaves in the table the client's
\* aggregate knows.
LEMMA OwnCommitIsKnown ==
    ASSUME IInv, NEW c \in Clients, ~broken[c], Holds(c), hand'[c] = Settled(c),
           table' = Merged(c)
    PROVE  KnowsCommitted(c)'
<1>1. /\ hand'[c].id = hand[c].id /\ hand'[c].version = hand[c].version
      /\ hand'[c].data = hand[c].data /\ hand[c].id \in Ids
    BY HandType DEF IInv, Settled, Aggregate
<1>2. table'[hand[c].id] = View(c, hand[c].id)
    BY <1>1 DEF Merged
<1>3. QED
    BY <1>1, <1>2 DEF IInv, HandKnows, KnowsItsRow, KnowsCommitted, Holds

\* While the table stays, an aggregate may be dropped, settled or changed at the
\* same version.
LEMMA SameVersionIsKnown ==
    ASSUME IInv, NEW c \in Clients, KnowsCommitted(c), table' = table,
           \/ hand'[c] = hand[c]
           \/ hand'[c] = NoAggregate
           \/ hand'[c] = Settled(c)
           \/ \E key \in Keys \cup {NoKey} : UpdateCheck(c, key)
    PROVE  KnowsCommitted(c)'
<1>1. CASE \E key \in Keys \cup {NoKey} : UpdateCheck(c, key)
    <2>1. PICK key \in Keys \cup {NoKey} : UpdateCheck(c, key)
        BY <1>1
    <2>2. Holds(c) /\ hand'[c] = Changed(c, key)
        BY <2>1 DEF UpdateCheck, Changed, Hold, IInv, TypeOK
    <2>3. hand[c] \in Aggregate
        BY <2>2, HandType DEF IInv
    <2>4. /\ hand'[c].id = hand[c].id /\ hand'[c].version = hand[c].version
          /\ hand[c].data \subseteq hand'[c].data
        BY <2>2, <2>3 DEF Changed, Aggregate
    <2>5. QED
        BY <2>2, <2>4 DEF KnowsCommitted, Holds
<1>2. CASE hand'[c] = Settled(c) /\ Holds(c)
    <2>1. /\ hand'[c].id = hand[c].id /\ hand'[c].version = hand[c].version
          /\ hand'[c].data = hand[c].data /\ hand[c] # NoAggregate
        BY <1>2, HandType DEF IInv, Settled, Aggregate, Holds
    <2>2. QED
        BY <2>1 DEF KnowsCommitted
<1>3. QED
    BY <1>1, <1>2 DEF KnowsCommitted, Settled

\* The steps of one client.
KeptStep(c) ==
    \/ \E id \in Ids, key \in Keys \cup {NoKey} : CreateAnother(c, id, key)
    \/ \E id \in Ids : ReadById(c, id)
    \/ UpdateAndGoOn(c) \/ CommitSettles(c) \/ DropAggregate(c) \/ Proceed(c)
    \/ Keep(c)

LEMMA KeptStepIsStep ==
    ASSUME NEW c \in Clients, KeptStep(c)
    PROVE  Keep(c) \/ Step(c)
BY DEF KeptStep, CreateAnother, ReadById, UpdateAndGoOn, CommitSettles, DropAggregate, Proceed,
       Step

\* A client marks its own aggregate only.
LEMMA MarksAreOwn ==
    ASSUME KeptInv, NEW c \in Clients, KeptStep(c)
    PROVE  /\ provisional' \in [Clients -> BOOLEAN]
           /\ \A d \in Clients \ {c} : provisional'[d] = provisional[d]
<1>1. CASE Keep(c)
    BY <1>1, KeepSteps DEF KeptInv
<1>2. CASE Proceed(c)
    BY <1>2 DEF KeptInv, Proceed
<1>3. CASE \E id \in Ids : ReadById(c, id)
    BY <1>3 DEF KeptInv, ReadById, Becomes
<1>4. CASE UpdateAndGoOn(c)
    BY <1>4 DEF KeptInv, UpdateAndGoOn, Becomes
<1>5. CASE \/ \E id \in Ids, key \in Keys \cup {NoKey} : CreateAnother(c, id, key)
           \/ CommitSettles(c) \/ DropAggregate(c)
    BY <1>5 DEF KeptInv, CreateAnother, CommitSettles, DropAggregate, Becomes
<1>6. QED
    BY <1>1, <1>2, <1>3, <1>4, <1>5 DEF KeptStep

\* Every step of c leaves it an aggregate that knows the committed row, or one
\* that is marked.
LEMMA KeptStepKnows ==
    ASSUME KeptInv, NEW c \in Clients, KeptStep(c), ~provisional'[c]
    PROVE  KnowsCommitted(c)'
<1>1. IInv /\ (provisional[c] \/ KnowsCommitted(c)) /\ provisional \in [Clients -> BOOLEAN]
    BY DEF KeptInv, KeptKnows
<1>. USE DEF IInv, TypeOK, UowTypeOK, Clients
<1>2. CASE Keep(c)
    BY <1>1, <1>2, KeepSteps, SameVersionIsKnown
<1>3. CASE \E id \in Ids, key \in Keys \cup {NoKey} : CreateAnother(c, id, key)
    <2>1. PICK id \in Ids, key \in Keys \cup {NoKey} : Create(c, id, key)
        BY <1>3 DEF CreateAnother
    <2>2. table'[id] = NoRow /\ hand'[c].id = id
        BY <1>1, <2>1 DEF Create, Hold, uowVars, OnlyIssued
    <2>3. QED
        BY <2>2 DEF KnowsCommitted
<1>4. CASE \E id \in Ids : ReadById(c, id)
    <2>1. PICK id \in Ids : GetById(c, id) /\ Becomes(c, pending[c][id] # Untouched)
        BY <1>4 DEF ReadById
    <2>2. View(c, id) = table[id] /\ table[id] # NoRow
        BY <1>1, <2>1 DEF Becomes, View, GetById
    <2>3. table' = table /\ hand'[c] = FromRow(id, table[id]) /\ table[id].version \in Nat
        BY <1>1, <2>1, <2>2 DEF GetById, Hold, uowVars, Row
    <2>4. QED
        BY <2>3 DEF KnowsCommitted, FromRow
<1>5. CASE UpdateAndGoOn(c)
    <2>1. ~provisional[c] /\ hand'[c] = hand[c]
        BY <1>1, <1>5 DEF UpdateAndGoOn, Becomes
    <2>2. table' = table
        BY <1>5 DEF UpdateAndGoOn, UpdateFlush, Flush
    <2>3. QED
        BY <1>1, <2>1, <2>2, SameVersionIsKnown
<1>6. CASE DropAggregate(c)
    <2>1. hand'[c] = NoAggregate
        BY <1>1, <1>6 DEF DropAggregate, DeleteFlush, CallRollback, Leave, Hold
    <2>2. QED
        BY <2>1 DEF KnowsCommitted
<1>7. ASSUME At(c, "committing"), active[c], ~isFailed[c], table' = Merged(c),
             hand'[c] = Settled(c)
      PROVE  KnowsCommitted(c)'
    <2>1. ~broken[c]
        BY <1>1, <1>7 DEF Places_OK
    <2>2. CASE Holds(c)
        BY <1>1, <1>7, <2>1, <2>2, OwnCommitIsKnown
    <2>3. CASE ~Holds(c)
        BY <1>7, <2>3 DEF Settled, KnowsCommitted
    <2>4. QED
        BY <2>2, <2>3
<1>8. CASE CommitSettles(c)
    BY <1>1, <1>7, <1>8 DEF CommitSettles, CommitAnswersOk, CommitOk, Hold
<1>9. CASE Proceed(c)
    <2>1. KnowsCommitted(c)
        BY <1>1, <1>9 DEF Proceed
    <2>2. CASE CommitOutcomeUnknown(c)
        <3>1. CASE CommitError(c) /\ Hold(c, Settled(c)) /\ At(c, "committing")
            BY <1>1, <1>7, <2>1, <3>1, SameVersionIsKnown DEF CommitError, Hold
        <3>2. CASE Hold(c, NoAggregate)
            BY <1>1, <3>2 DEF Hold, KnowsCommitted
        <3>3. QED
            BY <2>2, <3>1, <3>2 DEF CommitOutcomeUnknown
    <2>3. CASE \E key \in Keys \cup {NoKey} : UpdateCheck(c, key)
        <3>1. table' = table
            BY <2>3 DEF UpdateCheck, uowVars
        <3>2. QED
            BY <1>1, <2>1, <2>3, <3>1, SameVersionIsKnown
    <2>4. CASE table' = table /\ hand' = hand
        BY <1>1, <2>1, <2>4, SameVersionIsKnown
    <2>5. QED
        BY <1>9, <2>2, <2>3, <2>4
        DEF Proceed, Enter, Open, SelectError, Breaks, Fail, AddCheck, AddFlush, Flush,
            DeleteCheck, StaleFlush, KeyConflict, FlushError, Submit, CommitAnswersRefused,
            CommitRefused, uowVars
<1>10. QED
    BY <1>2, <1>3, <1>4, <1>5, <1>6, <1>8, <1>9 DEF KeptStep

LEMMA KeptStepKeepsInvariant ==
    ASSUME KeptInv, NEW c \in Clients, KeptStep(c)
    PROVE  KeptInv'
<1>1. IInv /\ (provisional[c] \/ KnowsCommitted(c))
    BY DEF KeptInv, KeptKnows
<1>2. At(c, "closed") => KnowsCommitted(c)
    BY <1>1 DEF KeptInv, SettledOutside, At, Holds, KnowsCommitted
<1>3. CASE Keep(c)
    <2>1. UNCHANGED <<table, hand, provisional>> /\ ~provisional[c]
        BY <1>1, <1>3, KeepSteps
    <2>2. IInv'
        BY <1>1, <1>3, <2>1, KeepKeepsIInv
    <2>3. \A d \in Clients \ {c} : pc'[d] = pc[d]
        BY <1>1, <1>3, KeepSteps DEF IInv, TypeOK
    <2>4. QED
        BY <2>1, <2>2, <2>3 DEF KeptInv, KeptKnows, KnowsCommitted, SettledOutside, Holds
<1>4. CASE Step(c)
    <2>1. IInv'
        BY <1>1, <1>2, <1>4, StepKeepsIInv
    <2>2. KeptKnows'
        <3>1. SUFFICES ASSUME NEW d \in Clients, ~provisional'[d] PROVE KnowsCommitted(d)'
            BY DEF KeptKnows
        <3>2. CASE d = c
            BY <3>1, <3>2, KeptStepKnows
        <3>3. CASE d # c
            BY <1>1, <1>4, <2>1, <3>1, <3>3, MarksAreOwn, OthersStayBehind DEF KeptInv, KeptKnows
        <3>4. QED
            BY <3>2, <3>3
    <2>3. SettledOutside'
        BY <1>1, <1>4, MarksAreOwn, ScopesAreLeftEmpty, OthersUntouched
        DEF KeptInv, IInv, SettledOutside, Holds
    <2>4. QED
        BY <2>1, <2>2, <2>3, MarksAreOwn DEF KeptInv
<1>5. QED
    BY <1>3, <1>4, KeptStepIsStep

\* The invariant of callers who keep aggregates through a rollback() or beyond
\* their scope.
THEOREM KeptInvariant == KeptSpec => []KeptInv
<1>1. KeptInit => KeptInv
    BY InitEstablishesInvariant
    DEF KeptInit, Init, KeptInv, KeptKnows, KnowsCommitted, SettledOutside, Holds
<1>2. ASSUME KeptInv, UNCHANGED keptVars PROVE KeptInv'
    BY <1>2, StutterKeepsIInv
    DEF keptVars, vars, uowVars, clientVars, KeptInv, KeptKnows, KnowsCommitted, SettledOutside,
        Holds
<1>3. KeptNext => \E c \in Clients : KeptStep(c)
    BY DEF KeptNext, KeptStep, Keep
<1>4. KeptInv /\ [KeptNext]_keptVars => KeptInv'
    BY <1>2, <1>3, KeptStepKeepsInvariant
<1>5. QED
    BY <1>1, <1>4, PTL DEF KeptSpec

\* The optimistic lock holds for callers who keep aggregates too: a stale one
\* never passes update() or delete() over changes it has not seen.
THEOREM NoUpdateIsLostByKeeping == KeptSpec => NoLostUpdate
<1>1. ASSUME KeptInv, NEW c \in Clients, KeptStep(c), NEW id \in Ids,
             table[id] # NoRow, table'[id] # table[id]
      PROVE  /\ table'[id] # NoRow => table[id].data \subseteq table'[id].data
             /\ \E d \in Clients : table[id].data \subseteq wrote[d][id]
    <2>1. Step(c)
        BY <1>1, KeptStepIsStep, KeepSteps DEF KeptInv
    <2>2. QED
        BY <1>1, <2>1, CommitsKnowTheRow DEF KeptInv
<1>2. KeptNext => \E c \in Clients : KeptStep(c)
    BY DEF KeptNext, KeptStep, Keep
<1>3. KeptInv /\ [KeptNext]_keptVars =>
        [\A id \in Ids :
            (table[id] # NoRow /\ table'[id] # table[id]) =>
                /\ table'[id] # NoRow => table[id].data \subseteq table'[id].data
                /\ \E c \in Clients : table[id].data \subseteq wrote[c][id]]_vars
    BY <1>1, <1>2 DEF keptVars
<1>4. QED
    BY <1>3, KeptInvariant, PTL DEF KeptSpec, NoLostUpdate

\* So do the refusals, the unique index and the acknowledgements.
THEOREM KeepingIsSafe ==
    KeptSpec => [](RefusedIffBroken /\ KeysUnique /\ AcknowledgedChangesStay)
<1>. DEFINE Rest == KeysInv /\ AcknowledgedChangesStay
<1>1. KeptInit => Rest
    BY DEF KeptInit, Init, UowInit, NoWrites, Clients, KeysInv, KeysUnique, EntriesUnique,
           EntriesExclusive, HoldsKey, View, AcknowledgedChangesStay
<1>2. ASSUME KeptInv, KeptInv', Rest, NEW c \in Clients, KeptStep(c) PROVE Rest'
    <2>1. CASE Step(c)
        BY <1>2, <2>1, StepKeepsKeys, StepKeepsAcknowledged DEF KeptInv
    <2>2. CASE Keep(c)
        <3>1. EndsTransaction(c) /\ UNCHANGED <<table, acked, erased>>
            BY <1>2, <2>2, KeepSteps DEF KeptInv, EndsTransaction
        <3>2. KeysInv'
            BY <1>2, <3>1, EndKeepsKeys DEF KeptInv, IInv, TypeOK
        <3>3. QED
            BY <1>2, <3>1, <3>2 DEF AcknowledgedChangesStay, DataIn
    <2>3. QED
        BY <1>2, <2>1, <2>2, KeptStepIsStep
<1>3. ASSUME Rest, UNCHANGED keptVars PROVE Rest'
    BY <1>3
    DEF KeysInv, KeysUnique, EntriesUnique, EntriesExclusive, HoldsKey, View,
        AcknowledgedChangesStay, DataIn, keptVars, vars, uowVars, history
<1>4. KeptNext => \E c \in Clients : KeptStep(c)
    BY DEF KeptNext, KeptStep, Keep
<1>5. KeptInv /\ KeptInv' /\ Rest /\ [KeptNext]_keptVars => Rest'
    BY <1>2, <1>3, <1>4
<1>6. KeptInv /\ Rest => RefusedIffBroken /\ KeysUnique /\ AcknowledgedChangesStay
    BY DEF KeptInv, IInv, Places_OK, RefusedIffBroken, KeysInv
<1>7. QED
    BY <1>1, <1>5, <1>6, KeptInvariant, PTL DEF KeptSpec

=============================================================================
