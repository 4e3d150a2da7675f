-------------------------- MODULE RepositoryClients --------------------------
(***************************************************************************)
(* Arbitrary callers of GenericRepository inside UnitOfWork scopes.  Each   *)
(* scope belongs to one client, which runs any sequence of get_by_id, add,  *)
(* update, delete, commit and rollback, ignores the errors it is given if   *)
(* it likes, and may leave the scope (exception, cancellation, return) at   *)
(* any await.  add, update and delete are two steps, as they await twice:   *)
(* the SELECT that checks and the flush that writes.                        *)
(*                                                                         *)
(* A row's data is the set of changes it has accumulated: every add and     *)
(* every update attempt makes one fresh change.  A change that is in no row *)
(* any more has been overwritten.                                           *)
(*                                                                         *)
(* The callers keep three rules that every use case of the repository       *)
(* follows: ids are generated and never stored twice (ULIDs), a deleted     *)
(* aggregate is dropped, and aggregates do not outlive the scope or the     *)
(* explicit rollback() that discards them.                                  *)
(***************************************************************************)
EXTENDS UnitOfWork, FiniteSets

CONSTANTS
    NoAggregate,    \* the client holds no aggregate
    MaxChanges      \* bound on the changes made in a behaviour

Clients == Scopes
Changes == 1 .. MaxChanges

ASSUME ChangesAssumption ==
    /\ MaxChanges \in Nat
    /\ Data = SUBSET Changes

Aggregate ==
    [id : Ids, key : Keys \cup {NoKey}, data : Data, version : Nat, new : BOOLEAN]

ASSUME NoAggregateAssumption == NoAggregate \notin Aggregate

VARIABLES
    pc,         \* per client, the await it is at
    hand,       \* per client, the aggregate it works on
    issued,     \* ids generated so far
    clock,      \* number of changes made so far
    \* what an observer of the calls and their results knows:
    wrote,      \* per client and id, the changes behind its unfinished writes
    broken,     \* a statement of the client's scope has failed
    acked,      \* <<id, change>> pairs whose commit answered Ok
    lost,       \* <<id, change>> pairs flushed by a transaction that ended otherwise
    erased      \* ids whose DELETE was submitted to commit

clientVars == <<pc, hand, issued, clock>>
history == <<wrote, broken, acked, lost, erased>>
vars == <<uowVars, clientVars, history>>

Places == {"closed", "open", "adding", "updating", "deleting", "committing",
           "unwinding"}
Pairs == Ids \X Changes

TypeOK ==
    /\ UowTypeOK
    /\ pc \in [Clients -> Places]
    /\ hand \in [Clients -> Aggregate \cup {NoAggregate}]
    /\ issued \in SUBSET Ids
    /\ clock \in 0 .. MaxChanges
    /\ wrote \in [Clients -> [Ids -> SUBSET Changes]]
    /\ broken \in [Clients -> BOOLEAN]
    /\ acked \in SUBSET Pairs
    /\ lost \in SUBSET Pairs
    /\ erased \in SUBSET Ids

NothingWritten == [id \in Ids |-> {}]

Init ==
    /\ UowInit
    /\ pc = [c \in Clients |-> "closed"]
    /\ hand = [c \in Clients |-> NoAggregate]
    /\ issued = {}
    /\ clock = 0
    /\ wrote = [c \in Clients |-> NothingWritten]
    /\ broken = [c \in Clients |-> FALSE]
    /\ acked = {}
    /\ lost = {}
    /\ erased = {}

-----------------------------------------------------------------------------
At(c, place) == pc[c] = place
GoTo(c, place) == pc' = [pc EXCEPT ![c] = place]
Hold(c, aggregate) == hand' = [hand EXCEPT ![c] = aggregate]
Holds(c) == hand[c] # NoAggregate

FromRow(id, row) ==
    [id |-> id, key |-> row.key, data |-> row.data, version |-> row.version, new |-> FALSE]

\* The change the client makes next; clock' counts it.
NewChange == clock + 1
MakeChange == clock < MaxChanges /\ clock' = NewChange

DataIn(id) == IF table[id] = NoRow THEN {} ELSE table[id].data

\* The changes of c that its transaction has flushed and nobody else can see.
Unfinished(c) ==
    {p \in Pairs : p[2] \in wrote[c][p[1]] /\ p[2] \notin DataIn(p[1])}

\* The transaction of c ends without a commit.
Discard(c) ==
    /\ lost' = lost \cup Unfinished(c)
    /\ wrote' = [wrote EXCEPT ![c] = NothingWritten]

\* A flush of c succeeded; in a broken scope its changes are lost already.
Record(c, id, changes) ==
    /\ IF broken[c]
       THEN /\ lost' = lost \cup {p \in Pairs : p[1] = id /\ p[2] \in changes \ DataIn(id)}
            /\ UNCHANGED wrote
       ELSE /\ wrote' = [wrote EXCEPT ![c][id] = changes]
            /\ UNCHANGED lost
    /\ UNCHANGED <<broken, acked, erased>>

\* A statement of c fails.
Breaks(c) ==
    /\ Fail(c)
    /\ Discard(c)
    /\ broken' = [broken EXCEPT ![c] = TRUE]
    /\ UNCHANGED <<hand, issued, clock, acked, erased>>

-----------------------------------------------------------------------------
\* async with uow
Enter(c) ==
    /\ At(c, "closed")
    /\ Open(c)
    /\ GoTo(c, "open")
    /\ broken' = [broken EXCEPT ![c] = FALSE]
    /\ UNCHANGED <<hand, issued, clock, wrote, acked, lost, erased>>

\* The domain makes a new aggregate, with a fresh id and version 0.
Create(c, id, key) ==
    /\ At(c, "open")
    /\ id \notin issued
    /\ MakeChange
    /\ issued' = issued \cup {id}
    /\ Hold(c, [id |-> id, key |-> key, data |-> {NewChange}, version |-> 0, new |-> TRUE])
    /\ UNCHANGED <<uowVars, pc, history>>

\* get_by_id() finds the row.
GetById(c, id) ==
    /\ At(c, "open")
    /\ View(c, id) # NoRow
    /\ Hold(c, FromRow(id, View(c, id)))
    /\ UNCHANGED <<uowVars, pc, issued, clock, history>>

\* The SELECT of any operation raises SQLAlchemyError.
SelectError(c) ==
    /\ At(c, "open")
    /\ Breaks(c)
    /\ UNCHANGED pc

\* add(): the id is free, so session.add is reached.  If it is not, the Err
\* leaves everything as it was.
AddCheck(c) ==
    /\ At(c, "open")
    /\ Holds(c) /\ hand[c].new
    /\ View(c, hand[c].id) = NoRow
    /\ GoTo(c, "adding")
    /\ UNCHANGED <<uowVars, hand, issued, clock, history>>

AddFlush(c) ==
    LET a == hand[c] IN
    /\ At(c, "adding")
    /\ ~KeyLocked(c, a.key)
    /\ ~KeyTaken(c, a.id, a.key)
    /\ Flush(c, a.id, [key |-> a.key, data |-> a.data, version |-> a.version])
    /\ Record(c, a.id, a.data)
    /\ GoTo(c, "open")
    /\ UNCHANGED <<hand, issued, clock>>

\* Mutant: a rejected version check rolls the Session back.
UpdateCheckDiscards(c, key) ==
    LET a == hand[c] IN
    /\ At(c, "open")
    /\ Holds(c)
    /\ MakeChange
    /\ Hold(c, [a EXCEPT !.key = key, !.data = @ \cup {NewChange}, !.new = FALSE])
    /\ \/ /\ VersionMatches(c, a.id, a.version)
          /\ GoTo(c, "updating")
          /\ UNCHANGED uowVars
       \/ /\ ~VersionMatches(c, a.id, a.version)
          /\ Rollback(c)
          /\ UNCHANGED pc
    /\ UNCHANGED <<issued, history>>

\* update(): the caller has changed its aggregate; the SELECT finds the row at
\* the aggregate's version, and merge is reached.
UpdateCheck(c, key) ==
    LET a == hand[c] IN
    /\ At(c, "open")
    /\ Holds(c)
    /\ MakeChange
    /\ Hold(c, [a EXCEPT !.key = key, !.data = @ \cup {NewChange}, !.new = FALSE])
    /\ IF VersionMatches(c, a.id, a.version) THEN GoTo(c, "updating") ELSE UNCHANGED pc
    /\ UNCHANGED <<uowVars, issued, history>>

\* The flushed UPDATE.  The caller goes on with the aggregate update() returns,
\* or with the one it passed.
UpdateFlush(c) ==
    LET a == hand[c]
        row == Updated(a.key, a.data, a.version)
    IN
    /\ At(c, "updating")
    /\ ~RowLocked(c, a.id)
    /\ MatchesWhere(c, a.id, a.version)
    /\ ~KeyLocked(c, a.key)
    /\ ~KeyTaken(c, a.id, a.key)
    /\ Flush(c, a.id, row)
    /\ Record(c, a.id, a.data)
    /\ \/ Hold(c, FromRow(a.id, row))
       \/ UNCHANGED hand
    /\ GoTo(c, "open")
    /\ UNCHANGED <<issued, clock>>

\* delete(): the SELECT finds the row at the aggregate's version.
DeleteCheck(c) ==
    /\ At(c, "open")
    /\ Holds(c)
    /\ VersionMatches(c, hand[c].id, hand[c].version)
    /\ GoTo(c, "deleting")
    /\ UNCHANGED <<uowVars, hand, issued, clock, history>>

DeleteFlush(c) ==
    LET a == hand[c] IN
    /\ At(c, "deleting")
    /\ ~RowLocked(c, a.id)
    /\ MatchesWhere(c, a.id, a.version)
    /\ Flush(c, a.id, NoRow)
    /\ Record(c, a.id, a.data)
    /\ Hold(c, NoAggregate)
    /\ GoTo(c, "open")
    /\ UNCHANGED <<issued, clock>>

\* The flush waits for no lock any more, and the WHERE clause selects nothing:
\* StaleDataError, then _stale_error().
StaleFlush(c) ==
    /\ pc[c] \in {"updating", "deleting"}
    /\ ~RowLocked(c, hand[c].id)
    /\ ~MatchesWhere(c, hand[c].id, hand[c].version)
    /\ Breaks(c)
    /\ GoTo(c, "open")

\* IntegrityError: another row has the index entry.
KeyConflict(c) ==
    LET a == hand[c] IN
    /\ pc[c] \in {"adding", "updating"}
    /\ ~KeyLocked(c, a.key)
    /\ KeyTaken(c, a.id, a.key)
    /\ Breaks(c)
    /\ GoTo(c, "open")

\* Any other SQLAlchemyError of a flush; a deadlock between locks ends here too.
FlushError(c) ==
    /\ pc[c] \in {"adding", "updating", "deleting"}
    /\ Breaks(c)
    /\ GoTo(c, "open")

-----------------------------------------------------------------------------
\* uow.commit() is called.
Submit(c) ==
    /\ At(c, "open")
    /\ GoTo(c, "committing")
    /\ UNCHANGED <<uowVars, hand, issued, clock, history>>

Deletions(c) == {id \in Ids : pending[c][id] = NoRow}

\* A stored aggregate is not new any more.
Settled(c) == IF Holds(c) THEN [hand[c] EXCEPT !.new = FALSE] ELSE NoAggregate

CommitAnswersOk(c) ==
    /\ At(c, "committing")
    /\ acked' = acked \cup {p \in Pairs : p[2] \in wrote[c][p[1]]}
    /\ erased' = erased \cup Deletions(c)
    /\ wrote' = [wrote EXCEPT ![c] = NothingWritten]
    /\ CommitOk(c)
    /\ Hold(c, Settled(c))
    /\ GoTo(c, "open")
    /\ UNCHANGED <<issued, clock, broken, lost>>

CommitAnswersRefused(c) ==
    /\ At(c, "committing")
    /\ CommitRefused(c)
    /\ GoTo(c, "open")
    /\ UNCHANGED <<hand, issued, clock, history>>

\* After an error or a cancellation nobody knows what became of the writes; the
\* cancellation goes on through the caller to __aexit__.
CommitOutcomeUnknown(c) ==
    /\ At(c, "committing")
    /\ erased' = erased \cup Deletions(c)
    /\ wrote' = [wrote EXCEPT ![c] = NothingWritten]
    /\ \/ /\ CommitError(c)
          /\ broken' = [broken EXCEPT ![c] = TRUE]
          /\ GoTo(c, "open")
          /\ Hold(c, Settled(c))
       \/ /\ CommitCancelled(c)
          /\ GoTo(c, "unwinding")
          /\ Hold(c, NoAggregate)
          /\ UNCHANGED broken
    /\ UNCHANGED <<issued, clock, acked, lost>>

\* uow.rollback(): the caller drops the aggregate with the writes.
CallRollback(c) ==
    /\ At(c, "open")
    /\ Rollback(c)
    /\ Discard(c)
    /\ Hold(c, NoAggregate)
    /\ UNCHANGED <<pc, issued, clock, broken, acked, erased>>

\* __aexit__, from any await: return, exception or cancellation.
Leave(c) ==
    /\ ~At(c, "closed")
    /\ Close(c)
    /\ Discard(c)
    /\ Hold(c, NoAggregate)
    /\ GoTo(c, "closed")
    /\ UNCHANGED <<issued, clock, broken, acked, erased>>

Step(c) ==
    \/ Enter(c) \/ SelectError(c)
    \/ \E id \in Ids, key \in Keys \cup {NoKey} : Create(c, id, key)
    \/ \E id \in Ids : GetById(c, id)
    \/ AddCheck(c) \/ AddFlush(c)
    \/ \E key \in Keys \cup {NoKey} : UpdateCheck(c, key)
    \/ UpdateFlush(c)
    \/ DeleteCheck(c) \/ DeleteFlush(c)
    \/ StaleFlush(c) \/ KeyConflict(c) \/ FlushError(c)
    \/ Submit(c) \/ CommitAnswersOk(c) \/ CommitAnswersRefused(c) \/ CommitOutcomeUnknown(c)
    \/ CallRollback(c) \/ Leave(c)

Next == \E c \in Clients : Step(c)

Spec == Init /\ [][Next]_vars

-----------------------------------------------------------------------------
(* Properties *)

\* The optimistic lock: whoever replaces or deletes a committed row has seen
\* every change in it, and an update keeps them all (update() and delete() with
\* their version check before the flush and the version in its WHERE clause).
NoLostUpdate ==
    [][\A id \in Ids :
        (table[id] # NoRow /\ table'[id] # table[id]) =>
            /\ table'[id] # NoRow => table[id].data \subseteq table'[id].data
            /\ \E c \in Clients : table[id].data \subseteq wrote[c][id]]_vars

\* A commit that answered Ok stays: its changes are in the row until somebody
\* deletes the row.
AcknowledgedChangesStay ==
    \A p \in acked : p[1] \in erased \/ p[2] \in DataIn(p[1])

\* Writes discarded by a failed statement, by rollback() or by leaving the
\* scope, and all writes made in the scope after the failure, never reach the
\* table, whatever the caller does after the Err.
DiscardedChangesStayOut ==
    \A p \in lost : p[2] \notin DataIn(p[1])

\* commit() refuses exactly the scopes in which a statement failed: neither a
\* rejected version check nor an explicit rollback() costs a scope its commit.
RefusedIffBroken ==
    \A c \in Clients : active[c] => (isFailed[c] <=> broken[c])

\* Two committed rows never share an index entry, whichever transactions wrote
\* them and however they interleaved (unique=True of users.email).
KeysUnique ==
    \A i, j \in Ids :
        (table[i] # NoRow /\ table[j] # NoRow /\ table[i].key = table[j].key)
            => i = j \/ table[i].key = NoKey

=============================================================================
