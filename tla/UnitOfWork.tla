----------------------------- MODULE UnitOfWork -----------------------------
(***************************************************************************)
(* One database table seen through SQLAlchemyUnitOfWork and the SQL that   *)
(* GenericRepository issues.  A scope is one use of "async with uow": it    *)
(* owns one Session, hence one transaction at a time.                       *)
(*                                                                         *)
(* The module declares the state and the steps; a client module decides    *)
(* who takes which step and when.  Every step here lies between two awaits  *)
(* of the code, so the steps of different scopes interleave freely.         *)
(*                                                                         *)
(* The database is external: read committed isolation, a row lock and a    *)
(* unique-key lock held until the transaction ends, and a waiting UPDATE    *)
(* that looks at the row again once the lock is released.                   *)
(***************************************************************************)
EXTENDS Integers

CONSTANTS
    Scopes,     \* the UnitOfWork instances that may be open at once
    Ids,        \* primary keys
    Keys,       \* values of the table's unique index
    NoKey,      \* a row outside the (partial) unique index
    Data,       \* the columns the program reads and writes
    NoRow,      \* no row has this primary key
    Untouched   \* the transaction has not written this primary key

Row == [key : Keys \cup {NoKey}, data : Data, version : Nat]

ASSUME SentinelsAssumption ==
    /\ NoKey \notin Keys
    /\ NoRow \notin Row
    /\ Untouched \notin Row \cup {NoRow}

VARIABLES
    table,      \* committed rows
    pending,    \* per scope, the rows its transaction has flushed
    active,     \* SQLAlchemyUnitOfWork._session is not None
    isFailed    \* SQLAlchemyUnitOfWork._is_failed

uowVars == <<table, pending, active, isFailed>>

UowTypeOK ==
    /\ table \in [Ids -> Row \cup {NoRow}]
    /\ pending \in [Scopes -> [Ids -> Row \cup {NoRow, Untouched}]]
    /\ active \in [Scopes -> BOOLEAN]
    /\ isFailed \in [Scopes -> BOOLEAN]

NoWrites == [id \in Ids |-> Untouched]

UowInit ==
    /\ table = [id \in Ids |-> NoRow]
    /\ pending = [s \in Scopes |-> NoWrites]
    /\ active = [s \in Scopes |-> FALSE]
    /\ isFailed = [s \in Scopes |-> FALSE]

-----------------------------------------------------------------------------
\* What a statement of scope s finds (GenericRepository._find): its own
\* flushed row, else the committed one.
View(s, id) == IF pending[s][id] = Untouched THEN table[id] ELSE pending[s][id]

\* The UPDATE or DELETE of s on id must wait for another transaction.
RowLocked(s, id) == \E o \in Scopes \ {s} : pending[o][id] # Untouched

\* Transaction o holds index entry k: it wrote it, or changed a row having it.
HoldsKey(o, k) ==
    \E id \in Ids :
        /\ pending[o][id] # Untouched
        /\ \E row \in {pending[o][id], table[id]} \ {NoRow} : row.key = k

\* A write of index entry k by s must wait for another transaction.
KeyLocked(s, k) == k # NoKey /\ \E o \in Scopes \ {s} : HoldsKey(o, k)

\* Mutant: the column is declared without unique=True.
KeyTakenNever(s, id, k) == FALSE

\* The write of index entry k on row id raises IntegrityError.
KeyTaken(s, id, k) ==
    /\ k # NoKey
    /\ \E i \in Ids \ {id} : View(s, i) # NoRow /\ View(s, i).key = k

\* Mutant: the comparison is off by one.
VersionMatchesNext(s, id, version) ==
    View(s, id) # NoRow /\ View(s, id).version = version + 1

\* The version comparison of update() and delete() before they mutate.
VersionMatches(s, id, version) ==
    View(s, id) # NoRow /\ View(s, id).version = version

\* Mutant: the mapper has no version_id_col.
MatchesWhereId(s, id, version) == View(s, id) # NoRow

\* The WHERE clause of the flushed UPDATE or DELETE selects the row;
\* otherwise the flush raises StaleDataError.
MatchesWhere(s, id, version) ==
    View(s, id) # NoRow /\ View(s, id).version = version

\* The row update() flushes for an aggregate read at the given version.
Updated(key, data, version) == [key |-> key, data |-> data, version |-> version + 1]

-----------------------------------------------------------------------------
\* __aenter__: a fresh Session and failure state.
Open(s) ==
    /\ ~active[s]
    /\ active' = [active EXCEPT ![s] = TRUE]
    /\ isFailed' = [isFailed EXCEPT ![s] = FALSE]
    /\ UNCHANGED <<table, pending>>

\* A flush that succeeds; row is NoRow for a DELETE.
Flush(s, id, row) ==
    /\ active[s]
    /\ pending' = [pending EXCEPT ![s][id] = row]
    /\ UNCHANGED <<table, active, isFailed>>

\* Mutant: nobody listens to after_soft_rollback.
FailUnrecorded(s) ==
    /\ active[s]
    /\ pending' = [pending EXCEPT ![s] = NoWrites]
    /\ UNCHANGED <<table, active, isFailed>>

\* A statement fails: the flush or the repository rolls the Session back, and
\* after_soft_rollback calls _record_rollback.
Fail(s) ==
    /\ active[s]
    /\ pending' = [pending EXCEPT ![s] = NoWrites]
    /\ isFailed' = [isFailed EXCEPT ![s] = TRUE]
    /\ UNCHANGED <<table, active>>

\* Mutant: rollback() does not put the flag back.
RollbackMarked(s) ==
    /\ active[s]
    /\ pending' = [pending EXCEPT ![s] = NoWrites]
    /\ isFailed' = [isFailed EXCEPT ![s] = TRUE]
    /\ UNCHANGED <<table, active>>

\* rollback(): the listener raises the flag and rollback() puts it back.
Rollback(s) ==
    /\ active[s]
    /\ pending' = [pending EXCEPT ![s] = NoWrites]
    /\ UNCHANGED <<table, active, isFailed>>

\* The table with the transaction of s applied.
Merged(s) == [id \in Ids |-> View(s, id)]

\* Mutant: commit() does not look at _is_failed.
CommitOkUnchecked(s) ==
    /\ active[s]
    /\ table' = Merged(s)
    /\ pending' = [pending EXCEPT ![s] = NoWrites]
    /\ UNCHANGED <<active, isFailed>>

\* commit() returns Ok.
CommitOk(s) ==
    /\ active[s]
    /\ ~isFailed[s]
    /\ table' = Merged(s)
    /\ pending' = [pending EXCEPT ![s] = NoWrites]
    /\ UNCHANGED <<active, isFailed>>

\* commit() returns Err without asking the database.
CommitRefused(s) ==
    /\ active[s]
    /\ isFailed[s]
    /\ UNCHANGED <<table, pending, active, isFailed>>

\* session.commit() raises SQLAlchemyError: the connection may break before or
\* after the database has applied the transaction.
CommitError(s) ==
    /\ active[s]
    /\ ~isFailed[s]
    /\ table' \in {table, Merged(s)}
    /\ pending' = [pending EXCEPT ![s] = NoWrites]
    /\ isFailed' = [isFailed EXCEPT ![s] = TRUE]
    /\ UNCHANGED active

\* The task is cancelled inside session.commit(): no except clause of commit()
\* runs, and the database may have applied the transaction.
CommitCancelled(s) ==
    /\ active[s]
    /\ ~isFailed[s]
    /\ table' \in {table, Merged(s)}
    /\ pending' = [pending EXCEPT ![s] = NoWrites]
    /\ UNCHANGED <<active, isFailed>>

\* Mutant: __aexit__ forgets the Session without a rollback.
CloseWithoutRollback(s) ==
    /\ active[s]
    /\ active' = [active EXCEPT ![s] = FALSE]
    /\ isFailed' = [isFailed EXCEPT ![s] = TRUE]
    /\ UNCHANGED <<table, pending>>

\* __aexit__: rollback while the listener is still attached, then close.  The
\* flag of a closed scope is not read again before __aenter__ resets it.
Close(s) ==
    /\ active[s]
    /\ pending' = [pending EXCEPT ![s] = NoWrites]
    /\ active' = [active EXCEPT ![s] = FALSE]
    /\ isFailed' = [isFailed EXCEPT ![s] = TRUE]
    /\ UNCHANGED table

=============================================================================
