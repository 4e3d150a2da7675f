---------------------------- MODULE KeptAggregates ----------------------------
(***************************************************************************)
(* RepositoryClients whose callers keep aggregates longer: through an       *)
(* explicit rollback() and beyond the end of a scope, to use them in the    *)
(* next.  update() answers an aggregate that is a version ahead of the      *)
(* table until the commit; so does get_by_id() after it.  If the            *)
(* transaction is discarded, another client may reach that version with     *)
(* other data, and both version checks would let the aggregate pass.  Such  *)
(* provisional aggregates must go with their transaction; all others may    *)
(* be kept, the one passed to update() among them.                          *)
(***************************************************************************)
EXTENDS RepositoryClients

VARIABLE provisional    \* per client, its aggregate is from an uncommitted write

keptVars == <<vars, provisional>>

KeptInit == Init /\ provisional = [c \in Clients |-> FALSE]

Becomes(c, value) == provisional' = [provisional EXCEPT ![c] = value]

\* A row read back before the commit is what this scope has written itself.
ReadById(c, id) == GetById(c, id) /\ Becomes(c, pending[c][id] # Untouched)

\* Of UpdateFlush's two outcomes, the caller goes on with the answer or not.
UpdateAndGoOn(c) == UpdateFlush(c) /\ Becomes(c, provisional[c] \/ hand'[c] # hand[c])

\* A committed aggregate, a new one, and none at all are not provisional.
CommitSettles(c) == CommitAnswersOk(c) /\ Becomes(c, FALSE)
CreateAnother(c, id, key) == Create(c, id, key) /\ Becomes(c, FALSE)
DropAggregate(c) ==
    /\ DeleteFlush(c) \/ CallRollback(c) \/ Leave(c)
    /\ Becomes(c, FALSE)

MayKeep(c) == Holds(c) /\ ~provisional[c]

\* rollback(), and the caller goes on with its aggregate.
KeepThroughRollback(c) ==
    /\ At(c, "open")
    /\ MayKeep(c)
    /\ Rollback(c)
    /\ Discard(c)
    /\ UNCHANGED <<pc, hand, issued, clock, broken, acked, erased, provisional>>

\* __aexit__, and the caller takes its aggregate along.
KeepThroughLeave(c) ==
    /\ ~At(c, "closed")
    /\ MayKeep(c)
    /\ Close(c)
    /\ Discard(c)
    /\ GoTo(c, "closed")
    /\ UNCHANGED <<hand, issued, clock, broken, acked, erased, provisional>>

\* The steps that leave the aggregate what it is.
Proceed(c) ==
    /\ \/ Enter(c) \/ SelectError(c)
       \/ AddCheck(c) \/ AddFlush(c)
       \/ \E key \in Keys \cup {NoKey} : UpdateCheck(c, key)
       \/ DeleteCheck(c)
       \/ StaleFlush(c) \/ KeyConflict(c) \/ FlushError(c)
       \/ Submit(c) \/ CommitAnswersRefused(c) \/ CommitOutcomeUnknown(c)
    /\ UNCHANGED provisional

KeptNext ==
    \E c \in Clients :
        \/ \E id \in Ids, key \in Keys \cup {NoKey} : CreateAnother(c, id, key)
        \/ \E id \in Ids : ReadById(c, id)
        \/ UpdateAndGoOn(c) \/ CommitSettles(c) \/ DropAggregate(c) \/ Proceed(c)
        \/ KeepThroughRollback(c) \/ KeepThroughLeave(c)

KeptSpec == KeptInit /\ [][KeptNext]_keptVars

=============================================================================
