------------------------- MODULE MembershipLifecycle -------------------------
(***************************************************************************)
(* What the membership use cases promise, without requests, scopes,         *)
(* versions or transactions: an enrollment period is opened, approved,      *)
(* given a role and left in one indivisible step each.                      *)
(***************************************************************************)

CONSTANTS
    Periods,    \* ids of enrollment periods
    Teams, Users,
    Roles,
    InitialRole,
    NoPeriod    \* no period has this id

Statuses == {"PENDING", "ACTIVE", "LEAVED"}
Period == [team : Teams, user : Users, role : Roles, status : Statuses]

ASSUME LifecycleAssumption ==
    /\ InitialRole \in Roles
    /\ NoPeriod \notin Period

VARIABLE periods

LifecycleTypeOK == periods \in [Periods -> Period \cup {NoPeriod}]

Exists(p) == periods[p] # NoPeriod
Current(p) == Exists(p) /\ periods[p].status # "LEAVED"
Left(p) == Exists(p) /\ periods[p].status = "LEAVED"

LifecycleInit == periods = [p \in Periods |-> NoPeriod]

\* What the table allows without its partial index: a period beside a current one
\* of the same user in the same team.
OpenBesideCurrent(p, t, u, status) ==
    /\ ~Exists(p)
    /\ periods' = [periods EXCEPT ![p] =
                    [team |-> t, user |-> u, role |-> InitialRole, status |-> status]]

\* A user enters a team at once or asks to; a period is never opened beside a
\* current one of the same user in the same team.
OpenPeriod(p, t, u, status) ==
    /\ ~Exists(p)
    /\ \A q \in Periods : ~(Current(q) /\ periods[q].team = t /\ periods[q].user = u)
    /\ periods' = [periods EXCEPT ![p] =
                    [team |-> t, user |-> u, role |-> InitialRole, status |-> status]]

ApprovePeriod(p) ==
    /\ Exists(p) /\ periods[p].status = "PENDING"
    /\ periods' = [periods EXCEPT ![p].status = "ACTIVE"]

GiveRole(p, role) ==
    /\ Current(p)
    /\ periods' = [periods EXCEPT ![p].role = role]

LeavePeriod(p) ==
    /\ Current(p)
    /\ periods' = [periods EXCEPT ![p].status = "LEAVED"]

LifecycleNext ==
    \E p \in Periods :
        \/ \E t \in Teams, u \in Users, status \in {"PENDING", "ACTIVE"} :
            OpenPeriod(p, t, u, status)
        \/ ApprovePeriod(p)
        \/ \E role \in Roles : GiveRole(p, role)
        \/ LeavePeriod(p)

LifecycleSpec == LifecycleInit /\ [][LifecycleNext]_periods

-----------------------------------------------------------------------------
(* Properties *)

\* docs/domain/BOUNDARIES_AND_GLOSSARY.md: one current period per team and user.
OneCurrentPeriod ==
    \A p, q \in Periods :
        /\ Current(p) /\ Current(q)
        /\ periods[p].team = periods[q].team
        /\ periods[p].user = periods[q].user
        => p = q

\* leave() ends a period for good: the row stays as history and never changes.
LeftForGood ==
    [][\A p \in Periods : Left(p) => periods'[p] = periods[p]]_periods

=============================================================================
