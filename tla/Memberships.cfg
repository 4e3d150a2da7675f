SPECIFICATION Spec
CONSTANTS
    Requests = {r1, r2}
    Teams = {t1}
    Users = {u1}
    Periods = {p1, p2}
    Names = {n1}
    Emails = {e1}
    Roles = {MEMBER, ADMIN}
    InitialRole = MEMBER
    StoredTeams = {t1}
    StoredUsers = {u1}
    UseCasesCalled <- MembershipUseCases
    MaxRequests = 4
    NoKey = NoKey
    NoRow = NoRow
    Untouched = Untouched
    NoAggregate = NoAggregate
    NoCommand = NoCommand
SYMMETRY MCSymmetry
INVARIANTS
    OkIsFinal
PROPERTIES
    ImplementsLifecycle
    ConflictsAreReal
    RejoinAllowed
