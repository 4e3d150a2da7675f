SPECIFICATION FairSpec
CONSTANTS
    Requests = {r1, r2}
    Teams = {t1}
    Users = {u1, u2}
    Periods = {p1}
    Names = {n1, n2}
    Emails = {e1, e2}
    Roles = {MEMBER}
    InitialRole = MEMBER
    StoredTeams = {}
    StoredUsers = {u1}
    UseCasesCalled <- DirectoryUseCases
    MaxRequests = 3
    NoKey = NoKey
    NoRow = NoRow
    Untouched = Untouched
    NoAggregate = NoAggregate
    NoCommand = NoCommand
INVARIANT PartiesExist
PROPERTY EveryRequestEnds
