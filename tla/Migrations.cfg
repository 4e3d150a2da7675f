SPECIFICATION MigrationsSpec
CONSTANTS
    Periods = {p1, p2}
    Teams = {t1}
    Users = {u1}
    Roles = {MEMBER}
    InitialRole = MEMBER
    NoPeriod = NoPeriod
    Handlers = {h1, h2}
    Messages = {m1}
    Targets = {0, 3, 8, 9, 10}
SYMMETRY MCSymmetry
INVARIANTS
    OneCurrentWhileIndexed
    RevisionTellsTheSchema
    PartiesOutlivePeriods
PROPERTY MigrationsKeepRows
