SPECIFICATION Spec
CONSTANTS
    Scopes = {c1, c2}
    Ids = {i1, i2}
    Keys = {k1}
    NoKey = NoKey
    Data <- MCData
    NoRow = NoRow
    Untouched = Untouched
    NoAggregate = NoAggregate
    MaxChanges = 3
SYMMETRY MCSymmetry
INVARIANTS
    KeysUnique
    AcknowledgedChangesStay
    DiscardedChangesStayOut
