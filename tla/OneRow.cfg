SPECIFICATION KeptSpec
CONSTANTS
    Scopes = {c1, c2}
    Ids = {i1}
    Keys = {}
    NoKey = NoKey
    Data <- MCData
    NoRow = NoRow
    Untouched = Untouched
    NoAggregate = NoAggregate
    MaxChanges = 4
SYMMETRY MCSymmetry
INVARIANTS
    RefusedIffBroken
PROPERTY NoLostUpdate
