SPECIFICATION Spec
CONSTANTS
    Commands = {c1, c2, c3}
    Ids = {i1, i2}
    Stored = {i1}
    Earlier = Earlier
SYMMETRY MCSymmetry
INVARIANTS
    OnlyUnexpectedConcealsAnEffect
    OneEffectPerCommand
    ShownIsNotOlderThanTheChange
    OneWinnerPerVersion
CHECK_DEADLOCK FALSE
