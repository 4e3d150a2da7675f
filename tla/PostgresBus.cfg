SPECIFICATION Spec
CONSTANTS
    Processes = {p1, p2}
    Events = {e1, e2}
    Handlers = {h1}
    t1 = t1
    t2 = t2
    Topic <- MCTopic
    MaxStarts = 2
SYMMETRY MCSymmetry
INVARIANTS
    HeardInOrder
    NothingLostWhileListening
    StoppedHearsNothing
CHECK_DEADLOCK FALSE
