SPECIFICATION FairSpec
CONSTANTS
    Processes = {p1}
    Events = {e1, e2}
    Handlers = {h1, h2}
    t1 = t1
    t2 = t2
    Topic <- MCTopic
    MaxStarts = 1
PROPERTY NotificationsGetHandled
CHECK_DEADLOCK FALSE
