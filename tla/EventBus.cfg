SPECIFICATION FairBusSpec
CONSTANTS
    t1 = t1
    t2 = t2
    Topics <- MCTopics
    Handlers = {h1, h2}
    MaxEvents = 2
    MaxStarts = 3
INVARIANTS
    NoEventVanishes
    StoppedIsQuiet
PROPERTIES
    ImplementsPort
    OneEventAtATime
    EventsGetHandled
CHECK_DEADLOCK FALSE
