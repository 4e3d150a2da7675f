SPECIFICATION FairSpec
CONSTANTS
    Topics <- MCTopics
    Handlers <- MCHandlers
    registered <- MCRegistered
    scheduled = {example_scheduled_task}
    Users = {u1, u2, u3}
    Nobody = Nobody
    Self = worker
    MaxEvents = 3
    MaxStarts = 1
PROPERTIES
    ImplementsSignup
    WelcomesComeAbout
    StopIsHeeded
