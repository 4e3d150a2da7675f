SPECIFICATION FairSpec
CONSTANTS
    Users = {u1, u2, u3}
    api = api
    worker = worker
    single = single
    Processes <- MCProcesses
    Creators <- MCCreators
    Bots <- MCBots
    Workers <- MCWorkers
    Nobody = Nobody
INVARIANTS
    AnnouncedUsersExist
    WelcomedOnce
    OkIsAnnounced
PROPERTY AnnouncedUsersAreWelcomed
