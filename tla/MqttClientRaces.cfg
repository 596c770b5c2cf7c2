SPECIFICATION Watched
CONSTANTS
    main = main
    run = run
    h1 = h1
    h2 = h2
    Main = main
    Run = run
    NoTask = NoTask
    Tasks <- TwoHandlers
    NumSockets = 2
    InboxMax = 1
    MaxFaults = 1
    CountMod = 5
    QueueLen = 1
    Refusals = {2}
    Grants = {2, 128}
    Pushes = {}
SYMMETRY HandlerSymmetry
INVARIANTS
    FlagNotStale
    NoSocketLeak
    MutualExclusion
PROPERTIES
    RefusalNeverConnects
    NoSelfInflictedLoss
    ImplementsSession
