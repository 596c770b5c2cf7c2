SPECIFICATION Spec
CONSTANTS
    main = main
    run = run
    h1 = h1
    h2 = h2
    Main = main
    Run = run
    NoTask = NoTask
    Tasks <- OneHandler
    NumSockets = 2
    InboxMax = 1
    MaxFaults = 1
    CountMod = 5
    QueueLen = 1
    Refusals = {2}
    Grants = {2, 128}
    Pushes <- TwoMessages
PROPERTIES
    MutexReleased
    HandlersEnd
    BootCompletes
    ReportsAreSettled
