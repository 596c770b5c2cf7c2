CONSTANTS
    QueueLen <- MCQueueLen
    LongTicks <- MCLongTicks
    Settled = 2
    Glitches = FALSE
    MaxBusy = 3
SPECIFICATION SmartSpec
INVARIANTS SmartTypeOK TurnsOnce KeyAlive
PROPERTIES SafeBoot LonePressHeals
