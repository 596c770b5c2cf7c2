CONSTANTS
    QueueLen <- MCQueueLen
    LongTicks <- MCLongTicks
    Settled = 2
    Glitches = FALSE
    MaxBusy = 0
SPECIFICATION SmartSpec
PROPERTY ShortPressWasShort
