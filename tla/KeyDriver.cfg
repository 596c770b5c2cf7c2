CONSTANTS
    LongTicks <- MCLongTicks
    Settled = 2
    Glitches = FALSE
SPECIFICATION Spec
INVARIANTS KeyNeverDead PressesReported LongPressComes
PROPERTIES RealPush LongPressHeld
