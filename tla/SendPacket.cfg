SPECIFICATION SendSpec
CONSTANTS
    TickMod = 31
    OverflowMod = 2
    Waits = {10, 25, 30}
    Length = 2
INVARIANTS
    ExpiresOnTime
    LeftNeverZero
    WrittenOnce
