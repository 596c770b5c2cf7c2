SPECIFICATION Spec
CONSTANTS
    NumChannels = 2
    QNum = 2
    ByteMod = 4
    AppMaxPwm = 200
    Behind = {7}
    Aims <- Few
    MaxAims = 3
CONSTRAINT
    Explored
INVARIANTS
    AimReached
    ReadsInRing
PROPERTIES
    ApproachesOnly
    ChangesEnd
CHECK_DEADLOCK FALSE
