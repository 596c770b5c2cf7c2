CONSTANTS
    Base = 2
    Packets <- MCPackets
    MaxSent = 3
SPECIFICATION Spec
INVARIANTS TypeOK PacketsIntact
