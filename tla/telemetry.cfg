SPECIFICATION TelemetrySpec
CONSTANTS
    Entries = 3
    PerResponse = 2
    MaxSequence = 8
    MaxRestarts = 1
INVARIANTS
    RingHolds
    MissedIsGone
    Accounted
PROPERTIES
    Reached
