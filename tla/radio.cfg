SPECIFICATION RadioSpec
CONSTANTS
    AcStates = {cool, fan}
    MaxRestarts = 1
INVARIANTS
    StatusIsCurrent
    AlwaysCommissioning
    JoinedIsMember
PROPERTIES
    ComesOnline
    Joins
    StateShown
