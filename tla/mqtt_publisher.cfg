CONSTANTS
    Controls = 1
    Diagnostics = 1
    OutboxLimit = 2
    MaxCommands = 1
    MaxUpsets = 1
SPECIFICATION Spec
INVARIANTS
    AppliedOnce
PROPERTIES
    StateArrives
    DiscoveryArrives
    AvailabilityArrives
