SPECIFICATION DeviceSpec
CONSTANTS
    MaxUploads = 3
    MaxUpsets = 2
INVARIANTS
    Recoverable
PROPERTIES
    StaysReachable
    AcceptedIsTried
