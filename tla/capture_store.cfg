CONSTANTS
    Sectors = 3
    SectorSlots = 2
    QueueLength = 1
    MaxSequence = 8
SPECIFICATION Spec
INVARIANTS
    NumbersUnique
    CatalogMatchesFlash
PROPERTIES
    IsLog
    ExportSkipsNothing
