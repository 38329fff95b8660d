CONSTANTS
    PANEL_LOOP_CONTROL = FALSE
    MirrorMayFail = {FALSE}
    LinkFresh = 1
    ConfirmTimeout = 2
    MaxSequence = 2
    MainFrames <- MCMainFrames
    PanelFrames <- MCTakeoverPanelFrames
    Requests <- MCTakeoverRequests
SPECIFICATION Spec
INVARIANTS
    TypeOK
    OverlayAgreement
    LineReturned
PROPERTIES
    SingleResolution
    ConfirmedIsReported
    StartsFromScratch
