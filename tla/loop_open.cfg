CONSTANTS
    PANEL_LOOP_CONTROL = TRUE
    MirrorMayFail = {}
    LinkFresh = 1
    ConfirmTimeout = 2
    MaxSequence = 2
    MainFrames <- NoFrames
    PanelFrames <- NoFrames
    Requests <- FlagRequests
    Starts <- RunningStart
    Presses <- UserOff
SPECIFICATION WatchedSpec
INVARIANTS
    OverlayAgreement
PROPERTIES
    SingleResolution
    NothingElseChanges
    CommandEnds
