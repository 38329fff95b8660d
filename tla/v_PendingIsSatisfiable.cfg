CONSTANTS
    PANEL_LOOP_CONTROL = TRUE
    MirrorMayFail = {}
    LinkFresh = 1
    ConfirmTimeout = 2
    MaxSequence = 2
    MainFrames <- MCMainFrames
    PanelFrames <- MCPanelFrames
    Requests <- MCRequests
SPECIFICATION Spec
INVARIANTS
    PendingIsSatisfiable
