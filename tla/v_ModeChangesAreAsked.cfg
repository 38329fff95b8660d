CONSTANTS
    PANEL_LOOP_CONTROL = TRUE
    MirrorMayFail = {}
    LinkFresh = 1
    ConfirmTimeout = 2
    MaxSequence = 1
    MainFrames <- NoFrames
    PanelFrames <- NoFrames
    Requests <- PowerRequests
    Starts <- ChillyFan
    Presses <- NoPress
SPECIFICATION PromptSpec
PROPERTIES
    ModeChangesAreAsked
