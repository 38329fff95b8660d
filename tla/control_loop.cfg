CONSTANTS
    PANEL_LOOP_CONTROL = TRUE
    MirrorMayFail = {}
    LinkFresh = 1
    ConfirmTimeout = 2
    MaxSequence = 3
    MainFrames <- NoFrames
    PanelFrames <- NoFrames
    Requests <- SettledRequests
    Starts <- SettledStarts
    Presses <- NoPress
SPECIFICATION PromptSpec
PROPERTIES
    ConfirmedIsObeyed
    EchoNeverCancels
    CommandsConfirmed
