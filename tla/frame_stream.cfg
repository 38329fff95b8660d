SPECIFICATION Spec
CONSTANTS
    Bits = {1, 2}
    HEADER_0 = {1}
    HEADER_1 = {2}
    PANEL_LENGTH = {1, 2}
    MAIN_LENGTH = {}
    XOR_TARGET = {2}
    Data = {{}, {1}}
    PanelBody = 1
    MainBody = 2
    Timeout = 2
    Late = 1
    Gap = 4
    MaxFaults = 2
INVARIANTS
    NoFrameIsMadeUp
    LossIsCounted
    OneVoice
PROPERTIES
    IsFrameLink
