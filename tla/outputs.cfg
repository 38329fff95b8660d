CONSTANTS
    PANEL_LOOP_CONTROL = FALSE
    CallsMayFail = TRUE
SPECIFICATION Spec
INVARIANTS
    OutputsAreBacked
    FailsClosed
CHECK_DEADLOCK FALSE
