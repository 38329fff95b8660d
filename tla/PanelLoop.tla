----------------------------- MODULE PanelLoop ------------------------------
(***************************************************************************)
(* BridgeControl closed over the two devices it sits between.  A remote    *)
(* command travels a loop: the firmware shows the panel a main-board       *)
(* status that carries the command, the panel takes it for the appliance's *)
(* state and repeats it on its own line, the hardware mirror carries that  *)
(* frame to the main board, and the main board's answer confirms.          *)
(*                                                                         *)
(* The panel and the main board are not part of the repository.  They are  *)
(* modelled from what the firmware expects of them: the panel adopts a     *)
(* status that carries the event marker and repeats its own state with the *)
(* marker set; the main board obeys the panel's frames, answers with the   *)
(* main-side code, and marks the first answer after a change.              *)
(***************************************************************************)
EXTENDS BridgeControl

CONSTANTS
    Starts,  \* the states of the two devices when the firmware starts
    Presses  \* the states a person may key in at the panel

ASSUME DevicesAssumption ==
    /\ Starts \subseteq [panel : Frame, board : Frame]
    /\ Presses \subseteq Frame

VARIABLES
    panel,   \* the panel's own state, as the frame it sends
    board    \* the main board's own state, as the frame it sends

loopVars == <<vars, panel, board>>

\* Outside Cool a device's target is not the frame's: it keeps its own.
TargetFrom(f, own) ==
    IF ModeOf(f.code) = AC_MODE_COOL
    THEN f ELSE [f EXCEPT !.temp = own.temp, !.encoded = own.encoded]

\* The panel believes a marked status.
PanelAdopts(status) ==
    IF status.event
    THEN [TargetFrom(status, panel) EXCEPT !.code = MainToPanel(@)]
    ELSE panel

\* The main board obeys the panel.
BoardObeys(f) ==
    LET next == [TargetFrom(f, board) EXCEPT !.code = PanelToMain(@)]
    IN  [next EXCEPT !.event = board.event \/ Payload(next) # Payload(board)]

LoopInit == Init /\ \E s \in Starts : panel = s.panel /\ board = s.board

\* A person changes the panel's state.
Press ==
    /\ \E p \in Presses : panel' = [p EXCEPT !.event = TRUE] /\ panel # panel'
    /\ UNCHANGED <<vars, board>>

PanelSends ==
    /\ PanelFrameStarted(panel)
    /\ UNCHANGED <<panel, board>>

\* The last byte reaches the main board and the firmware together.
PanelSent ==
    /\ PanelFrameReceived
    /\ board' = BoardObeys(panelTask.out)
    /\ panel' = panel

BoardSends ==
    /\ MainFrameReceived(board)
    /\ board' = [board EXCEPT !.event = FALSE]
    /\ panel' = panel

PanelIsShown ==
    /\ MainFrameForwarded
    /\ panel' = PanelAdopts(mainTask.out)
    /\ board' = board

Inside(A) == A /\ UNCHANGED <<panel, board>>

LoopNext ==
    \/ Press
    \/ PanelSends
    \/ BoardSends
    \/ PanelIsShown
    \/ Inside(Services)
    \/ Inside(MainStateUpdated)
    \/ PanelSent
    \/ Inside(PanelStateUpdated)
    \/ Inside(Watchdog)
    \/ Inside(Tick)

LoopSpec == LoopInit /\ [][LoopNext]_loopVars

\* Time passes and the watchdog task is scheduled: it only ever sleeps 100 ms.
\* Nothing is assumed of the devices, which may fall silent.
WatchedSpec ==
    LoopSpec /\ WF_loopVars(Inside(Tick)) /\ WF_loopVars(Inside(Watchdog))

\* A client that waits for the outcome of one command before it sends another,
\* as the validation tool does.
QueueAlone ==
    /\ ~overlay.active
    /\ \E req \in Requests : QueueControl(req)

\* Both links stay alive and answer well within the confirmation timeout: the
\* watchdog has no reason to end a command.  Time need not pass.
PromptNext ==
    \/ PanelSends
    \/ BoardSends
    \/ PanelIsShown
    \/ Inside(SetHardwareReady(TRUE))
    \/ Inside(QueueAlone)
    \/ Inside(MainStateUpdated)
    \/ PanelSent
    \/ Inside(PanelStateUpdated)

PromptSpec ==
    /\ LoopInit /\ [][PromptNext]_loopVars
    /\ WF_loopVars(PanelSends) /\ WF_loopVars(PanelSent)
    /\ WF_loopVars(Inside(PanelStateUpdated))
    /\ WF_loopVars(BoardSends) /\ WF_loopVars(PanelIsShown)
    /\ WF_loopVars(Inside(MainStateUpdated))

-----------------------------------------------------------------------------
(* What the firmware leaves alone *)

\* The mode/fan codes requested_mode_fan writes.
WrittenCodes == {49, 51, 34, 67}

\* Two devices that agree, in a state the firmware itself could have asked for
\* and with a display temperature the target could have: overlaying a request
\* this state already satisfies would change nothing.
Settled(s) ==
    LET p == s.panel
        b == s.board
    IN  /\ p.sum /\ b.sum
        /\ p.code \in WrittenCodes /\ b.code = PanelToMain(p.code)
        /\ ValidSetpoint(b.temp) /\ b.encoded = EncodeSetpoint(b.temp)
        /\ \A field \in {"power", "rest"} \cup FlagField : p[field] = b[field]
        /\ ModeOf(b.code) = AC_MODE_COOL => p.temp = b.temp /\ p.encoded = b.encoded

\* A request in range that does not contradict itself, its raw code one the
\* firmware writes.
Plain(req) ==
    /\ ValidRequest(req)
    /\ "raw" \in DOMAIN req =>
            /\ req.raw \in WrittenCodes
            /\ DOMAIN req \cap {"mode", "fan"} = {}
            /\ "setpoint" \in DOMAIN req => ModeOf(req.raw) = AC_MODE_COOL

-----------------------------------------------------------------------------
(* Properties *)

\* While both links are alive the loop closes for each of several commands,
\* every one queued when the one before it was confirmed, however much of that
\* one is still on its way: the status shown for it makes the panel ask for it,
\* the main board obey it, and its answer satisfy the confirmation rule.
CommandsConfirmed ==
    \A n \in 1..MaxSequence :
        (state.command_status = "pending" /\ overlay.sequence = n)
            ~> (state.command_status = "confirmed" /\ overlay.sequence = n)

\* "A physical panel event cancels the pending override": with nobody at the
\* panel no command is cancelled, so the panel's echo of this command or of the
\* one before it is never mistaken for somebody pressing a button.
EchoNeverCancels ==
    [][state'.command_status = "cancelled" => state.command_status = "cancelled"]_loopVars

\* docs/PROTOCOL.md of the display or ambient value which the main board shows
\* for a target in Fan and Dry: "The firmware therefore retains target
\* temperature from panel state and does not present these main bytes as a target
\* outside Cool".  So the value has no say in what a command does, and the
\* appliance changes its mode only while a command that names one is pending.
ModeChangesAreAsked ==
    [][ModeOf(board'.code) # ModeOf(board.code) =>
        overlay.active /\ {"mode", "raw"} \cap DOMAIN request # {}]_loopVars

\* "Confirmed" is the truth: at that moment the appliance itself has obeyed all
\* that was asked, though the firmware never speaks to it directly and has
\* several older frames of both devices still in flight.
ConfirmedIsObeyed ==
    [][(state'.command_status = "confirmed" /\ state.command_status # "confirmed") =>
        MainConfirms(board, request)]_loopVars

\* A flag of the appliance changes only to what somebody requested or keyed
\* in: overlaying a command on a status leaves all its other fields alone.
NothingElseChanges ==
    [][\A flag \in FlagField : board'[flag] # board[flag] =>
        \/ \E req \in Requests : flag \in DOMAIN req /\ req[flag] = board'[flag]
        \/ \E p \in Presses : p[flag] = board'[flag]]_loopVars
=============================================================================
