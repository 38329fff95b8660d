--------------------------- MODULE BridgeControl ----------------------------
(***************************************************************************)
(* The command path of main/bridge_service.c in its MITM profile: a remote *)
(* command becomes an overlay, the overlay is shown to the display panel   *)
(* (or takes over the panel's line to the main board), and the command     *)
(* ends confirmed by the main board, cancelled by the physical panel, or   *)
(* timed out.                                                              *)
(*                                                                         *)
(* Five tasks share s_overlay and s_state under the spinlock s_lock: the   *)
(* two stream tasks (link_main, link_panel), control_takeover,             *)
(* control_watchdog, and whichever task calls bridge_service_queue_control *)
(* (the HTTP, MQTT and Zigbee services).  A step of the model is one       *)
(* critical section with the code up to the next one; a task that can be   *)
(* overtaken between two of its critical sections keeps what it copied in  *)
(* mainTask, panelTask or takeover.  Restoring the mirror is part of the   *)
(* step that decides it: on this single core no task that could queue or   *)
(* take over a command runs between the two.                               *)
(*                                                                         *)
(* Time is counted in ticks.  A time stamp is kept as its age, which stops *)
(* counting where the code no longer tells ages apart.                     *)
(***************************************************************************)
EXTENDS AcProtocol

CONSTANTS
    PANEL_LOOP_CONTROL,  \* KLIMA_PANEL_LOOP_CONTROL, TRUE in the shipped profile
    LinkFresh,           \* BRIDGE_LINK_FRESH_MS, in ticks
    ConfirmTimeout,      \* BRIDGE_COMMAND_CONFIRM_TIMEOUT_MS, in ticks
    MaxSequence,         \* bound: commands queued in a behaviour
    MirrorMayFail,       \* the settings of the mirror that may fail to be made
    MainFrames,          \* complete frames the main board may send
    PanelFrames,         \* complete frames the panel may send
    Requests             \* requests the services may queue

ASSUME SwitchesAssumption ==
    /\ PANEL_LOOP_CONTROL \in BOOLEAN
    /\ MirrorMayFail \subseteq BOOLEAN

ASSUME TimesAssumption ==
    /\ LinkFresh \in Nat
    /\ ConfirmTimeout \in Nat \ {0}
    /\ MaxSequence \in Nat

\* A frame whose checksum is wrong never reaches the handlers below.
ASSUME FramesAssumption ==
    /\ MainFrames \subseteq Frame
    /\ PanelFrames \subseteq Frame
    /\ \A f \in MainFrames \cup PanelFrames : f.sum

ASSUME RequestsAssumption ==
    \A req \in Requests : IsRequest(req) /\ DOMAIN req # {}

VARIABLES
    overlay,        \* s_overlay, all but its request
    request,        \* s_overlay.request
    state,          \* s_state, what every service reports
    mirror,         \* s_panel_to_main_hardware_mirror_enabled
    hardwareReady,  \* s_hardware_ready
    mainAge,        \* now - s_main_frame_time_us
    panelAge,       \* now - s_panel_frame_time_us
    lineIdle,       \* now - s_panel_last_byte_us has reached the frame gap
    mainTask,       \* locals of the link_main task
    panelTask,      \* locals of the link_panel task
    takeover        \* what control_takeover has gated and not yet committed

vars == <<overlay, request, state, mirror, hardwareReady, mainAge, panelAge,
          lineIdle, mainTask, panelTask, takeover>>

linkVars == <<mainAge, panelAge, lineIdle>>

Status == {"idle", "pending", "confirmed", "cancelled", "timed_out"}

\* The age of a time stamp that is zero.
NoTime == -1

Overlay == [active : BOOLEAN, event_pending : BOOLEAN,
            confirmation_pending : BOOLEAN, takeover_pending : BOOLEAN,
            takeover_ready : BOOLEAN, sequence : Nat,
            queued : {NoTime} \cup 0..ConfirmTimeout]

\* The state every front end reads.  Power, mode, fan, features and display
\* temperature are all read off the last main frame, kept whole as main_raw;
\* "injected" says that injected_frames is not zero.
AcState == [main_valid : BOOLEAN, main_raw : Frame,
            panel_valid : BOOLEAN, panel_raw : Frame,
            setpoint_c : Byte, injected : BOOLEAN,
            override_active : BOOLEAN, command_pending : BOOLEAN,
            command_status : Status, command_sequence : Nat]

MainTask == [pc : {"idle", "copied", "forwarded"}, frame : Frame,
             out : Frame]

PanelTask == [pc : {"idle", "receiving", "checked"}, frame : Frame,
              out : Frame, injected : BOOLEAN]

TypeOK ==
    /\ overlay \in Overlay
    /\ IsRequest(request)
    /\ state \in AcState
    /\ mirror \in BOOLEAN
    /\ hardwareReady \in BOOLEAN
    /\ mainAge \in 0..(LinkFresh + 1)
    /\ panelAge \in 0..(LinkFresh + 1)
    /\ lineIdle \in BOOLEAN
    /\ mainTask \in MainTask
    /\ panelTask \in PanelTask
    /\ takeover \in {"idle", "gated", "failed"}

ZeroFrame == [event |-> FALSE, code |-> 0, power |-> FALSE, quiet |-> FALSE,
              units |-> FALSE, timer |-> FALSE, temp |-> 0, encoded |-> 0,
              rest |-> 0, sum |-> TRUE]

\* A task between two frames remembers nothing of the last one.
IdleMainTask == [pc |-> "idle", frame |-> ZeroFrame, out |-> ZeroFrame]

IdlePanelTask == [pc |-> "idle", frame |-> ZeroFrame, out |-> ZeroFrame,
                  injected |-> FALSE]

\* bridge_service_start with its tasks created: no frame seen, output stages
\* off, the panel's line to the main board carried by the hardware mirror.
Init ==
    /\ overlay = [active |-> FALSE, event_pending |-> FALSE,
                  confirmation_pending |-> FALSE, takeover_pending |-> FALSE,
                  takeover_ready |-> FALSE, sequence |-> 0, queued |-> NoTime]
    /\ request = EmptyRequest
    /\ state = [main_valid |-> FALSE, main_raw |-> ZeroFrame,
                panel_valid |-> FALSE, panel_raw |-> ZeroFrame,
                setpoint_c |-> 0, injected |-> FALSE,
                override_active |-> FALSE, command_pending |-> FALSE,
                command_status |-> "idle", command_sequence |-> 0]
    /\ mirror = TRUE
    /\ hardwareReady = FALSE
    /\ mainAge = LinkFresh + 1
    /\ panelAge = LinkFresh + 1
    /\ lineIdle = TRUE
    /\ mainTask = IdleMainTask
    /\ panelTask = IdlePanelTask
    /\ takeover = "idle"

-----------------------------------------------------------------------------
(* Shared pieces of the handlers *)

\* Mutant: an ended command still waits for its confirmation.
ClosedButWaiting(o) == [o EXCEPT !.active = FALSE,
                                 !.takeover_pending = FALSE, !.takeover_ready = FALSE]

\* The flags every end of a command clears; what else is cleared differs.
Closed(o) == [o EXCEPT !.active = FALSE, !.confirmation_pending = FALSE,
                       !.takeover_pending = FALSE, !.takeover_ready = FALSE]

Reported(s, status) == [s EXCEPT !.override_active = FALSE,
                                 !.command_pending = FALSE,
                                 !.command_status = status]

\* A change of the mirror fails as a whole or succeeds; asking for what it
\* already is returns at once.  OutputStage has its steps.
SetMirror(enabled) ==
    \/ mirror' = enabled
    \/ enabled \in MirrorMayFail /\ mirror' = mirror

LinksFresh == /\ state.main_valid /\ state.panel_valid
              /\ mainAge <= LinkFresh /\ panelAge <= LinkFresh

-----------------------------------------------------------------------------
(* The services *)

\* app_main reports the outcome of the output-stage self test; until it has
\* reported a good one no command is accepted.
SetHardwareReady(ready) ==
    /\ ~hardwareReady
    /\ hardwareReady' = ready
    /\ IF ~ready /\ overlay.active
       THEN /\ overlay' = [Closed(overlay) EXCEPT !.event_pending = FALSE,
                                                  !.queued = NoTime]
            /\ state' = Reported(state, "cancelled")
       ELSE UNCHANGED <<overlay, state>>
    /\ IF ready THEN mirror' = mirror ELSE SetMirror(TRUE)
    /\ UNCHANGED <<request, linkVars, mainTask, panelTask, takeover>>

\* A target is accepted only for Cool: the mode requested with it, or else the
\* mode the main board last reported.
TargetAllowed(req) ==
    "setpoint" \in DOMAIN req =>
        Requested(req, "mode", ModeOf(state.main_raw.code)) = AC_MODE_COOL

Accepts(req) ==
    /\ hardwareReady
    /\ ValidRequest(req)
    /\ "timer" \notin DOMAIN req
    /\ LinksFresh
    /\ TargetAllowed(req)

\* Mutant: fields of an ended command are merged into the next.
PendingForever == request

\* A command queued while another is pending adds to it.
PendingRequest == IF overlay.active THEN request ELSE EmptyRequest

\* bridge_service_queue_control for a request it accepts; a rejected one
\* changes nothing.
QueueControl(req) ==
    /\ overlay.sequence < MaxSequence
    /\ Accepts(req)
    /\ request' = Merge(PendingRequest, req)
    /\ overlay' = [active |-> TRUE, event_pending |-> TRUE,
                   confirmation_pending |-> TRUE,
                   takeover_pending |-> ~PANEL_LOOP_CONTROL,
                   takeover_ready |-> FALSE,
                   sequence |-> overlay.sequence + 1, queued |-> 0]
    /\ state' = [state EXCEPT !.override_active = TRUE,
                              !.command_pending = TRUE,
                              !.command_status = "pending",
                              !.command_sequence = overlay.sequence + 1]
    /\ UNCHANGED <<mirror, hardwareReady, linkVars, mainTask, panelTask, takeover>>
-----------------------------------------------------------------------------
(* The link_main task: one main frame, from its last byte to its effects *)

\* The overlay is copied under the lock, the status written from the copy.
MainFrameReceived(f) ==
    LET forged == PANEL_LOOP_CONTROL /\ overlay.active /\ CanApply(f, request)
    IN  /\ mainTask.pc = "idle"
        /\ mainTask' = [pc |-> "copied", frame |-> f,
                        out |-> IF forged
                                THEN ApplyControlMain(f, request, overlay.event_pending)
                                ELSE f]
        /\ UNCHANGED <<overlay, request, state, mirror, hardwareReady, linkVars,
                       panelTask, takeover>>

\* Mutant: the state is updated from what the panel was shown.
ForwardedIsBelieved ==
    /\ mainTask.pc = "copied"
    /\ mainTask' = [IdleMainTask EXCEPT !.pc = "forwarded", !.frame = mainTask.out]
    /\ UNCHANGED <<overlay, request, state, mirror, hardwareReady, linkVars,
                   panelTask, takeover>>

\* uart_write_bytes hands mainTask.out to the panel.
MainFrameForwarded ==
    /\ mainTask.pc = "copied"
    /\ mainTask' = [IdleMainTask EXCEPT !.pc = "forwarded", !.frame = mainTask.frame]
    /\ UNCHANGED <<overlay, request, state, mirror, hardwareReady, linkVars,
                   panelTask, takeover>>

\* update_main_state: the report follows the frame, and a frame that shows
\* everything requested ends the command.
MainStateUpdated ==
    LET f == mainTask.frame
        seen == [state EXCEPT !.main_valid = TRUE, !.main_raw = f,
                              !.setpoint_c = IF ModeOf(f.code) = AC_MODE_COOL
                                             THEN f.temp ELSE @]
    IN  /\ mainTask.pc = "forwarded"
        /\ mainTask' = IdleMainTask
        /\ mainAge' = 0
        /\ IF overlay.confirmation_pending /\ MainConfirms(f, request)
           THEN /\ overlay' = [Closed(overlay) EXCEPT !.event_pending = FALSE,
                                                      !.queued = NoTime]
                /\ request' = EmptyRequest
                /\ state' = Reported(seen, "confirmed")
                /\ SetMirror(TRUE)
           ELSE /\ state' = seen
                /\ UNCHANGED <<overlay, request, mirror>>
        /\ UNCHANGED <<hardwareReady, panelAge, lineIdle, panelTask, takeover>>

-----------------------------------------------------------------------------
(* The link_panel task: one panel frame, from its first byte to its effects *)

\* What the main board receives when the panel sends f: the mirror carries the
\* panel's own frame; with the mirror gated the UART sends the replacement
\* prepared from the last panel frame, or else repeats the panel's bytes.
ToMain(f) ==
    IF /\ ~mirror /\ state.panel_valid
       /\ overlay.active /\ overlay.takeover_ready
       /\ CanApply(state.panel_raw, request)
    THEN ApplyControl(state.panel_raw, request, overlay.event_pending)
    ELSE f

PanelFrameStarted(f) ==
    /\ panelTask.pc = "idle"
    /\ panelTask' = [pc |-> "receiving", frame |-> f, out |-> ToMain(f),
                     injected |-> FALSE]
    /\ lineIdle' = FALSE
    /\ UNCHANGED <<overlay, request, state, mirror, hardwareReady, mainAge,
                   panelAge, mainTask, takeover>>

\* No byte has come from the panel for the length of the frame gap.
PanelLineIdle ==
    /\ ~lineIdle
    /\ lineIdle' = TRUE
    /\ UNCHANGED <<overlay, request, state, mirror, hardwareReady, mainAge,
                   panelAge, mainTask, panelTask, takeover>>

\* A gap that long inside a frame is bridged when the next byte comes before
\* the task looks at the clock.
PanelLineResumes ==
    /\ panelTask.pc = "receiving" /\ lineIdle
    /\ lineIdle' = FALSE
    /\ UNCHANGED <<overlay, request, state, mirror, hardwareReady, mainAge,
                   panelAge, mainTask, panelTask, takeover>>

\* Otherwise the frame interrupted for that long is dropped.
PanelFrameTimedOut ==
    /\ panelTask.pc = "receiving"
    /\ lineIdle
    /\ panelTask' = IdlePanelTask
    /\ UNCHANGED <<overlay, request, state, mirror, hardwareReady, linkVars,
                   mainTask, takeover>>

\* Mutant: the panel's echo of a shown command counts as a button pressed.
AnyChange(f) ==
    /\ f.event
    /\ state.panel_valid /\ Payload(f) # Payload(state.panel_raw)

\* The panel really changed something: an event frame whose payload differs
\* from the last one and is not the echo of what the panel was shown.
PhysicalChange(f) ==
    /\ f.event
    /\ state.panel_valid /\ Payload(f) # Payload(state.panel_raw)
    /\ ~(PANEL_LOOP_CONTROL /\ PanelMatches(f, request))

PanelFrameReceived ==
    LET f == panelTask.frame
        cancel == overlay.active /\ PhysicalChange(f)
        after  == IF cancel THEN Closed(overlay) ELSE overlay
    IN  /\ panelTask.pc = "receiving"
        /\ ~lineIdle
        /\ overlay' = [after EXCEPT !.event_pending =
                            @ /\ (PANEL_LOOP_CONTROL \/ ~after.active)]
        /\ state' = IF cancel THEN Reported(state, "cancelled") ELSE state
        /\ IF cancel THEN SetMirror(TRUE) ELSE mirror' = mirror
        /\ panelTask' = [panelTask EXCEPT !.pc = "checked", !.out = ZeroFrame,
                            !.injected = /\ after.active /\ after.takeover_ready
                                         /\ CanApply(f, request)]
        /\ UNCHANGED <<request, hardwareReady, linkVars, mainTask, takeover>>

\* update_panel_state: the target follows the panel.
PanelStateUpdated ==
    /\ panelTask.pc = "checked"
    /\ panelTask' = IdlePanelTask
    /\ panelAge' = 0
    /\ state' = [state EXCEPT !.panel_valid = TRUE,
                              !.panel_raw = panelTask.frame,
                              !.setpoint_c = panelTask.frame.temp,
                              !.injected = @ \/ panelTask.injected]
    /\ UNCHANGED <<overlay, request, mirror, hardwareReady, mainAge, lineIdle,
                   mainTask, takeover>>

-----------------------------------------------------------------------------
(* The control_takeover and control_watchdog tasks, and time *)

\* The highest-priority task gates the mirror in an idle gap of the line.
TakeoverGate ==
    /\ takeover = "idle"
    /\ overlay.active /\ overlay.takeover_pending
    /\ lineIdle
    /\ SetMirror(FALSE)
    /\ takeover' = IF mirror' THEN "failed" ELSE "gated"
    /\ UNCHANGED <<overlay, request, state, hardwareReady, linkVars, mainTask,
                   panelTask>>

TakeoverCommit ==
    /\ takeover # "idle"
    /\ takeover' = "idle"
    /\ CASE takeover = "gated" /\ overlay.active /\ overlay.takeover_pending ->
                /\ overlay' = [overlay EXCEPT !.takeover_pending = FALSE,
                                              !.takeover_ready = TRUE]
                /\ state' = state
         [] takeover = "failed" /\ overlay.active ->
                /\ overlay' = [Closed(overlay) EXCEPT !.event_pending = FALSE]
                /\ state' = Reported(state, "cancelled")
         [] OTHER -> UNCHANGED <<overlay, state>>
    /\ UNCHANGED <<request, mirror, hardwareReady, linkVars, mainTask, panelTask>>

\* Mutant: a command that ended otherwise still times out.
WatchdogOfEnded ==
    /\ overlay.queued = ConfirmTimeout
    /\ overlay' = [Closed(overlay) EXCEPT !.event_pending = FALSE, !.queued = NoTime]
    /\ request' = EmptyRequest
    /\ state' = Reported(state, "timed_out")
    /\ SetMirror(TRUE)
    /\ UNCHANGED <<hardwareReady, linkVars, mainTask, panelTask, takeover>>

\* Mutant: a timed-out command keeps the line.
WatchdogKeepsLine ==
    /\ overlay.confirmation_pending
    /\ overlay.queued = ConfirmTimeout
    /\ overlay' = [Closed(overlay) EXCEPT !.event_pending = FALSE, !.queued = NoTime]
    /\ request' = EmptyRequest
    /\ state' = Reported(state, "timed_out")
    /\ UNCHANGED <<mirror, hardwareReady, linkVars, mainTask, panelTask, takeover>>

\* Mutant: a command only times out while both links are alive.
WatchdogOfLiveLinks ==
    /\ overlay.confirmation_pending /\ LinksFresh
    /\ overlay.queued = ConfirmTimeout
    /\ overlay' = [Closed(overlay) EXCEPT !.event_pending = FALSE, !.queued = NoTime]
    /\ request' = EmptyRequest
    /\ state' = Reported(state, "timed_out")
    /\ SetMirror(TRUE)
    /\ UNCHANGED <<hardwareReady, linkVars, mainTask, panelTask, takeover>>

\* control_watchdog_task: a command unanswered for too long is given up.
Watchdog ==
    /\ overlay.confirmation_pending
    /\ overlay.queued = ConfirmTimeout
    /\ overlay' = [Closed(overlay) EXCEPT !.event_pending = FALSE, !.queued = NoTime]
    /\ request' = EmptyRequest
    /\ state' = Reported(state, "timed_out")
    /\ SetMirror(TRUE)
    /\ UNCHANGED <<hardwareReady, linkVars, mainTask, panelTask, takeover>>

Older(age, cap) == IF age \in {NoTime, cap} THEN age ELSE age + 1

Tick ==
    /\ overlay' = [overlay EXCEPT !.queued = Older(@, ConfirmTimeout)]
    /\ mainAge' = Older(mainAge, LinkFresh + 1)
    /\ panelAge' = Older(panelAge, LinkFresh + 1)
    /\ UNCHANGED <<request, state, mirror, hardwareReady, lineIdle, mainTask,
                   panelTask, takeover>>

-----------------------------------------------------------------------------

Services == \/ \E ready \in BOOLEAN : SetHardwareReady(ready)
            \/ \E req \in Requests : QueueControl(req)

LinkMain == \/ \E f \in MainFrames : MainFrameReceived(f)
            \/ MainFrameForwarded
            \/ MainStateUpdated

LinkPanel == \/ \E f \in PanelFrames : PanelFrameStarted(f)
             \/ PanelLineIdle
             \/ PanelLineResumes
             \/ PanelFrameTimedOut
             \/ PanelFrameReceived
             \/ PanelStateUpdated

Next == \/ Services
        \/ LinkMain
        \/ LinkPanel
        \/ TakeoverGate
        \/ TakeoverCommit
        \/ Watchdog
        \/ Tick

Spec == Init /\ [][Next]_vars

-----------------------------------------------------------------------------
(* Properties *)

\* s_overlay and the command fields of s_state are written by six handlers, in
\* different combinations.  Between critical sections they tell one story: an
\* overlay is active exactly while its command is reported pending, it then
\* has a start time, something to ask for and two live links, and a takeover
\* flag never outlives its command.
OverlayAgreement ==
    /\ overlay.active <=> state.command_status = "pending"
    /\ overlay.active <=> overlay.confirmation_pending
    /\ overlay.active <=> state.override_active
    /\ overlay.active <=> state.command_pending
    /\ state.command_sequence = overlay.sequence
    /\ overlay.active =>
            /\ overlay.queued # NoTime
            /\ DOMAIN request # {}
            /\ hardwareReady /\ state.main_valid /\ state.panel_valid
    /\ overlay.takeover_pending \/ overlay.takeover_ready => overlay.active
    /\ ~(overlay.takeover_pending /\ overlay.takeover_ready)

\* In the shipped profile the panel's line to the main board is never taken
\* from the hardware mirror and no panel frame is ever replaced, whatever
\* commands come and however they end.
PanelLineUntouched ==
    PANEL_LOOP_CONTROL =>
        /\ mirror /\ takeover = "idle"
        /\ ~state.injected /\ ~panelTask.injected

\* A queued command gets one outcome: its status leaves "pending" once, and a
\* final status changes only when a command with a new sequence number is
\* queued, whichever of main board, panel, watchdog and takeover comes first.
SingleResolution ==
    [][state'.command_status # state.command_status =>
        \/ /\ state.command_status = "pending"
           /\ state'.command_sequence = state.command_sequence
        \/ /\ state'.command_status = "pending"
           /\ state'.command_sequence = state.command_sequence + 1]_vars

\* What the services report of the appliance has all a request asks for; a fan
\* speed has a meaning in Cool only.
Shows(s, req) ==
    LET f == s.main_raw
    IN  /\ "power" \in DOMAIN req => f.power = req.power
        /\ "setpoint" \in DOMAIN req => s.setpoint_c = req.setpoint
        /\ "mode" \in DOMAIN req => ModeOf(f.code) = req.mode
        /\ "fan" \in DOMAIN req =>
                FanOf(f.code) = req.fan \/ ModeOf(f.code) # AC_MODE_COOL
        /\ "raw" \in DOMAIN req => MainToPanel(f.code) = MainToPanel(req.raw)
        /\ \A flag \in FlagField \cap DOMAIN req : f[flag] = req[flag]

\* A command becomes confirmed only together with a report in which everything
\* merged into it shows: the target the services report is then the requested
\* one, whichever of panel and main board wrote it last.
ConfirmedIsReported ==
    [][(state'.command_status = "confirmed" /\ state.command_status # "confirmed") =>
        Shows(state', request)]_vars

\* A command queued when none is pending asks for exactly its own fields: no
\* field of an earlier one survives, however the earlier one ended.
StartsFromScratch ==
    [][(overlay'.sequence # overlay.sequence /\ ~overlay.active) =>
        \E req \in Requests : request' = req]_vars

\* Every pending command ends or is merged into a later one, even if both
\* links fall silent.
CommandEnds ==
    \A n \in 1..MaxSequence :
        (overlay.active /\ overlay.sequence = n)
            ~> ~(overlay.active /\ overlay.sequence = n)

\* With PANEL_LOOP_CONTROL off: the mirror is gated only while a command needs
\* it, so a command that ended has given the line back.
LineReturned ==
    ~mirror => overlay.active

\* Some status of the main board would confirm the request.
Satisfiable(req) ==
    \E code \in Byte :
        MainConfirms([ZeroFrame EXCEPT !.code = code,
                                       !.power = Requested(req, "power", @),
                                       !.temp = Requested(req, "setpoint", @),
                                       !.quiet = Requested(req, "quiet", @),
                                       !.units = Requested(req, "units", @),
                                       !.timer = Requested(req, "timer", @)], req)

\* What is pending can be confirmed: commands merged into one overlay never
\* contradict each other.
PendingIsSatisfiable == overlay.active => Satisfiable(request)
=============================================================================
