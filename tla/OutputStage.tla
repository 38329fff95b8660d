---------------------------- MODULE OutputStage -----------------------------
(***************************************************************************)
(* How the firmware takes hold of the appliance's lines: app_main of       *)
(* main/main.c, the level shifter's self test of main/nts0104_preflight.c, *)
(* and the panel-to-main route of main/bridge_service.c, which is either   *)
(* the hardware mirror (two event channels, one per edge) or the UART.     *)
(*                                                                         *)
(* app_main runs each step after the one before, at the lowest priority:   *)
(* the HTTP service and the tasks already created run in between.  Any     *)
(* call into a driver may return an error, and every error has a branch.   *)
(* In one change of the route at most one driver call fails by itself.     *)
(***************************************************************************)
EXTENDS Integers

CONSTANTS
    PANEL_LOOP_CONTROL,  \* no command takes the line, TRUE in the shipped profile
    CallsMayFail         \* whether driver calls may return errors

ASSUME StageAssumption ==
    /\ PANEL_LOOP_CONTROL \in BOOLEAN
    /\ CallsMayFail \in BOOLEAN

VARIABLES
    boot,           \* where app_main is
    oe,             \* the level shifter's output enable
    preflight,      \* s_ctx.status of the self test
    route,          \* what drives MAIN_TX_GPIO, and s_panel_to_main_..._enabled
    tasks,          \* how many of the bridge's tasks run, in their order
    hardwareReady,  \* s_hardware_ready
    everTaken       \* history: a command has taken the line since the start

stageVars == <<boot, oe, preflight, route, tasks, hardwareReady, everTaken>>

\* link_panel, link_main, control_takeover, control_watchdog, bridge_health
AllTasks == 5

TakeoverTask == 3

Channel == {"none", "off", "on"}

\* The UART on the pad, the two channels, and the flag that says which drives.
Route == [uart : BOOLEAN, rise : Channel, fall : Channel, mirrored : BOOLEAN]

\* nts0104_preflight_status_t
Preflight == [initialized : BOOLEAN, self_test_passed : BOOLEAN, oe_enabled : BOOLEAN]

StageTypeOK ==
    /\ boot \in {"reset", "preflight", "main_rx", "mirror", "panel_uart", "main_uart",
                 "tasks", "self_test", "enable", "enabled", "started",
                 "failing", "refusing", "closed", "ended"}
    /\ oe \in {"undriven", "low", "high"}
    /\ preflight \in Preflight
    /\ route \in Route
    /\ tasks \in 0..AllTasks
    /\ hardwareReady \in BOOLEAN
    /\ everTaken \in BOOLEAN

Init ==
    /\ boot = "reset"
    /\ oe = "undriven"
    /\ preflight = [initialized |-> FALSE, self_test_passed |-> FALSE,
                    oe_enabled |-> FALSE]
    /\ route = [uart |-> FALSE, rise |-> "none", fall |-> "none", mirrored |-> FALSE]
    /\ tasks = 0
    /\ hardwareReady = FALSE
    /\ everTaken = FALSE

-----------------------------------------------------------------------------
(* The panel-to-main route *)

\* Enabling is possible for channels that exist and are off.
BothOff == route.rise = "off" /\ route.fall = "off"

\* set_panel_to_main_hardware_mirror_enabled(true).  The call that should take
\* the UART off the pad passes UART_PIN_NO_CHANGE, which leaves it where it is;
\* a channel that cannot be enabled is rolled back, the UART put on the pad.
MirrorOn ==
    \/ /\ route.mirrored \/ CallsMayFail
       /\ UNCHANGED route
    \/ /\ ~route.mirrored
       /\ CallsMayFail \/ ~BothOff
       /\ route' = [route EXCEPT !.uart = TRUE]
    \/ /\ ~route.mirrored /\ BothOff
       /\ route' = [route EXCEPT !.rise = "on", !.fall = "on", !.mirrored = TRUE]

\* The same with false: whatever fails is undone, and the mirror stays.
MirrorOff ==
    \/ /\ ~route.mirrored \/ CallsMayFail
       /\ UNCHANGED route
    \/ /\ route.mirrored
       /\ route' = [route EXCEPT !.uart = TRUE, !.rise = "off", !.fall = "off",
                                 !.mirrored = FALSE]

\* start_hardware_mirror stops at the first call that fails: before or after
\* the pad is reset, before or after each channel exists, and between the two
\* enables.
MirrorHalfStarted ==
    \/ UNCHANGED route
    \/ \E channels \in {<<"none", "none">>, <<"off", "none">>,
                        <<"off", "off">>, <<"on", "off">>} :
            route' = [route EXCEPT !.uart = FALSE, !.rise = channels[1],
                                   !.fall = channels[2]]

-----------------------------------------------------------------------------
(* app_main *)

\* bridge_service_set_hardware_ready(false): no command can be pending yet.
NotReady == hardwareReady' = FALSE /\ MirrorOn /\ UNCHANGED everTaken

BeforeBridge ==
    /\ boot = "reset" /\ boot' = "preflight"
    /\ NotReady
    /\ UNCHANGED <<oe, preflight, tasks>>

\* nts0104_preflight_init drives OE low; app_main goes on if it fails.
PreflightInit ==
    /\ boot = "preflight" /\ boot' = "main_rx"
    /\ \/ /\ oe' = "low"
          /\ preflight' = [preflight EXCEPT !.initialized = TRUE]
       \/ CallsMayFail /\ UNCHANGED <<oe, preflight>>
    /\ UNCHANGED <<route, tasks, hardwareReady, everTaken>>

\* A step of bridge_service_start that configures a UART, none with MAIN_TX.
ConfigureUart(here, next) ==
    /\ boot = here
    /\ boot' = next \/ (CallsMayFail /\ boot' = "failing")
    /\ UNCHANGED <<oe, preflight, route, tasks, everTaken>>

\* bridge_service_start begins with s_hardware_ready = false.
MainReceives == ConfigureUart("main_rx", "mirror") /\ hardwareReady' = FALSE

PanelUart == ConfigureUart("panel_uart", "main_uart") /\ UNCHANGED hardwareReady

MainUart == ConfigureUart("main_uart", "tasks") /\ UNCHANGED hardwareReady

\* Mutant: the pad keeps what was routed to it.
PadNotReset ==
    /\ boot = "mirror"
    /\ \/ /\ boot' = "panel_uart"
          /\ route' = [route EXCEPT !.rise = "on", !.fall = "on", !.mirrored = TRUE]
       \/ /\ CallsMayFail
          /\ boot' = "failing"
          /\ MirrorHalfStarted
    /\ UNCHANGED <<oe, preflight, tasks, hardwareReady, everTaken>>

\* start_hardware_mirror resets the pad, which disconnects the UART that
\* MirrorOn put there when set_hardware_ready(false) found no channels yet.
StartMirror ==
    /\ boot = "mirror"
    /\ \/ /\ boot' = "panel_uart"
          /\ route' = [uart |-> FALSE, rise |-> "on", fall |-> "on", mirrored |-> TRUE]
       \/ /\ CallsMayFail
          /\ boot' = "failing"
          /\ MirrorHalfStarted
    /\ UNCHANGED <<oe, preflight, tasks, hardwareReady, everTaken>>

\* xTaskCreate: the ones already running stay when a later one fails.
CreateTask ==
    /\ boot = "tasks"
    /\ \/ /\ tasks' = tasks + 1
          /\ boot' = IF tasks' = AllTasks THEN "self_test" ELSE boot
       \/ CallsMayFail /\ boot' = "failing" /\ tasks' = tasks
    /\ UNCHANGED <<oe, preflight, route, hardwareReady, everTaken>>

\* nts0104_preflight_self_test reads OE back low.
SelfTest ==
    /\ boot = "self_test"
    /\ IF preflight.initialized
       THEN /\ oe' = "low"
            /\ \E passed \in BOOLEAN :
                    /\ passed \/ CallsMayFail
                    /\ boot' = IF passed THEN "enable" ELSE "refusing"
                    /\ preflight' = [preflight EXCEPT !.oe_enabled = FALSE,
                                                     !.self_test_passed = passed]
       ELSE boot' = "refusing" /\ UNCHANGED <<oe, preflight>>
    /\ UNCHANGED <<route, tasks, hardwareReady, everTaken>>

\* nts0104_preflight_can_enable
CanEnable == preflight.initialized /\ preflight.self_test_passed /\ ~preflight.oe_enabled

\* Mutant: an output enable that reads back wrong stays driven.
EnableUnread ==
    /\ boot = "enable"
    /\ CanEnable
    /\ oe' = "high"
    /\ \/ /\ boot' = "enabled"
          /\ preflight' = [preflight EXCEPT !.oe_enabled = TRUE]
       \/ CallsMayFail /\ boot' = "refusing" /\ preflight' = preflight
    /\ UNCHANGED <<route, tasks, hardwareReady, everTaken>>

\* nts0104_preflight_enable drives OE high, and closes it again if that fails
\* or does not read back.
Enable ==
    /\ boot = "enable"
    /\ CanEnable
    /\ \/ /\ boot' = "enabled"
          /\ oe' = "high"
          /\ preflight' = [preflight EXCEPT !.oe_enabled = TRUE]
       \/ /\ CallsMayFail
          /\ boot' = "refusing"
          /\ oe' = "low"
          /\ preflight' = preflight
    /\ UNCHANGED <<route, tasks, hardwareReady, everTaken>>

Ready ==
    /\ boot = "enabled" /\ boot' = "started"
    /\ hardwareReady' = TRUE
    /\ UNCHANGED <<oe, preflight, route, tasks, everTaken>>

\* The failure branches of app_main, for a bridge that did not start and for a
\* stage that did not pass: nts0104_preflight_disable, which does nothing to
\* a stage never initialized, then set_hardware_ready(false).
Disable ==
    /\ boot \in {"failing", "refusing"} /\ boot' = "closed"
    /\ IF preflight.initialized
       THEN oe' = "low" /\ preflight' = [preflight EXCEPT !.oe_enabled = FALSE]
       ELSE UNCHANGED <<oe, preflight>>
    /\ UNCHANGED <<route, tasks, hardwareReady, everTaken>>

AfterFailure ==
    /\ boot = "closed" /\ boot' = "ended"
    /\ NotReady
    /\ UNCHANGED <<oe, preflight, tasks>>

-----------------------------------------------------------------------------
(* Commands, once the stage is ready *)

\* control_takeover_task gates the mirror for a command.
TakeLine ==
    /\ ~PANEL_LOOP_CONTROL /\ hardwareReady /\ tasks >= TakeoverTask
    /\ MirrorOff
    /\ everTaken' = TRUE
    /\ UNCHANGED <<boot, oe, preflight, tasks, hardwareReady>>

\* The end of a command, confirmed, cancelled or timed out.
ReturnLine ==
    /\ hardwareReady
    /\ MirrorOn
    /\ UNCHANGED <<boot, oe, preflight, tasks, hardwareReady, everTaken>>

Next ==
    \/ BeforeBridge
    \/ PreflightInit
    \/ MainReceives
    \/ StartMirror
    \/ PanelUart
    \/ MainUart
    \/ CreateTask
    \/ SelfTest
    \/ Enable
    \/ Ready
    \/ Disable
    \/ AfterFailure
    \/ TakeLine
    \/ ReturnLine

Spec == Init /\ [][Next]_stageVars

-----------------------------------------------------------------------------
(* Properties *)

\* The outputs are on only with everything behind them in place: the self test
\* passed and every task runs.  Until a command first takes the line the mirror
\* drives it alone, by both edges, and the UART which the start put on the pad
\* (bridge_service_set_hardware_ready) or a failed start left there is off it.
\* From then on the line has a driver still, both edges or the UART and neither
\* edge; the UART stays on the pad when the mirror is on again.
OutputsAreBacked ==
    oe = "high" =>
        /\ preflight.self_test_passed
        /\ tasks = AllTasks
        /\ IF route.mirrored THEN route.rise = "on" /\ route.fall = "on"
                             ELSE BothOff /\ route.uart
        /\ ~everTaken => route.mirrored /\ ~route.uart

\* Commands are accepted only with the outputs on, and whichever step of the
\* start fails, the outputs are off from then on.
FailsClosed ==
    /\ hardwareReady => oe = "high"
    /\ boot \in {"failing", "refusing", "closed", "ended"} =>
            oe # "high" /\ ~hardwareReady
=============================================================================
