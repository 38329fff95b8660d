-------------------------- MODULE OutputStageProofs ---------------------------
(***************************************************************************)
(* Proofs about OutputStage, for both profiles and whether or not driver   *)
(* calls fail: types, what stands behind the outputs while they are on,    *)
(* and that they stay off after a failure.                                 *)
(*                                                                         *)
(* Neither property is inductive: both follow from what app_main has done  *)
(* at each point of its way, which StageInv says place by place.           *)
(***************************************************************************)
EXTENDS OutputStage, TLAPS

\* The line has a driver: both edges of the mirror, or the UART and no edge;
\* the mirror alone before the first command.
Driven ==
    /\ IF route.mirrored THEN route.rise = "on" /\ route.fall = "on"
                         ELSE BothOff /\ route.uart
    /\ ~everTaken => route.mirrored /\ ~route.uart

\* What app_main has done by the time it reaches each point.
StageInv ==
    /\ StageTypeOK
    /\ boot \in {"reset", "preflight", "main_rx", "mirror", "panel_uart", "main_uart"} =>
            tasks = 0
    /\ boot = "tasks" => tasks < AllTasks
    /\ boot \in {"self_test", "enable", "enabled", "started"} => tasks = AllTasks
    /\ boot \in {"panel_uart", "main_uart", "tasks", "self_test", "enable",
                 "enabled", "started"} => Driven
    /\ boot \in {"enable", "enabled", "started"} => preflight.self_test_passed
    /\ oe = "high" <=> boot \in {"enabled", "started"}
    /\ hardwareReady => boot = "started"
    /\ everTaken => ~PANEL_LOOP_CONTROL /\ boot = "started"

-----------------------------------------------------------------------------
(* The route *)

\* Whatever fails inside a change of the route, it stays a route.
LEMMA RouteType ==
    ASSUME StageTypeOK, MirrorOn \/ MirrorOff \/ MirrorHalfStarted
    PROVE  route' \in Route
<1>1. CASE MirrorOn
  BY <1>1 DEF MirrorOn, StageTypeOK, Route, Channel
<1>2. CASE MirrorOff
  BY <1>2 DEF MirrorOff, StageTypeOK, Route, Channel
<1>3. CASE MirrorHalfStarted
  <2>1. CASE UNCHANGED route
    BY <2>1 DEF StageTypeOK
  <2>2. ASSUME NEW channels \in {<<"none", "none">>, <<"off", "none">>,
                                 <<"off", "off">>, <<"on", "off">>},
               route' = [route EXCEPT !.uart = FALSE, !.rise = channels[1],
                                      !.fall = channels[2]]
        PROVE  route' \in Route
    <3>1. channels[1] \in Channel /\ channels[2] \in Channel
      BY <2>2 DEF Channel
    <3> QED
      BY <2>2, <3>1 DEF StageTypeOK, Route
  <2> QED
    BY <1>3, <2>1, <2>2 DEF MirrorHalfStarted
<1> QED
  BY <1>1, <1>2, <1>3

\* Taking the line and returning it never leave it without a driver: a failing
\* change is undone.  Returning a line never taken changes nothing.
LEMMA RouteDriven ==
    ASSUME StageTypeOK, Driven,
           (MirrorOn /\ everTaken' = everTaken) \/ (MirrorOff /\ everTaken')
    PROVE  Driven'
<1>1. CASE MirrorOn /\ everTaken' = everTaken
  BY <1>1 DEF MirrorOn, StageTypeOK, Route, Driven, BothOff
<1>2. CASE MirrorOff /\ everTaken'
  BY <1>2 DEF MirrorOff, StageTypeOK, Route, Driven, BothOff
<1> QED
  BY <1>1, <1>2

-----------------------------------------------------------------------------
(* app_main *)

\* The invariant holds at reset.
LEMMA StageInit == Init => StageInv
<1>1. Init => preflight \in Preflight /\ route \in Route
  BY DEF Init, Preflight, Route, Channel
<1>2. Init => /\ boot = "reset" /\ oe = "undriven" /\ tasks = 0
              /\ hardwareReady = FALSE /\ everTaken = FALSE
  BY DEF Init
<1>3. 0 \in 0..AllTasks
  BY DEF AllTasks
<1>4. ASSUME boot = "reset", oe = "undriven", tasks = 0, hardwareReady = FALSE,
             everTaken = FALSE, preflight \in Preflight, route \in Route
      PROVE  StageTypeOK
  BY <1>3, <1>4, Zenon DEF StageTypeOK
<1>5. Init => StageTypeOK
  BY <1>1, <1>2, <1>4
<1> QED
  BY <1>2, <1>5 DEF StageInv

\* Every step of the start, and every command afterwards, keeps the invariant.
LEMMA StageStep == StageInv /\ [Next]_stageVars => StageInv'
<1> SUFFICES ASSUME StageInv, [Next]_stageVars PROVE StageInv'
  OBVIOUS
<1> USE DEF StageInv
<1>1. CASE BeforeBridge
  <2>1. route' \in Route
    BY <1>1, RouteType DEF BeforeBridge, NotReady
  <2> QED
    BY <1>1, <2>1 DEF BeforeBridge, NotReady, StageTypeOK
<1>2. CASE PreflightInit
  <2>1. preflight' \in Preflight
    BY <1>2 DEF PreflightInit, StageTypeOK, Preflight
  <2> QED
    BY <1>2, <2>1 DEF PreflightInit, StageTypeOK
<1>3. CASE MainReceives
  BY <1>3 DEF MainReceives, ConfigureUart, StageTypeOK
<1>4. CASE StartMirror
  <2>1. route' \in Route
    <3>1. CASE MirrorHalfStarted
      BY <3>1, RouteType
    <3>2. CASE route' = [uart |-> FALSE, rise |-> "on", fall |-> "on", mirrored |-> TRUE]
      BY <3>2 DEF Route, Channel
    <3> QED
      BY <1>4, <3>1, <3>2 DEF StartMirror
  <2>2. boot' = "panel_uart" => Driven'
    BY <1>4 DEF StartMirror, Driven, StageTypeOK
  <2>3. boot = "mirror" /\ boot' \in {"panel_uart", "failing"}
    BY <1>4 DEF StartMirror
  <2>4. /\ oe' = oe /\ preflight' = preflight /\ tasks' = tasks
        /\ hardwareReady' = hardwareReady /\ everTaken' = everTaken
    BY <1>4 DEF StartMirror
  <2>5. StageTypeOK'
    BY <2>1, <2>3, <2>4 DEF StageTypeOK
  <2> QED
    BY <2>2, <2>3, <2>4, <2>5
<1>5. CASE PanelUart
  BY <1>5 DEF PanelUart, ConfigureUart, StageTypeOK, Driven, BothOff
<1>6. CASE MainUart
  BY <1>6 DEF MainUart, ConfigureUart, StageTypeOK, Driven, BothOff, AllTasks
<1>7. CASE CreateTask
  BY <1>7 DEF CreateTask, StageTypeOK, Driven, BothOff, AllTasks
<1>8. CASE SelfTest
  <2>1. /\ boot = "self_test" /\ boot' \in {"enable", "refusing"}
        /\ route' = route /\ tasks' = tasks /\ hardwareReady' = hardwareReady
        /\ everTaken' = everTaken
        /\ oe' \in {oe, "low"}
    BY <1>8 DEF SelfTest
  <2>2. /\ preflight' \in Preflight
        /\ boot' = "enable" => preflight'.self_test_passed
    BY <1>8 DEF SelfTest, StageTypeOK, Preflight
  <2>3. StageTypeOK'
    BY <2>1, <2>2 DEF StageTypeOK
  <2>4. Driven'
    BY <2>1 DEF Driven, BothOff
  <2> QED
    BY <2>1, <2>2, <2>3, <2>4
<1>9. CASE Enable
  <2>1. preflight' \in Preflight /\ preflight'.self_test_passed
    BY <1>9 DEF Enable, CanEnable, StageTypeOK, Preflight
  <2>2. /\ boot = "enable" /\ boot' \in {"enabled", "refusing"}
        /\ route' = route /\ tasks' = tasks /\ hardwareReady' = hardwareReady
        /\ everTaken' = everTaken
        /\ oe' = IF boot' = "enabled" THEN "high" ELSE "low"
    BY <1>9 DEF Enable
  <2>3. StageTypeOK'
    BY <2>1, <2>2 DEF StageTypeOK
  <2>4. Driven'
    BY <2>2 DEF Driven, BothOff
  <2> QED
    BY <2>1, <2>2, <2>3, <2>4
<1>10. CASE Ready
  BY <1>10 DEF Ready, StageTypeOK, Driven, BothOff
<1>11. CASE Disable
  <2>1. preflight' \in Preflight
    BY <1>11 DEF Disable, StageTypeOK, Preflight
  <2> QED
    BY <1>11, <2>1 DEF Disable, StageTypeOK
<1>12. CASE AfterFailure
  <2>1. route' \in Route
    BY <1>12, RouteType DEF AfterFailure, NotReady
  <2> QED
    BY <1>12, <2>1 DEF AfterFailure, NotReady, StageTypeOK
<1>13. CASE TakeLine \/ ReturnLine
  <2>1. /\ boot = "started" /\ boot' = boot
        /\ \/ MirrorOn /\ everTaken' = everTaken
           \/ MirrorOff /\ everTaken' /\ ~PANEL_LOOP_CONTROL
        /\ everTaken' \in BOOLEAN
    BY <1>13 DEF TakeLine, ReturnLine, StageTypeOK
  <2>2. route' \in Route
    BY <2>1, RouteType
  <2>3. Driven'
    BY <2>1, RouteDriven
  <2> QED
    BY <1>13, <2>1, <2>2, <2>3 DEF TakeLine, ReturnLine, StageTypeOK
<1>14. CASE UNCHANGED stageVars
  BY <1>14 DEF stageVars, StageTypeOK, Driven, BothOff
<1> QED
  BY <1>1, <1>2, <1>3, <1>4, <1>5, <1>6, <1>7, <1>8, <1>9, <1>10, <1>11, <1>12,
     <1>13, <1>14 DEF Next

\* The invariant holds throughout.
THEOREM StageInvariant == Spec => []StageInv
  BY StageInit, StageStep, PTL DEF Spec

\* Every variable keeps its type, whichever call fails (main.c,
\* nts0104_preflight.c, bridge_service_start).
THEOREM StageTypeCorrect == Spec => []StageTypeOK
<1>1. StageInv => StageTypeOK
  BY DEF StageInv
<1> QED
  BY <1>1, StageInvariant, PTL

\* While the outputs are on, the self test has passed, every task runs, and the
\* panel's line has a driver: until a command first takes it the mirror, with
\* the UART off the pad (nts0104_preflight_enable, start_hardware_mirror and
\* set_panel_to_main_hardware_mirror_enabled).
THEOREM OutputsAlwaysBacked == Spec => []OutputsAreBacked
<1>1. StageInv => OutputsAreBacked
  BY DEF StageInv, OutputsAreBacked, Driven
<1> QED
  BY <1>1, StageInvariant, PTL

\* In the shipped profile, which takes the line for no command, the mirror is
\* the only driver for as long as the outputs are on.
THEOREM ShippedMirrorAlone ==
    Spec => [](PANEL_LOOP_CONTROL /\ oe = "high" =>
                    route.rise = "on" /\ route.fall = "on" /\ ~route.uart)
<1>1. StageInv => (PANEL_LOOP_CONTROL /\ oe = "high" =>
                    route.rise = "on" /\ route.fall = "on" /\ ~route.uart)
  BY DEF StageInv, Driven
<1> QED
  BY <1>1, StageInvariant, PTL

\* Commands are accepted with the outputs on only, and any failure of the start
\* leaves both off for good (nts0104_preflight_after_bridge).
THEOREM AlwaysFailsClosed == Spec => []FailsClosed
<1>1. StageInv => FailsClosed
  BY DEF StageInv, FailsClosed
<1> QED
  BY <1>1, StageInvariant, PTL
===============================================================================
