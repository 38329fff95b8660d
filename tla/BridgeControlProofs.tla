------------------------- MODULE BridgeControlProofs -------------------------
(***************************************************************************)
(* Proofs about AcProtocol, FrontEnds, BridgeControl and PanelLoop, for     *)
(* every value of their constants.                                         *)
(***************************************************************************)
EXTENDS PanelLoop, FrontEnds, TLAPS

-----------------------------------------------------------------------------
(* Facts about the protocol operators *)

\* What a request asks of a field has the field's type.
LEMMA RequestedType ==
    ASSUME NEW req, IsRequest(req)
    PROVE  /\ \A field \in {"power"} \cup FlagField, old \in BOOLEAN :
                    Requested(req, field, old) \in BOOLEAN
           /\ \A field \in {"setpoint", "mode", "fan", "raw"}, old \in Byte :
                    Requested(req, field, old) \in Byte
BY DEF IsRequest, Requested, Field, FlagField

\* The mode/fan code a request asks for is one byte.
LEMMA ModeFanType ==
    ASSUME NEW req, IsRequest(req), NEW code \in Byte
    PROVE  /\ RequestedModeFan(code, req) \in Byte
           /\ PanelToMain(code) \in Byte
           /\ MainToPanel(code) \in Byte
<1>1. PanelToMain(code) \in Byte /\ MainToPanel(code) \in Byte
  BY DEF PanelToMain, MainToPanel, Byte
<1> DEFINE mode  == IF "mode" \in DOMAIN req THEN req.mode ELSE ModeOf(code)
           fan   == IF "fan" \in DOMAIN req THEN req.fan ELSE FanOf(code)
           speed == IF fan \in {AC_FAN_LOW, AC_FAN_HIGH} THEN fan ELSE AC_FAN_LOW
<1>2. 48 + speed \in Byte
  BY DEF Byte, AC_FAN_LOW, AC_FAN_HIGH
<1>3. "raw" \in DOMAIN req => req.raw \in Byte
  BY DEF IsRequest, Field, FlagField
<1> HIDE DEF mode, fan, speed
<1>4. RequestedModeFan(code, req) =
        CASE "raw" \in DOMAIN req                           -> req.raw
          [] "raw" \notin DOMAIN req /\ mode = AC_MODE_DRY  -> 67
          [] "raw" \notin DOMAIN req /\ mode = AC_MODE_FAN  -> 34
          [] "raw" \notin DOMAIN req /\ mode = AC_MODE_COOL -> 48 + speed
          [] OTHER                                          -> code
  BY DEF RequestedModeFan, mode, fan, speed
<1>5. RequestedModeFan(code, req) \in Byte
  <2>1. 67 \in Byte /\ 34 \in Byte  BY DEF Byte
  <2>2. AC_MODE_DRY # AC_MODE_FAN /\ AC_MODE_DRY # AC_MODE_COOL /\ AC_MODE_FAN # AC_MODE_COOL
    BY DEF AC_MODE_DRY, AC_MODE_FAN, AC_MODE_COOL
  <2>q. QED BY <1>2, <1>3, <1>4, <2>1, <2>2
<1>q. QED BY <1>1, <1>5

\* Powering on from nothing yields a complete frame.
LEMMA BootstrapType ==
    ASSUME NEW req, NEW f \in Frame
    PROVE  Bootstrap(f, req) \in Frame
<1>1. EncodeSetpoint(18) \in Byte
  BY DEF EncodeSetpoint, Byte
<1>2. 18 \in Byte /\ 49 \in Byte
  BY DEF Byte
<1>q. QED BY <1>1, <1>2 DEF Bootstrap, Frame

\* The Fahrenheit byte is one byte, whatever the target.
LEMMA EncodeType == ASSUME NEW temp \in Byte PROVE EncodeSetpoint(temp) \in Byte
BY DEF EncodeSetpoint, Byte

\* Overlaying a request on a frame, of either direction, yields a frame.
LEMMA ApplyType ==
    ASSUME NEW req, IsRequest(req), NEW f \in Frame, NEW event \in BOOLEAN
    PROVE  ApplyControl(f, req, event) \in Frame /\ ApplyControlMain(f, req, event) \in Frame
<1> DEFINE g == Bootstrap(f, req)
           w == WriteFields(g, req, event)
<1>1. g \in Frame  BY BootstrapType
<1> HIDE DEF g
<1>2. w \in Frame
  <2>1. "setpoint" \in DOMAIN req => EncodeSetpoint(req.setpoint) \in Byte
    BY EncodeType DEF IsRequest, Field, FlagField
  <2>2. /\ Requested(req, "power", g.power) \in BOOLEAN
        /\ Requested(req, "quiet", g.quiet) \in BOOLEAN
        /\ Requested(req, "units", g.units) \in BOOLEAN
        /\ Requested(req, "timer", g.timer) \in BOOLEAN
        /\ Requested(req, "setpoint", g.temp) \in Byte
    BY <1>1, RequestedType DEF Frame, FlagField
  <2> DEFINE encoded == IF "setpoint" \in DOMAIN req
                        THEN EncodeSetpoint(req.setpoint) ELSE g.encoded
  <2>3. encoded \in Byte
    BY <1>1, <2>1 DEF Frame
  <2> HIDE DEF encoded
  <2>4. w = [g EXCEPT !.event = event,
                      !.power = Requested(req, "power", g.power),
                      !.temp = Requested(req, "setpoint", g.temp),
                      !.encoded = encoded,
                      !.quiet = Requested(req, "quiet", g.quiet),
                      !.units = Requested(req, "units", g.units),
                      !.timer = Requested(req, "timer", g.timer),
                      !.sum = TRUE]
    BY DEF WriteFields, encoded
  <2>q. QED BY <1>1, <2>2, <2>3, <2>4 DEF Frame
<1> HIDE DEF w
<1>3. \A code \in Byte : [w EXCEPT !.code = code] \in Frame
  BY <1>2 DEF Frame
<1>4. w.code \in Byte  BY <1>2 DEF Frame
<1>5. RequestedModeFan(w.code, req) \in Byte
  BY <1>4, ModeFanType
<1>6. PanelToMain(RequestedModeFan(MainToPanel(w.code), req)) \in Byte
  BY <1>4, ModeFanType
<1>7. ApplyControl(f, req, event) \in Frame
  BY <1>3, <1>4, <1>5 DEF ApplyControl, w, g
<1>8. ApplyControlMain(f, req, event) \in Frame
  BY <1>3, <1>4, <1>6 DEF ApplyControlMain, w, g
<1>q. QED BY <1>7, <1>8

\* A merge of two requests is a request, and asks for all the newer one asks.
LEMMA MergeType ==
    ASSUME NEW old, IsRequest(old), NEW new, IsRequest(new), DOMAIN new # {}
    PROVE  IsRequest(Merge(old, new)) /\ DOMAIN Merge(old, new) # {}
BY DEF Merge, IsRequest

\* Nothing is left of a request that was cleared before the next is merged.
LEMMA MergeFromNothing ==
    ASSUME NEW req, IsRequest(req)
    PROVE  IsRequest(EmptyRequest) /\ Merge(EmptyRequest, req) = req
BY DEF Merge, EmptyRequest, IsRequest

-----------------------------------------------------------------------------
(* Types *)

\* Ending a command keeps the overlay an overlay and the report a report.
LEMMA ClosedType ==
    ASSUME NEW o \in Overlay
    PROVE  /\ Closed(o) \in Overlay
           /\ [Closed(o) EXCEPT !.event_pending = FALSE] \in Overlay
           /\ [Closed(o) EXCEPT !.event_pending = FALSE, !.queued = NoTime] \in Overlay
BY DEF Closed, Overlay

\* A report of an outcome is still a report of the appliance.
LEMMA ReportedType ==
    ASSUME NEW s \in AcState, NEW status \in Status
    PROVE  Reported(s, status) \in AcState
BY DEF Reported, AcState

\* Changing the mirror, even when it fails, leaves it on or off.
LEMMA SetMirrorType ==
    ASSUME TypeOK, NEW enabled \in BOOLEAN, SetMirror(enabled)
    PROVE  mirror' \in BOOLEAN
BY DEF TypeOK, SetMirror

\* The frame of all zeroes is a frame.
LEMMA ZeroFrameType == ZeroFrame \in Frame
BY DEF ZeroFrame, Frame, Byte

\* Every variable starts with its type.
LEMMA TypeInit == Init => TypeOK
<1> SUFFICES ASSUME Init PROVE TypeOK
  OBVIOUS
<1>1. overlay \in Overlay
  BY DEF Init, Overlay
<1>2. IsRequest(request)
  BY DEF Init, EmptyRequest, IsRequest
<1>3. state \in AcState
  BY ZeroFrameType DEF Init, AcState, Byte, Status
<1>4. mainTask \in MainTask /\ panelTask \in PanelTask
  BY ZeroFrameType DEF Init, MainTask, PanelTask, IdleMainTask, IdlePanelTask
<1>5. mainAge \in 0..(LinkFresh + 1) /\ panelAge \in 0..(LinkFresh + 1)
  BY TimesAssumption DEF Init
<1>q. QED BY <1>1, <1>2, <1>3, <1>4, <1>5 DEF Init, TypeOK

\* A step of the bridge, whatever frames its two neighbours send.
Step == Next \/ \E f \in Frame : MainFrameReceived(f) \/ PanelFrameStarted(f)

\* Every step does what one of the actions does.
LEMMA Cases ==
    ASSUME [Step]_vars
    PROVE  \/ \E ready \in BOOLEAN : SetHardwareReady(ready)
           \/ \E req \in Requests : QueueControl(req)
           \/ \E f \in Frame : MainFrameReceived(f) \/ PanelFrameStarted(f)
           \/ MainFrameForwarded \/ MainStateUpdated
           \/ PanelLineIdle \/ PanelLineResumes \/ PanelFrameTimedOut
           \/ PanelFrameReceived \/ PanelStateUpdated
           \/ TakeoverGate \/ TakeoverCommit \/ Watchdog \/ Tick
           \/ UNCHANGED vars
BY FramesAssumption DEF Step, Next, Services, LinkMain, LinkPanel

\* One step per action; UNCHANGED variables keep their types.
LEMMA TypeStep == TypeOK /\ [Step]_vars => TypeOK'
<1> SUFFICES ASSUME TypeOK, [Step]_vars PROVE TypeOK'
  OBVIOUS
<1> USE TimesAssumption
<1>1. ASSUME NEW ready \in BOOLEAN, SetHardwareReady(ready) PROVE TypeOK'
  <2>1. overlay' \in Overlay
    BY <1>1, ClosedType DEF SetHardwareReady, TypeOK
  <2>2. state' \in AcState
    BY <1>1, ReportedType DEF SetHardwareReady, TypeOK, Status
  <2>3. mirror' \in BOOLEAN
    BY <1>1, SetMirrorType DEF SetHardwareReady, TypeOK
  <2>q. QED BY <1>1, <2>1, <2>2, <2>3 DEF SetHardwareReady, TypeOK, linkVars
<1>2. ASSUME NEW req \in Requests, QueueControl(req) PROVE TypeOK'
  <2>1. IsRequest(request')
    BY <1>2, RequestsAssumption, MergeType, MergeFromNothing
       DEF QueueControl, PendingRequest, TypeOK
  <2>2. overlay' \in Overlay
    BY <1>2, SwitchesAssumption DEF QueueControl, TypeOK, Overlay
  <2>3. state' \in AcState
    <3>1. overlay.sequence + 1 \in Nat /\ "pending" \in Status
      BY DEF TypeOK, Overlay, Status
    <3>q. QED BY <1>2, <3>1 DEF QueueControl, TypeOK, AcState
  <2>q. QED BY <1>2, <2>1, <2>2, <2>3 DEF QueueControl, TypeOK, linkVars
<1>3. ASSUME NEW f \in Frame, MainFrameReceived(f) PROVE TypeOK'
  <2>1. ApplyControlMain(f, request, overlay.event_pending) \in Frame
    BY ApplyType DEF TypeOK, Overlay
  <2>2. mainTask' \in MainTask
    BY <1>3, <2>1 DEF MainFrameReceived, TypeOK, MainTask, Overlay
  <2>q. QED BY <1>3, <2>2 DEF MainFrameReceived, TypeOK, linkVars
<1>4. ASSUME MainFrameForwarded PROVE TypeOK'
  <2>1. mainTask' \in MainTask
    BY <1>4, ZeroFrameType DEF MainFrameForwarded, TypeOK, MainTask, IdleMainTask
  <2>q. QED BY <1>4, <2>1 DEF MainFrameForwarded, TypeOK, linkVars
<1>5. ASSUME MainStateUpdated PROVE TypeOK'
  <2> DEFINE f    == mainTask.frame
             seen == [state EXCEPT !.main_valid = TRUE, !.main_raw = f,
                              !.setpoint_c = IF ModeOf(f.code) = AC_MODE_COOL
                                             THEN f.temp ELSE @]
  <2>1. f \in Frame
    BY DEF TypeOK, MainTask
  <2>2. seen \in AcState
    BY <2>1 DEF TypeOK, AcState, Frame
  <2> HIDE DEF seen
  <2>3. mainTask' \in MainTask
    BY <1>5, ZeroFrameType DEF MainStateUpdated, MainTask, IdleMainTask
  <2>4. CASE overlay.confirmation_pending /\ MainConfirms(f, request)
    <3>1. /\ overlay' = [Closed(overlay) EXCEPT !.event_pending = FALSE,
                                                !.queued = NoTime]
          /\ request' = EmptyRequest
          /\ state' = Reported(seen, "confirmed")
          /\ SetMirror(TRUE)
      BY <1>5, <2>4 DEF MainStateUpdated, seen
    <3>2. overlay' \in Overlay
      BY <3>1, ClosedType DEF TypeOK
    <3>3. state' \in AcState
      BY <2>2, <3>1, ReportedType DEF Status
    <3>4. IsRequest(request')
      BY <3>1 DEF EmptyRequest, IsRequest
    <3>5. mirror' \in BOOLEAN
      BY <3>1, SetMirrorType
    <3>q. QED
      BY <1>5, <2>3, <3>2, <3>3, <3>4, <3>5 DEF MainStateUpdated, TypeOK
  <2>5. CASE ~(overlay.confirmation_pending /\ MainConfirms(f, request))
    <3>1. state' = seen /\ UNCHANGED <<overlay, request, mirror>>
      BY <1>5, <2>5 DEF MainStateUpdated, seen
    <3>q. QED
      BY <1>5, <2>2, <2>3, <3>1 DEF MainStateUpdated, TypeOK
  <2>q. QED BY <2>4, <2>5
<1>6. ASSUME NEW f \in Frame, PanelFrameStarted(f) PROVE TypeOK'
  <2>1. ToMain(f) \in Frame
    BY ApplyType DEF ToMain, TypeOK, Overlay, AcState
  <2>2. panelTask' \in PanelTask
    BY <1>6, <2>1 DEF PanelFrameStarted, PanelTask
  <2>q. QED BY <1>6, <2>2 DEF PanelFrameStarted, TypeOK
<1>7. ASSUME PanelLineIdle \/ PanelLineResumes PROVE TypeOK'
  BY <1>7 DEF PanelLineIdle, PanelLineResumes, TypeOK
<1>8. ASSUME PanelFrameTimedOut PROVE TypeOK'
  <2>1. panelTask' \in PanelTask
    BY <1>8, ZeroFrameType DEF PanelFrameTimedOut, PanelTask, IdlePanelTask
  <2>q. QED BY <1>8, <2>1 DEF PanelFrameTimedOut, TypeOK, linkVars
<1>9. ASSUME PanelFrameReceived PROVE TypeOK'
  <2> DEFINE cancel == overlay.active /\ PhysicalChange(panelTask.frame)
             after  == IF cancel THEN Closed(overlay) ELSE overlay
  <2>1. after \in Overlay
    BY ClosedType DEF TypeOK
  <2>2. /\ overlay' = [after EXCEPT !.event_pending =
                            @ /\ (PANEL_LOOP_CONTROL \/ ~after.active)]
        /\ state' = IF cancel THEN Reported(state, "cancelled") ELSE state
        /\ IF cancel THEN SetMirror(TRUE) ELSE mirror' = mirror
        /\ panelTask' = [panelTask EXCEPT !.pc = "checked", !.out = ZeroFrame,
                            !.injected = /\ after.active /\ after.takeover_ready
                                         /\ CanApply(panelTask.frame, request)]
    BY <1>9 DEF PanelFrameReceived
  <2> HIDE DEF after, cancel
  <2>3. overlay' \in Overlay
    BY <2>1, <2>2 DEF Overlay
  <2>4. state' \in AcState
    BY <2>2, ReportedType DEF TypeOK, Status
  <2>5. mirror' \in BOOLEAN
    BY <2>2, SetMirrorType DEF TypeOK
  <2>6. panelTask' \in PanelTask
    <3>1. (after.active /\ after.takeover_ready
             /\ CanApply(panelTask.frame, request)) \in BOOLEAN
      OBVIOUS
    <3>q. QED BY <2>2, <3>1, ZeroFrameType DEF TypeOK, PanelTask
  <2>q. QED
    BY <1>9, <2>3, <2>4, <2>5, <2>6 DEF PanelFrameReceived, TypeOK, linkVars
<1>10. ASSUME PanelStateUpdated PROVE TypeOK'
  <2>1. panelTask' \in PanelTask
    BY <1>10, ZeroFrameType DEF PanelStateUpdated, PanelTask, IdlePanelTask
  <2>2. state' \in AcState
    <3>1. panelTask.frame \in Frame /\ panelTask.frame.temp \in Byte
      BY DEF TypeOK, PanelTask, Frame
    <3>2. (state.injected \/ panelTask.injected) \in BOOLEAN
      OBVIOUS
    <3>q. QED BY <1>10, <3>1, <3>2 DEF PanelStateUpdated, TypeOK, AcState
  <2>q. QED BY <1>10, <2>1, <2>2 DEF PanelStateUpdated, TypeOK
<1>11. ASSUME TakeoverGate PROVE TypeOK'
  BY <1>11, SetMirrorType DEF TakeoverGate, TypeOK, linkVars
<1>12. ASSUME TakeoverCommit PROVE TypeOK'
  <2>1. overlay' \in Overlay /\ state' \in AcState
    <3>1. [overlay EXCEPT !.takeover_pending = FALSE, !.takeover_ready = TRUE] \in Overlay
      BY DEF TypeOK, Overlay
    <3>2. Reported(state, "cancelled") \in AcState
      BY ReportedType DEF TypeOK, Status
    <3>q. QED BY <1>12, <3>1, <3>2, ClosedType DEF TakeoverCommit, TypeOK
  <2>q. QED BY <1>12, <2>1 DEF TakeoverCommit, TypeOK, linkVars
<1>13. ASSUME Watchdog PROVE TypeOK'
  <2>1. overlay' \in Overlay
    BY <1>13, ClosedType DEF Watchdog, TypeOK
  <2>2. state' \in AcState
    BY <1>13, ReportedType DEF Watchdog, TypeOK, Status
  <2>3. mirror' \in BOOLEAN
    BY <1>13, SetMirrorType DEF Watchdog
  <2>4. IsRequest(request')
    BY <1>13 DEF Watchdog, EmptyRequest, IsRequest
  <2>q. QED BY <1>13, <2>1, <2>2, <2>3, <2>4 DEF Watchdog, TypeOK, linkVars
<1>14. ASSUME Tick PROVE TypeOK'
  <2>1. overlay' \in Overlay
    BY <1>14 DEF Tick, Older, TypeOK, Overlay, NoTime
  <2>2. mainAge' \in 0..(LinkFresh + 1) /\ panelAge' \in 0..(LinkFresh + 1)
    BY <1>14 DEF Tick, Older, TypeOK, NoTime
  <2>q. QED BY <1>14, <2>1, <2>2 DEF Tick, TypeOK
<1>15. ASSUME UNCHANGED vars PROVE TypeOK'
  BY <1>15 DEF vars, TypeOK
<1>q. QED
  BY <1>1, <1>2, <1>3, <1>4, <1>5, <1>6, <1>7, <1>8, <1>9, <1>10, <1>11,
     <1>12, <1>13, <1>14, <1>15, Cases

\* Every variable keeps its type: in particular every frame the firmware puts
\* together, for the panel or for the main board, is a frame of bytes, and the
\* merged request stays a legal control request.
THEOREM TypeCorrect == Spec => []TypeOK
<1>1. Init => TypeOK
  BY TypeInit
<1>2. TypeOK /\ [Next]_vars => TypeOK'
  BY TypeStep DEF Step
<1>q. QED BY <1>1, <1>2, PTL DEF Spec

-----------------------------------------------------------------------------
(* The overlay and the report *)

\* What the critical sections that end a command leave behind.
LEMMA ClosedFields ==
    ASSUME NEW o \in Overlay
    PROVE  /\ ~Closed(o).active /\ ~Closed(o).confirmation_pending
           /\ ~Closed(o).takeover_pending /\ ~Closed(o).takeover_ready
           /\ Closed(o).sequence = o.sequence
           /\ Closed(o).queued = o.queued
BY DEF Closed, Overlay

\* What the report of an outcome sets, and what it leaves alone.
LEMMA ReportedFields ==
    ASSUME NEW s \in AcState, NEW status
    PROVE  /\ ~Reported(s, status).override_active
           /\ ~Reported(s, status).command_pending
           /\ Reported(s, status).command_status = status
           /\ Reported(s, status).command_sequence = s.command_sequence
           /\ Reported(s, status).main_valid = s.main_valid
           /\ Reported(s, status).panel_valid = s.panel_valid
           /\ Reported(s, status).main_raw = s.main_raw
           /\ Reported(s, status).setpoint_c = s.setpoint_c
           /\ Reported(s, status).injected = s.injected
BY DEF Reported, AcState

\* An overlay no command is using agrees with any report that says so.
LEMMA EndedAgrees ==
    ASSUME TypeOK, TypeOK', OverlayAgreement,
           ~overlay'.active, ~overlay'.confirmation_pending,
           ~overlay'.takeover_pending, ~overlay'.takeover_ready,
           overlay'.sequence = overlay.sequence,
           state'.command_status # "pending",
           ~state'.override_active, ~state'.command_pending,
           state'.command_sequence = state.command_sequence
    PROVE  OverlayAgreement'
BY DEF OverlayAgreement, TypeOK, Overlay, AcState

\* An action that ends no command may move the clocks and the links.
LEMMA KeptAgrees ==
    ASSUME TypeOK, TypeOK', OverlayAgreement,
           overlay'.active = overlay.active,
           overlay'.confirmation_pending = overlay.confirmation_pending,
           overlay'.takeover_pending = overlay.takeover_pending,
           overlay'.takeover_ready = overlay.takeover_ready,
           overlay'.sequence = overlay.sequence,
           overlay.queued # NoTime => overlay'.queued # NoTime,
           request' = request,
           hardwareReady => hardwareReady',
           state.main_valid => state'.main_valid,
           state.panel_valid => state'.panel_valid,
           state'.command_status = state.command_status,
           state'.override_active = state.override_active,
           state'.command_pending = state.command_pending,
           state'.command_sequence = state.command_sequence
    PROVE  OverlayAgreement'
BY DEF OverlayAgreement, TypeOK, Overlay, AcState

\* No critical section of any task breaks the agreement: one step per action.
LEMMA AgreementStep ==
    TypeOK /\ TypeOK' /\ OverlayAgreement /\ [Step]_vars => OverlayAgreement'
<1> SUFFICES ASSUME TypeOK, TypeOK', OverlayAgreement, [Step]_vars
             PROVE  OverlayAgreement'
  OBVIOUS
<1>a. overlay \in Overlay /\ state \in AcState
  BY DEF TypeOK
<1>1. ASSUME NEW ready \in BOOLEAN, SetHardwareReady(ready) PROVE OverlayAgreement'
  <2>1. ~overlay.active
    BY <1>1 DEF SetHardwareReady, OverlayAgreement
  <2>2. UNCHANGED <<overlay, state, request>>
    BY <1>1, <2>1 DEF SetHardwareReady
  <2>q. QED BY <2>1, <2>2 DEF OverlayAgreement
<1>2. ASSUME NEW req \in Requests, QueueControl(req) PROVE OverlayAgreement'
  <2>1. DOMAIN request' # {}
    BY <1>2, RequestsAssumption, MergeType, MergeFromNothing
       DEF QueueControl, PendingRequest, TypeOK
  <2>2. /\ overlay'.active /\ overlay'.confirmation_pending
        /\ overlay'.queued = 0 /\ ~overlay'.takeover_ready
        /\ overlay'.sequence = overlay.sequence + 1
    BY <1>2 DEF QueueControl
  <2>3. /\ state'.command_status = "pending"
        /\ state'.override_active /\ state'.command_pending
        /\ state'.command_sequence = overlay.sequence + 1
        /\ state'.main_valid = state.main_valid
        /\ state'.panel_valid = state.panel_valid
    BY <1>2, <1>a DEF QueueControl, AcState
  <2>4. hardwareReady' /\ state.main_valid /\ state.panel_valid
    BY <1>2 DEF QueueControl, Accepts, LinksFresh
  <2>q. QED
    BY <2>1, <2>2, <2>3, <2>4 DEF OverlayAgreement, NoTime, TypeOK, Overlay, AcState
<1>3. ASSUME NEW f \in Frame, MainFrameReceived(f) PROVE OverlayAgreement'
  BY <1>3 DEF MainFrameReceived, OverlayAgreement
<1>4. ASSUME MainFrameForwarded PROVE OverlayAgreement'
  BY <1>4 DEF MainFrameForwarded, OverlayAgreement
<1>5. ASSUME MainStateUpdated PROVE OverlayAgreement'
  <2> DEFINE f    == mainTask.frame
             seen == [state EXCEPT !.main_valid = TRUE, !.main_raw = f,
                              !.setpoint_c = IF ModeOf(f.code) = AC_MODE_COOL
                                             THEN f.temp ELSE @]
  <2>1. /\ seen.command_status = state.command_status
        /\ seen.override_active = state.override_active
        /\ seen.command_pending = state.command_pending
        /\ seen.command_sequence = state.command_sequence
        /\ seen.main_valid /\ seen.panel_valid = state.panel_valid
    BY <1>a DEF AcState
  <2>2. seen \in AcState
    BY <1>a DEF TypeOK, AcState, Frame, MainTask
  <2> HIDE DEF seen
  <2>3. CASE overlay.confirmation_pending /\ MainConfirms(f, request)
    <3>1. /\ overlay' = [Closed(overlay) EXCEPT !.event_pending = FALSE,
                                                !.queued = NoTime]
          /\ state' = Reported(seen, "confirmed")
      BY <1>5, <2>3 DEF MainStateUpdated, seen
    <3>2. Closed(overlay) \in Overlay
      BY <1>a, ClosedType
    <3>3. /\ ~overlay'.active /\ ~overlay'.confirmation_pending
          /\ ~overlay'.takeover_pending /\ ~overlay'.takeover_ready
          /\ overlay'.sequence = overlay.sequence
      BY <1>a, <3>1, <3>2, ClosedFields DEF Overlay
    <3>4. /\ state'.command_status = "confirmed"
          /\ ~state'.override_active /\ ~state'.command_pending
          /\ state'.command_sequence = state.command_sequence
      BY <2>1, <2>2, <3>1, ReportedFields
    <3>q. QED BY <3>3, <3>4, EndedAgrees
  <2>4. CASE ~(overlay.confirmation_pending /\ MainConfirms(f, request))
    <3>1. state' = seen /\ UNCHANGED <<overlay, request, mirror, hardwareReady>>
      BY <1>5, <2>4 DEF MainStateUpdated, seen
    <3>q. QED BY <2>1, <3>1, KeptAgrees
  <2>q. QED BY <2>3, <2>4
<1>6. ASSUME NEW f \in Frame, PanelFrameStarted(f) PROVE OverlayAgreement'
  BY <1>6 DEF PanelFrameStarted, OverlayAgreement
<1>7. ASSUME PanelLineIdle \/ PanelLineResumes PROVE OverlayAgreement'
  BY <1>7 DEF PanelLineIdle, PanelLineResumes, OverlayAgreement
<1>8. ASSUME PanelFrameTimedOut PROVE OverlayAgreement'
  BY <1>8 DEF PanelFrameTimedOut, OverlayAgreement
<1>9. ASSUME PanelFrameReceived PROVE OverlayAgreement'
  <2>1. CASE overlay.active /\ PhysicalChange(panelTask.frame)
    <3>1. /\ overlay' = [Closed(overlay) EXCEPT !.event_pending =
                            @ /\ (PANEL_LOOP_CONTROL \/ ~Closed(overlay).active)]
          /\ state' = Reported(state, "cancelled")
      BY <1>9, <2>1 DEF PanelFrameReceived
    <3>2. Closed(overlay) \in Overlay
      BY <1>a, ClosedType
    <3>3. /\ ~overlay'.active /\ ~overlay'.confirmation_pending
          /\ ~overlay'.takeover_pending /\ ~overlay'.takeover_ready
          /\ overlay'.sequence = overlay.sequence
      BY <1>a, <3>1, <3>2, ClosedFields DEF Overlay
    <3>4. /\ state'.command_status = "cancelled"
          /\ ~state'.override_active /\ ~state'.command_pending
          /\ state'.command_sequence = state.command_sequence
      BY <1>a, <3>1, ReportedFields
    <3>q. QED BY <3>3, <3>4, EndedAgrees
  <2>2. CASE ~(overlay.active /\ PhysicalChange(panelTask.frame))
    <3>1. /\ overlay' = [overlay EXCEPT !.event_pending =
                            @ /\ (PANEL_LOOP_CONTROL \/ ~overlay.active)]
          /\ UNCHANGED <<state, request, hardwareReady>>
      BY <1>9, <2>2 DEF PanelFrameReceived
    <3>q. QED BY <1>a, <3>1, KeptAgrees DEF Overlay
  <2>q. QED BY <2>1, <2>2
<1>10. ASSUME PanelStateUpdated PROVE OverlayAgreement'
  <2>1. /\ UNCHANGED <<overlay, request, hardwareReady>>
        /\ state'.main_valid = state.main_valid /\ state'.panel_valid
        /\ state'.command_status = state.command_status
        /\ state'.override_active = state.override_active
        /\ state'.command_pending = state.command_pending
        /\ state'.command_sequence = state.command_sequence
    BY <1>10, <1>a DEF PanelStateUpdated, AcState
  <2>q. QED BY <2>1, KeptAgrees
<1>11. ASSUME TakeoverGate PROVE OverlayAgreement'
  BY <1>11 DEF TakeoverGate, OverlayAgreement
<1>12. ASSUME TakeoverCommit PROVE OverlayAgreement'
  <2>1. CASE takeover = "gated" /\ overlay.active /\ overlay.takeover_pending
    <3>1. /\ overlay' = [overlay EXCEPT !.takeover_pending = FALSE,
                                        !.takeover_ready = TRUE]
          /\ UNCHANGED <<state, request, hardwareReady>>
      BY <1>12, <2>1 DEF TakeoverCommit
    <3>q. QED BY <1>a, <2>1, <3>1 DEF OverlayAgreement, Overlay
  <2>2. CASE takeover = "failed" /\ overlay.active
    <3>1. /\ overlay' = [Closed(overlay) EXCEPT !.event_pending = FALSE]
          /\ state' = Reported(state, "cancelled")
      BY <1>12, <2>2 DEF TakeoverCommit
    <3>2. Closed(overlay) \in Overlay
      BY <1>a, ClosedType
    <3>3. /\ ~overlay'.active /\ ~overlay'.confirmation_pending
          /\ ~overlay'.takeover_pending /\ ~overlay'.takeover_ready
          /\ overlay'.sequence = overlay.sequence
      BY <1>a, <3>1, <3>2, ClosedFields DEF Overlay
    <3>q. QED BY <1>a, <3>1, <3>3, ReportedFields, EndedAgrees
  <2>3. CASE /\ ~(takeover = "gated" /\ overlay.active /\ overlay.takeover_pending)
             /\ ~(takeover = "failed" /\ overlay.active)
    <3>1. UNCHANGED <<overlay, state, request, hardwareReady>>
      BY <1>12, <2>3 DEF TakeoverCommit
    <3>q. QED BY <3>1 DEF OverlayAgreement
  <2>q. QED BY <2>1, <2>2, <2>3
<1>13. ASSUME Watchdog PROVE OverlayAgreement'
  <2>1. /\ overlay' = [Closed(overlay) EXCEPT !.event_pending = FALSE, !.queued = NoTime]
        /\ state' = Reported(state, "timed_out")
    BY <1>13 DEF Watchdog
  <2>2. Closed(overlay) \in Overlay
    BY <1>a, ClosedType
  <2>3. /\ ~overlay'.active /\ ~overlay'.confirmation_pending
        /\ ~overlay'.takeover_pending /\ ~overlay'.takeover_ready
        /\ overlay'.sequence = overlay.sequence
    BY <1>a, <2>1, <2>2, ClosedFields DEF Overlay
  <2>q. QED BY <1>a, <2>1, <2>3, ReportedFields, EndedAgrees
<1>14. ASSUME Tick PROVE OverlayAgreement'
  <2>1. /\ UNCHANGED <<state, request, hardwareReady>>
        /\ overlay' = [overlay EXCEPT !.queued = Older(@, ConfirmTimeout)]
    BY <1>14 DEF Tick
  <2>2. overlay.queued # NoTime => overlay'.queued # NoTime
    BY <1>a, <2>1, TimesAssumption DEF Older, NoTime, Overlay
  <2>q. QED BY <1>a, <2>1, <2>2, KeptAgrees DEF Overlay
<1>15. ASSUME UNCHANGED vars PROVE OverlayAgreement'
  BY <1>15 DEF vars, OverlayAgreement
<1>q. QED
  BY <1>1, <1>2, <1>3, <1>4, <1>5, <1>6, <1>7, <1>8, <1>9, <1>10, <1>11,
     <1>12, <1>13, <1>14, <1>15, Cases

\* The overlay and what is reported of it agree between any two critical
\* sections of the five tasks, whatever frames and commands arrive.
THEOREM Agreement == Spec => []OverlayAgreement
<1>1. Init => OverlayAgreement
  BY DEF Init, OverlayAgreement
<1>2. TypeOK /\ TypeOK' /\ OverlayAgreement /\ [Next]_vars => OverlayAgreement'
  BY AgreementStep DEF Step
<1>q. QED BY <1>1, <1>2, TypeCorrect, PTL DEF Spec

-----------------------------------------------------------------------------
(* The outcome of a command *)

SameCommand == state'.command_status = state.command_status

Queued == /\ state'.command_status = "pending"
          /\ state'.command_sequence = state.command_sequence + 1

GivenUp == /\ state.command_status = "pending"
           /\ state'.command_status \in {"cancelled", "timed_out"}
           /\ state'.command_sequence = state.command_sequence

Confirmed == /\ state.command_status = "pending"
             /\ state'.command_status = "confirmed"
             /\ state'.command_sequence = state.command_sequence
             /\ Shows(state', request)

\* The confirmation rule of the main-board side is at least as strict as what
\* the services can see.
LEMMA ShownOnceConfirmed ==
    ASSUME NEW s, NEW req, MainConfirms(s.main_raw, req),
           ModeOf(s.main_raw.code) = AC_MODE_COOL => s.setpoint_c = s.main_raw.temp
    PROVE  Shows(s, req)
<1>1. \A code : MainToPanel(PanelToMain(code)) = MainToPanel(code)
  BY DEF MainToPanel, PanelToMain
<1>q. QED BY <1>1 DEF MainConfirms, SharedMatch, Shows

\* There are four things a step can do to the reported outcome.
LEMMA OutcomeStep ==
    TypeOK /\ OverlayAgreement /\ [Next]_vars
        => SameCommand \/ Queued \/ GivenUp \/ Confirmed
<1> SUFFICES ASSUME TypeOK, OverlayAgreement, [Next]_vars
             PROVE  SameCommand \/ Queued \/ GivenUp \/ Confirmed
  OBVIOUS
<1>a. overlay \in Overlay /\ state \in AcState
  BY DEF TypeOK
<1>b. ASSUME state' = state PROVE SameCommand
  BY <1>b DEF SameCommand
<1>1. ASSUME NEW ready \in BOOLEAN, SetHardwareReady(ready) PROVE SameCommand
  BY <1>1, <1>b DEF SetHardwareReady, OverlayAgreement
<1>2. ASSUME NEW req \in Requests, QueueControl(req) PROVE Queued
  BY <1>2, <1>a DEF QueueControl, Queued, AcState, OverlayAgreement
<1>3. ASSUME MainStateUpdated PROVE SameCommand \/ Confirmed
  <2> DEFINE f    == mainTask.frame
             seen == [state EXCEPT !.main_valid = TRUE, !.main_raw = f,
                              !.setpoint_c = IF ModeOf(f.code) = AC_MODE_COOL
                                             THEN f.temp ELSE @]
  <2>1. /\ seen \in AcState
        /\ seen.command_status = state.command_status
        /\ seen.command_sequence = state.command_sequence
        /\ seen.main_raw = f
        /\ ModeOf(f.code) = AC_MODE_COOL => seen.setpoint_c = f.temp
    BY <1>a DEF TypeOK, AcState, Frame, MainTask
  <2> HIDE DEF seen
  <2>2. CASE overlay.confirmation_pending /\ MainConfirms(f, request)
    <3>1. state' = Reported(seen, "confirmed")
      BY <1>3, <2>2 DEF MainStateUpdated, seen
    <3>2. Shows(seen, request)
      BY <2>1, <2>2, ShownOnceConfirmed
    <3>3. Shows(state', request)
      BY <2>1, <3>1, <3>2, ReportedFields DEF Shows
    <3>4. state.command_status = "pending"
      BY <2>2 DEF OverlayAgreement
    <3>q. QED BY <2>1, <3>1, <3>3, <3>4, ReportedFields DEF Confirmed
  <2>3. CASE ~(overlay.confirmation_pending /\ MainConfirms(f, request))
    <3>1. state' = seen
      BY <1>3, <2>3 DEF MainStateUpdated, seen
    <3>q. QED BY <2>1, <3>1 DEF SameCommand
  <2>q. QED BY <2>2, <2>3
<1>4. ASSUME PanelFrameReceived PROVE SameCommand \/ GivenUp
  BY <1>4, <1>a, ReportedFields DEF PanelFrameReceived, SameCommand, GivenUp, OverlayAgreement
<1>5. ASSUME PanelStateUpdated PROVE SameCommand
  BY <1>5, <1>a DEF PanelStateUpdated, SameCommand, AcState
<1>6. ASSUME TakeoverCommit PROVE SameCommand \/ GivenUp
  <2>1. CASE takeover = "failed" /\ overlay.active
    <3>1. state' = Reported(state, "cancelled")
      BY <1>6, <2>1 DEF TakeoverCommit
    <3>q. QED BY <1>a, <2>1, <3>1, ReportedFields DEF GivenUp, OverlayAgreement
  <2>2. CASE ~(takeover = "failed" /\ overlay.active)
    <3>1. state' = state
      BY <1>6, <2>2 DEF TakeoverCommit
    <3>q. QED BY <1>b, <3>1
  <2>q. QED BY <2>1, <2>2
<1>7. ASSUME Watchdog PROVE GivenUp
  BY <1>7, <1>a, ReportedFields DEF Watchdog, GivenUp, OverlayAgreement
<1>8. ASSUME \/ \E f \in MainFrames : MainFrameReceived(f)
             \/ MainFrameForwarded
             \/ \E f \in PanelFrames : PanelFrameStarted(f)
             \/ PanelLineIdle
             \/ PanelLineResumes
             \/ PanelFrameTimedOut
             \/ TakeoverGate
             \/ Tick
             \/ UNCHANGED vars
      PROVE  SameCommand
  BY <1>8, <1>b DEF MainFrameReceived, MainFrameForwarded, PanelFrameStarted,
                    PanelLineIdle, PanelLineResumes, PanelFrameTimedOut,
                    TakeoverGate, Tick, vars
<1>q. QED
  BY <1>1, <1>2, <1>3, <1>4, <1>5, <1>6, <1>7, <1>8
     DEF Next, Services, LinkMain, LinkPanel

\* Whatever ends a command ends it once: its outcome is final until the next
\* command is queued.
THEOREM OneOutcome == Spec => SingleResolution
<1>1. TypeOK /\ OverlayAgreement /\ [Next]_vars =>
        [state'.command_status # state.command_status =>
            \/ /\ state.command_status = "pending"
               /\ state'.command_sequence = state.command_sequence
            \/ /\ state'.command_status = "pending"
               /\ state'.command_sequence = state.command_sequence + 1]_vars
  BY OutcomeStep DEF SameCommand, Queued, GivenUp, Confirmed
<1>q. QED BY <1>1, TypeCorrect, Agreement, PTL DEF Spec, SingleResolution

\* "Confirmed" is never reported of anything but a status of the main board
\* that shows all that was asked for.
THEOREM ConfirmedHonestly == Spec => ConfirmedIsReported
<1>1. TypeOK /\ OverlayAgreement /\ [Next]_vars =>
        [(state'.command_status = "confirmed" /\ state.command_status # "confirmed") =>
            Shows(state', request)]_vars
  BY OutcomeStep DEF SameCommand, Queued, GivenUp, Confirmed
<1>q. QED BY <1>1, TypeCorrect, Agreement, PTL DEF Spec, ConfirmedIsReported

\* A command never inherits a field from one that ended before it.
THEOREM FreshStart == Spec => StartsFromScratch
<1>1. TypeOK /\ [Next]_vars =>
        [(overlay'.sequence # overlay.sequence /\ ~overlay.active) =>
            \E req \in Requests : request' = req]_vars
  <2> SUFFICES ASSUME TypeOK, Next, overlay'.sequence # overlay.sequence, ~overlay.active
               PROVE  \E req \in Requests : request' = req
    BY DEF vars
  <2>a. overlay \in Overlay
    BY DEF TypeOK
  <2>1. \E req \in Requests : QueueControl(req)
    <3>1. ASSUME overlay' = overlay PROVE FALSE
      BY <3>1
    <3>2. ASSUME NEW o, \/ o = [Closed(overlay) EXCEPT !.event_pending = FALSE]
                        \/ o = [Closed(overlay) EXCEPT !.event_pending = FALSE,
                                                       !.queued = NoTime]
          PROVE  o.sequence = overlay.sequence
      BY <3>2, <2>a DEF Closed, Overlay
    <3>3. ~MainStateUpdated
      BY <3>1, <3>2 DEF MainStateUpdated
    <3>4. ~PanelFrameReceived
      BY <3>1, <2>a DEF PanelFrameReceived, Overlay
    <3>5. ~TakeoverCommit
      BY <3>1 DEF TakeoverCommit
    <3>6. ~Watchdog
      BY <3>2 DEF Watchdog
    <3>7. ~Tick
      BY <2>a DEF Tick, Overlay
    <3>8. ~ \E ready \in BOOLEAN : SetHardwareReady(ready)
      BY <3>1 DEF SetHardwareReady
    <3>q. QED
      BY <3>1, <3>3, <3>4, <3>5, <3>6, <3>7, <3>8
         DEF Next, Services, LinkMain, LinkPanel, MainFrameReceived,
             MainFrameForwarded, PanelFrameStarted, PanelLineIdle,
             PanelLineResumes, PanelFrameTimedOut, PanelStateUpdated, TakeoverGate
  <2>2. PICK req \in Requests : QueueControl(req)
    BY <2>1
  <2>3. request' = Merge(EmptyRequest, req)
    BY <2>2 DEF QueueControl, PendingRequest
  <2>q. QED BY <2>3, MergeFromNothing, RequestsAssumption
<1>q. QED BY <1>1, TypeCorrect, PTL DEF Spec, StartsFromScratch

-----------------------------------------------------------------------------
(* The panel's line to the main board *)

\* The strengthening: no takeover is ever asked for, so none is prepared.
NoTakeover ==
    PANEL_LOOP_CONTROL =>
        /\ mirror = TRUE /\ takeover = "idle"
        /\ ~state.injected /\ ~panelTask.injected
        /\ ~overlay.takeover_pending /\ ~overlay.takeover_ready

\* In the shipped profile no step sets a takeover flag or gates the mirror.
LEMMA NoTakeoverStep ==
    TypeOK /\ NoTakeover /\ [Next]_vars => NoTakeover'
<1> SUFFICES ASSUME TypeOK, NoTakeover, [Next]_vars, PANEL_LOOP_CONTROL
             PROVE  /\ mirror' = TRUE /\ takeover' = "idle"
                    /\ ~state'.injected /\ ~panelTask'.injected
                    /\ ~overlay'.takeover_pending /\ ~overlay'.takeover_ready
  BY DEF NoTakeover
<1> DEFINE Goal == /\ mirror' = TRUE /\ takeover' = "idle"
                   /\ ~state'.injected /\ ~panelTask'.injected
                   /\ ~overlay'.takeover_pending /\ ~overlay'.takeover_ready
<1>a. /\ overlay \in Overlay /\ state \in AcState /\ panelTask \in PanelTask
      /\ mirror = TRUE /\ takeover = "idle"
      /\ ~state.injected /\ ~panelTask.injected
      /\ ~overlay.takeover_pending /\ ~overlay.takeover_ready
  BY DEF TypeOK, NoTakeover
<1>b. SetMirror(TRUE) => mirror' = TRUE
  BY <1>a DEF SetMirror
<1>c. ASSUME NEW o, \/ o = Closed(overlay)
                    \/ o = [Closed(overlay) EXCEPT !.event_pending = FALSE]
                    \/ o = [Closed(overlay) EXCEPT !.event_pending = FALSE,
                                                   !.queued = NoTime]
      PROVE  ~o.takeover_pending /\ ~o.takeover_ready
  BY <1>a, <1>c DEF Closed, Overlay
<1>1. ASSUME NEW ready \in BOOLEAN, SetHardwareReady(ready) PROVE Goal
  <2>1. mirror' = TRUE
    BY <1>1, <1>a, <1>b DEF SetHardwareReady
  <2>2. ~state'.injected
    BY <1>1, <1>a, ReportedFields DEF SetHardwareReady
  <2>3. ~overlay'.takeover_pending /\ ~overlay'.takeover_ready
    BY <1>1, <1>a, <1>c DEF SetHardwareReady
  <2>q. QED BY <1>1, <1>a, <2>1, <2>2, <2>3 DEF SetHardwareReady
<1>2. ASSUME NEW req \in Requests, QueueControl(req) PROVE Goal
  <2>1. ~overlay'.takeover_pending /\ ~overlay'.takeover_ready
    BY <1>2 DEF QueueControl
  <2>2. ~state'.injected
    BY <1>2, <1>a DEF QueueControl, AcState
  <2>q. QED BY <1>2, <1>a, <2>1, <2>2 DEF QueueControl
<1>3. ASSUME MainStateUpdated PROVE Goal
  <2> DEFINE f    == mainTask.frame
             seen == [state EXCEPT !.main_valid = TRUE, !.main_raw = f,
                              !.setpoint_c = IF ModeOf(f.code) = AC_MODE_COOL
                                             THEN f.temp ELSE @]
  <2>1. seen \in AcState /\ ~seen.injected
    BY <1>a DEF TypeOK, AcState, Frame, MainTask
  <2> HIDE DEF seen
  <2>2. \/ state' = Reported(seen, "confirmed")
        \/ state' = seen
    BY <1>3 DEF MainStateUpdated, seen
  <2>3. ~state'.injected
    BY <2>1, <2>2, ReportedFields
  <2>4. mirror' = TRUE
    BY <1>3, <1>a, <1>b DEF MainStateUpdated
  <2>5. ~overlay'.takeover_pending /\ ~overlay'.takeover_ready
    BY <1>3, <1>a, <1>c DEF MainStateUpdated
  <2>q. QED BY <1>3, <1>a, <2>3, <2>4, <2>5 DEF MainStateUpdated
<1>4. ASSUME NEW f \in PanelFrames, PanelFrameStarted(f) PROVE Goal
  BY <1>4, <1>a DEF PanelFrameStarted
<1>5. ASSUME PanelFrameTimedOut PROVE Goal
  BY <1>5, <1>a DEF PanelFrameTimedOut, IdlePanelTask
<1>6. ASSUME PanelFrameReceived PROVE Goal
  <2> DEFINE cancel == overlay.active /\ PhysicalChange(panelTask.frame)
             after  == IF cancel THEN Closed(overlay) ELSE overlay
  <2>1. after \in Overlay /\ ~after.takeover_pending /\ ~after.takeover_ready
    BY <1>a, <1>c, ClosedType
  <2>2. /\ overlay' = [after EXCEPT !.event_pending =
                            @ /\ (PANEL_LOOP_CONTROL \/ ~after.active)]
        /\ state' = IF cancel THEN Reported(state, "cancelled") ELSE state
        /\ IF cancel THEN SetMirror(TRUE) ELSE mirror' = mirror
        /\ panelTask' = [panelTask EXCEPT !.pc = "checked", !.out = ZeroFrame,
                            !.injected = /\ after.active /\ after.takeover_ready
                                         /\ CanApply(panelTask.frame, request)]
        /\ takeover' = takeover
    BY <1>6 DEF PanelFrameReceived
  <2> HIDE DEF after, cancel
  <2>3. ~overlay'.takeover_pending /\ ~overlay'.takeover_ready
    BY <2>1, <2>2 DEF Overlay
  <2>4. ~state'.injected
    BY <1>a, <2>2, ReportedFields
  <2>5. ~panelTask'.injected
    BY <1>a, <2>1, <2>2 DEF PanelTask
  <2>q. QED BY <1>a, <1>b, <2>2, <2>3, <2>4, <2>5
<1>7. ASSUME PanelStateUpdated PROVE Goal
  BY <1>7, <1>a DEF PanelStateUpdated, AcState, IdlePanelTask
<1>8. ~TakeoverGate /\ ~TakeoverCommit
  BY <1>a DEF TakeoverGate, TakeoverCommit
<1>9. ASSUME Watchdog PROVE Goal
  <2>1. ~overlay'.takeover_pending /\ ~overlay'.takeover_ready
    BY <1>9, <1>c DEF Watchdog
  <2>q. QED BY <1>9, <1>a, <1>b, <2>1, ReportedFields DEF Watchdog
<1>10. ASSUME Tick PROVE Goal
  BY <1>10, <1>a DEF Tick, Overlay
<1>11. ASSUME \/ \E f \in MainFrames : MainFrameReceived(f)
              \/ MainFrameForwarded
              \/ PanelLineIdle
              \/ PanelLineResumes
              \/ UNCHANGED vars
       PROVE  Goal
  BY <1>11, <1>a DEF MainFrameReceived, MainFrameForwarded, PanelLineIdle,
                     PanelLineResumes, vars
<1>q. QED
  BY <1>1, <1>2, <1>3, <1>4, <1>5, <1>6, <1>7, <1>8, <1>9, <1>10, <1>11
     DEF Next, Services, LinkMain, LinkPanel

\* In the shipped profile the hardware mirror carries the panel's line at all
\* times: no command, however it ends, puts the firmware into that path.
THEOREM LineUntouched == Spec => []PanelLineUntouched
<1>1. Init => NoTakeover
  BY DEF Init, NoTakeover, IdlePanelTask
<1>2. TypeOK /\ NoTakeover /\ [Next]_vars => NoTakeover'
  BY NoTakeoverStep
<1>3. NoTakeover => PanelLineUntouched
  BY DEF NoTakeover, PanelLineUntouched
<1>q. QED BY <1>1, <1>2, <1>3, TypeCorrect, PTL DEF Spec

-----------------------------------------------------------------------------
(* Giving the panel's line back *)

\* The strengthening: a takeover that is about to report its failure has left
\* the mirror on, so the command it then cancels has nothing to give back.
LineInv ==
    /\ LineReturned
    /\ takeover = "failed" => mirror

\* Every step that ends a command turns the mirror on in the same step, unless
\* that is the takeover that never gated it.
LEMMA LineInvStep ==
    ASSUME TRUE \notin MirrorMayFail, TypeOK, LineInv, [Next]_vars
    PROVE  LineInv'
<1>1. SetMirror(TRUE) => mirror' = TRUE
  BY DEF SetMirror
<1>2. ASSUME mirror' = TRUE PROVE LineInv'
  BY <1>2 DEF LineInv, LineReturned
<1>3. ASSUME overlay'.active = overlay.active, mirror' = mirror, takeover' = takeover
      PROVE  LineInv'
  BY <1>3 DEF LineInv, LineReturned
<1>4. ASSUME NEW ready \in BOOLEAN, SetHardwareReady(ready) PROVE LineInv'
  BY <1>1, <1>2, <1>3, <1>4 DEF SetHardwareReady
<1>5. ASSUME NEW req \in Requests, QueueControl(req) PROVE LineInv'
  BY <1>5 DEF QueueControl, LineInv, LineReturned
<1>6. ASSUME MainStateUpdated PROVE LineInv'
  BY <1>1, <1>2, <1>3, <1>6 DEF MainStateUpdated
<1>7. ASSUME PanelFrameReceived PROVE LineInv'
  <2>1. CASE overlay.active /\ PhysicalChange(panelTask.frame)
    BY <1>1, <1>2, <1>7, <2>1 DEF PanelFrameReceived
  <2>2. CASE ~(overlay.active /\ PhysicalChange(panelTask.frame))
    <3>1. overlay'.active = overlay.active
      BY <1>7, <2>2 DEF PanelFrameReceived, TypeOK, Overlay
    <3>q. QED BY <1>3, <1>7, <2>2, <3>1 DEF PanelFrameReceived
  <2>q. QED BY <2>1, <2>2
<1>8. ASSUME TakeoverGate PROVE LineInv'
  BY <1>8 DEF TakeoverGate, LineInv, LineReturned
<1>9. ASSUME TakeoverCommit PROVE LineInv'
  <2>1. takeover' = "idle" /\ mirror' = mirror
    BY <1>9 DEF TakeoverCommit
  <2>2. CASE takeover = "failed"
    BY <1>2, <2>1, <2>2 DEF LineInv, TypeOK
  <2>3. CASE takeover # "failed"
    <3>1. overlay'.active = overlay.active
      BY <1>9, <2>3 DEF TakeoverCommit, TypeOK, Overlay
    <3>q. QED BY <2>1, <3>1 DEF LineInv, LineReturned
  <2>q. QED BY <2>2, <2>3
<1>10. ASSUME Watchdog PROVE LineInv'
  BY <1>1, <1>2, <1>10 DEF Watchdog
<1>11. ASSUME Tick PROVE LineInv'
  BY <1>3, <1>11 DEF Tick, TypeOK, Overlay
<1>12. ASSUME \/ \E f \in MainFrames : MainFrameReceived(f)
              \/ MainFrameForwarded
              \/ \E f \in PanelFrames : PanelFrameStarted(f)
              \/ PanelLineIdle
              \/ PanelLineResumes
              \/ PanelFrameTimedOut
              \/ PanelStateUpdated
              \/ UNCHANGED vars
       PROVE  LineInv'
  BY <1>3, <1>12 DEF MainFrameReceived, MainFrameForwarded, PanelFrameStarted,
                     PanelLineIdle, PanelLineResumes, PanelFrameTimedOut,
                     PanelStateUpdated, vars
<1>q. QED
  BY <1>4, <1>5, <1>6, <1>7, <1>8, <1>9, <1>10, <1>11, <1>12
     DEF Next, Services, LinkMain, LinkPanel

\* As long as turning the mirror on does not fail, a command that has ended, in
\* whatever way, has given the panel's line back to it.
THEOREM LineAlwaysReturned ==
    ASSUME TRUE \notin MirrorMayFail PROVE Spec => []LineReturned
<1>1. Init => LineInv
  BY DEF Init, LineInv, LineReturned
<1>2. TypeOK /\ LineInv /\ [Next]_vars => LineInv'
  BY LineInvStep
<1>3. LineInv => LineReturned
  BY DEF LineInv
<1>q. QED BY <1>1, <1>2, <1>3, TypeCorrect, PTL DEF Spec

-----------------------------------------------------------------------------
(* What an overlay writes                                                   *)

\* Overlaying a request writes the fields it has and no other ones, whichever
\* direction the frame goes.
OverlaidBy(r, f, req, event) ==
    /\ r \in Frame /\ r.event = event /\ r.sum = TRUE /\ r.rest = f.rest
    /\ r.power = Requested(req, "power", f.power)
    /\ \A flag \in FlagField : r[flag] = Requested(req, flag, f[flag])
    /\ r.temp = Requested(req, "setpoint", Bootstrap(f, req).temp)
    /\ r.encoded = IF "setpoint" \in DOMAIN req
                   THEN EncodeSetpoint(req.setpoint)
                   ELSE Bootstrap(f, req).encoded

LEMMA Overlaid ==
    ASSUME NEW req, IsRequest(req), NEW f \in Frame, NEW event \in BOOLEAN
    PROVE  /\ OverlaidBy(ApplyControl(f, req, event), f, req, event)
           /\ OverlaidBy(ApplyControlMain(f, req, event), f, req, event)
<1> SUFFICES ASSUME NEW r, \/ r = ApplyControl(f, req, event)
                           \/ r = ApplyControlMain(f, req, event)
             PROVE  OverlaidBy(r, f, req, event)
  OBVIOUS
<1> DEFINE g == Bootstrap(f, req)
           w == WriteFields(g, req, event)
<1>1. r \in Frame
  BY ApplyType
<1>2. /\ g \in Frame /\ g.power = f.power /\ g.rest = f.rest
      /\ \A flag \in FlagField : g[flag] = f[flag]
  BY BootstrapType DEF Bootstrap, Frame, FlagField
<1>3. \E code : r = [w EXCEPT !.code = code]
  BY DEF ApplyControl, ApplyControlMain
<1> HIDE DEF g
<1>4. /\ w.event = event /\ w.sum = TRUE /\ w.rest = g.rest
      /\ w.power = Requested(req, "power", g.power)
      /\ \A flag \in FlagField : w[flag] = Requested(req, flag, g[flag])
      /\ w.temp = Requested(req, "setpoint", g.temp)
      /\ w.encoded = IF "setpoint" \in DOMAIN req
                     THEN EncodeSetpoint(req.setpoint) ELSE g.encoded
  BY <1>2 DEF WriteFields, Frame, FlagField
<1>5. w = [field \in {"event", "code", "power", "quiet", "units", "timer", "temp",
                      "encoded", "rest", "sum"} |-> w[field]]
  BY <1>2 DEF WriteFields, Frame
<1> HIDE DEF w
<1>6. /\ r.event = w.event /\ r.sum = w.sum /\ r.rest = w.rest /\ r.power = w.power
      /\ \A flag \in FlagField : r[flag] = w[flag]
      /\ r.temp = w.temp /\ r.encoded = w.encoded
  BY <1>3, <1>5 DEF FlagField
<1> QED
  BY <1>1, <1>2, <1>4, <1>6 DEF g, OverlaidBy

-----------------------------------------------------------------------------
(* The loop through the two devices                                         *)

\* What the devices make of a frame is a frame.
LEMMA DeviceFrames ==
    ASSUME panel \in Frame, board \in Frame, NEW f \in Frame
    PROVE  PanelAdopts(f) \in Frame /\ BoardObeys(f) \in Frame
<1>1. \A own \in Frame : TargetFrom(f, own) \in Frame
  BY DEF TargetFrom, Frame
<1>2. \A g \in Frame : /\ MainToPanel(g.code) \in Byte /\ PanelToMain(g.code) \in Byte
                       /\ [g EXCEPT !.code = MainToPanel(g.code)] \in Frame
                       /\ [g EXCEPT !.code = PanelToMain(g.code)] \in Frame
  BY DEF MainToPanel, PanelToMain, Frame, Byte
<1>3. PanelAdopts(f) \in Frame
  BY <1>1, <1>2 DEF PanelAdopts
<1> DEFINE next == [TargetFrom(f, board) EXCEPT !.code = PanelToMain(@)]
<1>4. next \in Frame
  BY <1>1, <1>2
<1>5. BoardObeys(f) = [next EXCEPT !.event = board.event \/ Payload(next) # Payload(board)]
  BY DEF BoardObeys
<1> HIDE DEF next
<1>6. (board.event \/ Payload(next) # Payload(board)) \in BOOLEAN
  OBVIOUS
<1>7. BoardObeys(f) \in Frame
  BY <1>4, <1>5, <1>6 DEF Frame
<1> QED
  BY <1>3, <1>7

LoopTypeOK == TypeOK /\ panel \in Frame /\ board \in Frame

\* Closing the loop adds no step to the bridge.
LEMMA LoopIsBridge ==
    ASSUME LoopTypeOK, [LoopNext]_loopVars
    PROVE  [Step]_vars
<1>1. CASE Press \/ UNCHANGED loopVars
  BY <1>1 DEF Press, loopVars
<1>2. CASE PanelSends \/ BoardSends \/ PanelIsShown \/ PanelSent
  BY <1>2 DEF PanelSends, BoardSends, PanelIsShown, PanelSent, LoopTypeOK, Step,
              Next, LinkMain, LinkPanel
<1>3. CASE Inside(Services) \/ Inside(MainStateUpdated) \/ Inside(PanelStateUpdated)
           \/ Inside(Watchdog) \/ Inside(Tick)
  BY <1>3 DEF Inside, Step, Next, LinkMain, LinkPanel
<1> QED
  BY <1>1, <1>2, <1>3 DEF LoopNext

\* The bridge and the two devices keep their types.
LEMMA LoopTypeStep == LoopTypeOK /\ [LoopNext]_loopVars => LoopTypeOK'
<1> SUFFICES ASSUME LoopTypeOK, [LoopNext]_loopVars PROVE LoopTypeOK'
  OBVIOUS
<1>1. TypeOK'
  BY LoopIsBridge, TypeStep DEF LoopTypeOK
<1>2. panel \in Frame /\ board \in Frame /\ panelTask.out \in Frame /\ mainTask.out \in Frame
  BY DEF LoopTypeOK, TypeOK, MainTask, PanelTask
<1>3. CASE Press
  BY <1>1, <1>2, <1>3, DevicesAssumption DEF Press, LoopTypeOK, Frame
<1>4. CASE PanelSends
  BY <1>1, <1>2, <1>4 DEF PanelSends, LoopTypeOK
<1>5. CASE PanelSent
  BY <1>1, <1>2, <1>5, DeviceFrames DEF PanelSent, LoopTypeOK
<1>6. CASE BoardSends
  BY <1>1, <1>2, <1>6 DEF BoardSends, LoopTypeOK, Frame
<1>7. CASE PanelIsShown
  BY <1>1, <1>2, <1>7, DeviceFrames DEF PanelIsShown, LoopTypeOK
<1>8. CASE Inside(Services) \/ Inside(MainStateUpdated) \/ Inside(PanelStateUpdated)
           \/ Inside(Watchdog) \/ Inside(Tick) \/ UNCHANGED loopVars
  BY <1>1, <1>2, <1>8 DEF Inside, loopVars, LoopTypeOK
<1> QED
  BY <1>3, <1>4, <1>5, <1>6, <1>7, <1>8 DEF LoopNext

\* Who started the devices started them with types.
LEMMA LoopTypeInit == LoopInit => LoopTypeOK
BY TypeInit, DevicesAssumption DEF LoopInit, LoopTypeOK

\* What anyone ever wanted of a flag: the devices as they started, a person at
\* the panel, a client of a service.
Asked(flag) ==
    {s.panel[flag] : s \in Starts} \cup {s.board[flag] : s \in Starts}
        \cup {p[flag] : p \in Presses}
        \cup {req[flag] : req \in {r \in Requests : flag \in DOMAIN r}}

OnlyAsked(f) == \A flag \in FlagField : f[flag] \in Asked(flag)

\* Nothing else is in any frame on its way, nor in the command.
AskedInv ==
    /\ OnlyAsked(panel) /\ OnlyAsked(board)
    /\ mainTask.pc # "idle" => OnlyAsked(mainTask.frame)
    /\ mainTask.pc = "copied" => OnlyAsked(mainTask.out)
    /\ panelTask.pc # "idle" => OnlyAsked(panelTask.frame)
    /\ panelTask.pc = "receiving" => OnlyAsked(panelTask.out)
    /\ state.panel_valid => OnlyAsked(state.panel_raw)
    /\ \A flag \in FlagField \cap DOMAIN request : request[flag] \in Asked(flag)

\* An overlay on such a frame is such a frame.
LEMMA OverlaidAsked ==
    ASSUME IsRequest(request), NEW f \in Frame, OnlyAsked(f), NEW event \in BOOLEAN,
           \A flag \in FlagField \cap DOMAIN request : request[flag] \in Asked(flag)
    PROVE  /\ OnlyAsked(ApplyControl(f, request, event))
           /\ OnlyAsked(ApplyControlMain(f, request, event))
<1>1. ASSUME NEW r, \/ r = ApplyControl(f, request, event)
                    \/ r = ApplyControlMain(f, request, event)
      PROVE  OnlyAsked(r)
  <2>1. OverlaidBy(r, f, request, event)
    BY <1>1, Overlaid
  <2> QED
    BY <2>1 DEF OverlaidBy, OnlyAsked, Requested
<1> QED
  BY <1>1

\* The devices take the flags over as they are.
LEMMA DevicesAsked ==
    ASSUME panel \in Frame, board \in Frame, NEW f \in Frame, OnlyAsked(f),
           OnlyAsked(panel)
    PROVE  OnlyAsked(PanelAdopts(f)) /\ OnlyAsked(BoardObeys(f))
<1>1. \A own \in Frame : /\ TargetFrom(f, own) \in Frame
                         /\ OnlyAsked(TargetFrom(f, own))
  BY DEF TargetFrom, Frame, OnlyAsked, FlagField
<1>2. \A g \in Frame : \A code : OnlyAsked(g) =>
            OnlyAsked([g EXCEPT !.code = code])
  BY DEF Frame, OnlyAsked, FlagField
<1>3. OnlyAsked(PanelAdopts(f))
  BY <1>1, <1>2 DEF PanelAdopts
<1> DEFINE next == TargetFrom(f, board)
           code == PanelToMain(next.code)
           set  == [next EXCEPT !.code = code]
           mark == board.event \/ Payload(set) # Payload(board)
<1>4. BoardObeys(f) = [[next EXCEPT !.code = code] EXCEPT !.event = mark]
  BY DEF BoardObeys
<1>5. next \in Frame /\ OnlyAsked(next)
  BY <1>1
<1> HIDE DEF next, code, mark
<1>6. OnlyAsked([[next EXCEPT !.code = code] EXCEPT !.event = mark])
  BY <1>5 DEF Frame, OnlyAsked, FlagField
<1>7. OnlyAsked(BoardObeys(f))
  BY <1>4, <1>6, Zenon
<1> QED
  BY <1>3, <1>7

\* Every step of the loop keeps it so.
LEMMA AskedStep == LoopTypeOK /\ AskedInv /\ [LoopNext]_loopVars => AskedInv'
<1> SUFFICES ASSUME LoopTypeOK, AskedInv, [LoopNext]_loopVars PROVE AskedInv'
  OBVIOUS
<1>1. /\ panel \in Frame /\ board \in Frame /\ IsRequest(request)
      /\ overlay \in Overlay /\ state \in AcState
      /\ mainTask \in MainTask /\ panelTask \in PanelTask
  BY DEF LoopTypeOK, TypeOK
<1>2. \A f, g : f.quiet = g.quiet /\ f.units = g.units /\ f.timer = g.timer =>
            (OnlyAsked(f) <=> OnlyAsked(g))
  BY DEF OnlyAsked, FlagField
<1>3. CASE Press
  <2>1. PICK p \in Presses : panel' = [p EXCEPT !.event = TRUE]
    BY <1>3 DEF Press
  <2>2. OnlyAsked(p)
    BY DEF OnlyAsked, Asked
  <2>3. p \in Frame
    BY DevicesAssumption
  <2>4. OnlyAsked(panel')
    BY <2>1, <2>2, <2>3 DEF OnlyAsked, FlagField, Frame
  <2>5. UNCHANGED <<board, mainTask, panelTask, state, request>>
    BY <1>3 DEF Press, vars
  <2> QED
    BY <2>4, <2>5 DEF AskedInv, OnlyAsked, Asked
<1>4. CASE PanelSends
  <2>1. /\ panelTask' = [pc |-> "receiving", frame |-> panel, out |-> ToMain(panel),
                         injected |-> FALSE]
        /\ UNCHANGED <<panel, board, mainTask, state, request>>
    BY <1>4 DEF PanelSends, PanelFrameStarted
  <2>2. OnlyAsked(ToMain(panel))
    BY <1>1, OverlaidAsked DEF ToMain, AskedInv, AcState, Overlay
  <2> QED
    BY <2>1, <2>2 DEF AskedInv, OnlyAsked, Asked
<1>5. CASE PanelSent
  <2>1. /\ panelTask.pc = "receiving"
        /\ panelTask' = [panelTask EXCEPT !.pc = "checked", !.out = ZeroFrame,
                                          !.injected = panelTask'.injected]
        /\ state' \in {state, Reported(state, "cancelled")}
        /\ board' = BoardObeys(panelTask.out)
        /\ UNCHANGED <<panel, mainTask, request>>
    BY <1>1, <1>5 DEF PanelSent, PanelFrameReceived, PanelTask
  <2>2. OnlyAsked(board')
    BY <1>1, <2>1, DevicesAsked DEF AskedInv, PanelTask
  <2>3. panelTask'.pc = "checked" /\ panelTask'.frame = panelTask.frame
    BY <1>1, <2>1 DEF PanelTask
  <2>4. state'.panel_valid = state.panel_valid /\ state'.panel_raw = state.panel_raw
    BY <1>1, <2>1 DEF Reported, AcState
  <2> QED
    BY <2>1, <2>2, <2>3, <2>4 DEF AskedInv, OnlyAsked, Asked
<1>6. CASE BoardSends
  <2>1. /\ mainTask'.pc = "copied" /\ mainTask'.frame = board
        /\ mainTask'.out \in {board, ApplyControlMain(board, request, overlay.event_pending)}
        /\ board' = [board EXCEPT !.event = FALSE]
        /\ UNCHANGED <<panel, panelTask, state, request>>
    BY <1>6 DEF BoardSends, MainFrameReceived
  <2>2. OnlyAsked(mainTask'.out)
    BY <1>1, <2>1, OverlaidAsked DEF AskedInv, Overlay
  <2>3. OnlyAsked(board')
    BY <1>1, <2>1 DEF AskedInv, OnlyAsked, Frame, FlagField
  <2> QED
    BY <2>1, <2>2, <2>3 DEF AskedInv, OnlyAsked, Asked
<1>7. CASE PanelIsShown
  <2>1. /\ mainTask.pc = "copied"
        /\ mainTask'.pc = "forwarded" /\ mainTask'.frame = mainTask.frame
        /\ panel' = PanelAdopts(mainTask.out)
        /\ UNCHANGED <<board, panelTask, state, request>>
    BY <1>7 DEF PanelIsShown, MainFrameForwarded, IdleMainTask
  <2>2. OnlyAsked(panel')
    BY <1>1, <2>1, DevicesAsked DEF AskedInv, MainTask
  <2> QED
    BY <2>1, <2>2 DEF AskedInv, OnlyAsked, Asked
<1>8. ASSUME NEW req \in Requests, QueueControl(req), UNCHANGED <<panel, board>>
      PROVE  AskedInv'
  <2>1. /\ request' = Merge(PendingRequest, req)
        /\ state'.panel_valid = state.panel_valid /\ state'.panel_raw = state.panel_raw
        /\ UNCHANGED <<mainTask, panelTask>>
    BY <1>1, <1>8 DEF QueueControl, AcState
  <2>2. \A flag \in FlagField \cap DOMAIN req : req[flag] \in Asked(flag)
    BY DEF Asked
  <2>3. \A flag \in FlagField \cap DOMAIN PendingRequest :
            PendingRequest[flag] \in Asked(flag)
    BY DEF PendingRequest, AskedInv, EmptyRequest
  <2>4. \A flag \in FlagField \cap DOMAIN request' : request'[flag] \in Asked(flag)
    BY <2>1, <2>2, <2>3 DEF Merge
  <2> QED
    BY <1>8, <2>1, <2>4 DEF AskedInv, OnlyAsked, Asked
<1>9. ASSUME NEW ready, SetHardwareReady(ready), UNCHANGED <<panel, board>>
      PROVE  AskedInv'
  <2>1. /\ state' \in {state, Reported(state, "cancelled")}
        /\ UNCHANGED <<request, mainTask, panelTask>>
    BY <1>9 DEF SetHardwareReady
  <2>2. state'.panel_valid = state.panel_valid /\ state'.panel_raw = state.panel_raw
    BY <1>1, <2>1 DEF Reported, AcState
  <2> QED
    BY <1>9, <2>1, <2>2 DEF AskedInv, OnlyAsked, Asked
<1>10. CASE Inside(MainStateUpdated)
  <2>1. /\ request' \in {request, EmptyRequest}
        /\ mainTask'.pc = "idle"
        /\ UNCHANGED <<panel, board, panelTask>>
    BY <1>10 DEF Inside, MainStateUpdated, IdleMainTask
  <2> DEFINE seen == [state EXCEPT !.main_valid = TRUE, !.main_raw = mainTask.frame,
                              !.setpoint_c = IF ModeOf(mainTask.frame.code) = AC_MODE_COOL
                                             THEN mainTask.frame.temp ELSE @]
  <2>2. state' \in {seen, Reported(seen, "confirmed")}
    BY <1>10 DEF Inside, MainStateUpdated
  <2>3. state'.panel_valid = state.panel_valid /\ state'.panel_raw = state.panel_raw
    BY <1>1, <2>2 DEF Reported, AcState
  <2> QED
    BY <2>1, <2>3 DEF AskedInv, OnlyAsked, Asked, EmptyRequest
<1>11. CASE Inside(PanelStateUpdated)
  <2>1. /\ panelTask.pc = "checked" /\ panelTask'.pc = "idle"
        /\ state'.panel_raw = panelTask.frame
        /\ UNCHANGED <<panel, board, mainTask, request>>
    BY <1>1, <1>11 DEF Inside, PanelStateUpdated, IdlePanelTask, AcState
  <2> QED
    BY <2>1 DEF AskedInv, OnlyAsked, Asked
<1>12. CASE Inside(Watchdog)
  <2>1. /\ request' = EmptyRequest
        /\ state'.panel_valid = state.panel_valid /\ state'.panel_raw = state.panel_raw
        /\ UNCHANGED <<panel, board, mainTask, panelTask>>
    BY <1>1, <1>12 DEF Inside, Watchdog, Reported, AcState
  <2> QED
    BY <2>1 DEF AskedInv, OnlyAsked, Asked, EmptyRequest
<1>13. CASE Inside(Tick) \/ UNCHANGED loopVars
  <2>1. UNCHANGED <<panel, board, mainTask, panelTask, state, request>>
    BY <1>13 DEF Inside, Tick, loopVars, vars
  <2> QED
    BY <2>1 DEF AskedInv, OnlyAsked, Asked
<1> QED
  BY <1>3, <1>4, <1>5, <1>6, <1>7, <1>8, <1>9, <1>10, <1>11, <1>12, <1>13
     DEF LoopNext, Inside, Services

\* What a request or a person at the panel may make of a flag.
Wanted(flag) ==
    {p[flag] : p \in Presses} \cup {req[flag] : req \in {r \in Requests : flag \in DOMAIN r}}

\* The loop keeps its types.
LEMMA LoopTypeCorrect == LoopSpec => []LoopTypeOK
BY LoopTypeInit, LoopTypeStep, PTL DEF LoopSpec

\* Every frame on its way, and the command.
LEMMA AskedAlways == LoopSpec => []AskedInv
<1>1. LoopInit => AskedInv
  <2> SUFFICES ASSUME LoopInit PROVE AskedInv
    OBVIOUS
  <2>1. /\ mainTask.pc = "idle" /\ panelTask.pc = "idle" /\ ~state.panel_valid
        /\ DOMAIN request = {}
    BY DEF LoopInit, Init, IdleMainTask, IdlePanelTask, EmptyRequest
  <2>2. OnlyAsked(panel) /\ OnlyAsked(board)
    BY DEF LoopInit, OnlyAsked, Asked
  <2> QED
    BY <2>1, <2>2 DEF AskedInv
<1> QED
  BY <1>1, AskedStep, LoopTypeCorrect, PTL DEF LoopSpec

\* A flag that the devices start with and that nobody asks to be different
\* stays as it is in both of them: no command, however it ends and whatever
\* frames it meets on the way, touches a field it does not have
\* (ac_protocol_apply_control_main).
THEOREM FlagsAreAsked == LoopSpec => [](OnlyAsked(panel) /\ OnlyAsked(board))
<1>1. AskedInv => OnlyAsked(panel) /\ OnlyAsked(board)
  BY DEF AskedInv
<1> QED
  BY <1>1, AskedAlways, PTL

\* Where a flag can be changed it can be changed back: then every change of it
\* at the appliance is one that somebody requested or keyed in.
THEOREM NothingElse ==
    ASSUME \A flag \in FlagField : Asked(flag) = BOOLEAN => Wanted(flag) = BOOLEAN
    PROVE  LoopSpec => NothingElseChanges
<1>1. ASSUME LoopTypeOK, AskedInv, LoopTypeOK', AskedInv', NEW flag \in FlagField,
             board'[flag] # board[flag]
      PROVE  \/ \E req \in Requests : flag \in DOMAIN req /\ req[flag] = board'[flag]
             \/ \E p \in Presses : p[flag] = board'[flag]
  <2>1. board[flag] \in BOOLEAN /\ board'[flag] \in BOOLEAN
    BY <1>1 DEF LoopTypeOK, Frame, FlagField
  <2>2. board[flag] \in Asked(flag) /\ board'[flag] \in Asked(flag)
    BY <1>1 DEF AskedInv, OnlyAsked, Asked
  <2>3. Asked(flag) \subseteq BOOLEAN
    BY DevicesAssumption, RequestsAssumption
       DEF Asked, Frame, FlagField, IsRequest, Field
  <2>4. Asked(flag) = BOOLEAN
    BY <1>1, <2>1, <2>2, <2>3
  <2>5. board'[flag] \in Wanted(flag)
    BY <2>1, <2>4
  <2> QED
    BY <2>5 DEF Wanted
<1>2. LoopTypeOK /\ AskedInv /\ LoopTypeOK' /\ AskedInv' /\ [LoopNext]_loopVars =>
        [\A flag \in FlagField : board'[flag] # board[flag] =>
            \/ \E req \in Requests : flag \in DOMAIN req /\ req[flag] = board'[flag]
            \/ \E p \in Presses : p[flag] = board'[flag]]_loopVars
  BY <1>1
<1> QED
  BY <1>2, AskedAlways, LoopTypeCorrect, PTL DEF LoopSpec, NothingElseChanges

-----------------------------------------------------------------------------
(* What the front ends queue                                                *)

\* What the parsers hand over: functions from the keys they know to values,
\* the switches among them Boolean.
Parsed(message) ==
    /\ message = [key \in DOMAIN message |-> message[key]]
    /\ \A key \in DOMAIN message \cap {"power", "quiet", "units"} :
            message[key] \in BOOLEAN

\* A request in range that names its mode and fan in one way only.
Clean(req) ==
    /\ IsRequest(req) /\ DOMAIN req # {} /\ ValidRequest(req)
    /\ "raw" \in DOMAIN req => DOMAIN req \cap {"mode", "fan"} = {}

\* A mode by name, of MQTT or of the thermostat.
LEMMA ModeNamed ==
    ASSUME NEW name \in MqttModeNames
    PROVE  /\ Clean(MqttModeRequest(name))
           /\ DOMAIN MqttModeRequest(name) \subseteq {"power", "mode"}
<1> DEFINE req == MqttModeRequest(name)
<1>1. CASE name = "off"
  <2>1. /\ DOMAIN req = {"power"} /\ req = [field \in DOMAIN req |-> req[field]]
        /\ req["power"] = FALSE
    BY <1>1 DEF MqttModeRequest
  <2> HIDE DEF req
  <2>2. Clean(req)
    BY <2>1 DEF Clean, IsRequest, ValidRequest, Field, FlagField
  <2> QED
    BY <2>1, <2>2 DEF req
<1>2. CASE name # "off"
  <2>1. /\ DOMAIN req = {"power", "mode"} /\ req = [field \in DOMAIN req |-> req[field]]
        /\ req["power"] = TRUE /\ req["mode"] = MqttMode[name]
    BY <1>2 DEF MqttModeRequest
  <2>2. name \in {"cool", "fan_only", "dry"}
    BY <1>2 DEF MqttModeNames, MqttMode
  <2>3. MqttMode[name] \in {AC_MODE_FAN, AC_MODE_COOL, AC_MODE_DRY}
    BY <2>2 DEF MqttMode
  <2>4. MqttMode[name] \in Byte
    BY <2>3 DEF Byte, AC_MODE_FAN, AC_MODE_COOL, AC_MODE_DRY
  <2> HIDE DEF req
  <2>5. IsRequest(req)
    BY <2>1, <2>4 DEF IsRequest, Field, FlagField
  <2>6. ValidRequest(req)
    BY <2>1, <2>3 DEF ValidRequest
  <2> QED
    BY <2>1, <2>5, <2>6 DEF Clean, req
<1> QED
  BY <1>1, <1>2

\* Merging keeps a command in range and unambiguous.
LEMMA MergeClean ==
    ASSUME NEW old, NEW new, IsRequest(old), ValidRequest(old),
           "raw" \in DOMAIN old => DOMAIN old \cap {"mode", "fan"} = {}, Clean(new)
    PROVE  Clean(Merge(old, new))
<1> DEFINE req == Merge(old, new)
<1>1. IsRequest(req) /\ DOMAIN req # {}
  BY MergeType DEF Clean
<1>2. /\ DOMAIN req = (DOMAIN old \ ((IF {"mode", "fan"} \cap DOMAIN new # {} THEN {"raw"}
                                      ELSE {})
                           \cup (IF "raw" \in DOMAIN new THEN {"mode", "fan"} ELSE {})))
                      \cup DOMAIN new
      /\ \A field \in DOMAIN req :
            req[field] = IF field \in DOMAIN new THEN new[field] ELSE old[field]
  BY DEF Merge
<1> HIDE DEF req
<1>3. \A field \in DOMAIN req : field \notin DOMAIN new =>
            field \in DOMAIN old /\ req[field] = old[field]
  BY <1>2
<1>4. ValidRequest(req)
  BY <1>2, <1>3 DEF ValidRequest, Clean
<1>5. "raw" \in DOMAIN req => DOMAIN req \cap {"mode", "fan"} = {}
  BY <1>2 DEF Clean
<1> QED
  BY <1>1, <1>4, <1>5 DEF Clean, req

\* Whatever a front end accepts is a request in range, without the timer, that
\* names its mode and fan in one way only: of the checks of
\* bridge_service_queue_control none but those of the hardware, the links and
\* the target's mode can refuse it, and every overlay of it succeeds.
\* Only the HTTP service can ask for a raw code.
THEOREM FrontEndsSound ==
    ASSUME NEW bodies, NEW messages, NEW writes,
           \A body \in bodies : DOMAIN body \subseteq Field,
           \A message \in messages \cup writes : Parsed(message),
           NEW req \in RequestsFrom(bodies, messages, writes)
    PROVE  /\ Clean(req) /\ "timer" \notin DOMAIN req
           /\ "raw" \in DOMAIN req => \E body \in bodies : WebAccepts(body)
<1>1. ASSUME NEW body \in bodies, WebAccepts(body), req = WebRequest(body)
      PROVE  Clean(req) /\ "timer" \notin DOMAIN req
  <2>1. /\ DOMAIN body \subseteq Field /\ DOMAIN body # {}
        /\ \A key \in DOMAIN body : body[key] \in WebAllows[key]
        /\ "raw" \in DOMAIN body => DOMAIN body \cap {"mode", "fan"} = {}
    BY <1>1 DEF WebAccepts
  <2>2. /\ DOMAIN req = DOMAIN body /\ req = [field \in DOMAIN req |-> req[field]]
        /\ \A field \in DOMAIN req : req[field] =
                CASE field = "mode" -> WebMode[body.mode]
                  [] field = "fan"  -> FanNamed[body.fan]
                  [] OTHER          -> body[field]
    BY <1>1 DEF WebRequest
  <2>3. "timer" \notin DOMAIN body
    BY <2>1 DEF WebAllows
  <2>4. "mode" \in DOMAIN req => req.mode \in {AC_MODE_FAN, AC_MODE_COOL, AC_MODE_DRY}
    <3>1. "mode" \in DOMAIN body => body.mode \in {"cool", "fan", "dry"}
      BY <2>1 DEF WebAllows, WebMode
    <3> QED
      BY <2>2, <3>1 DEF WebMode
  <2>5. "fan" \in DOMAIN req => req.fan \in {AC_FAN_LOW, AC_FAN_HIGH}
    <3>1. "fan" \in DOMAIN body => body.fan \in {"low", "high"}
      BY <2>1 DEF WebAllows, FanNamed
    <3> QED
      BY <2>2, <3>1 DEF FanNamed
  <2>6. /\ "setpoint" \in DOMAIN req => req.setpoint \in 18..32
        /\ "raw" \in DOMAIN req => req.raw \in Byte
        /\ \A field \in {"power", "quiet", "units"} :
                field \in DOMAIN req => req[field] \in BOOLEAN
    BY <2>1, <2>2 DEF WebAllows
  <2>7. IsRequest(req)
    BY <2>1, <2>2, <2>3, <2>4, <2>5, <2>6
       DEF IsRequest, Field, FlagField, Byte, AC_MODE_FAN, AC_MODE_COOL, AC_MODE_DRY,
           AC_FAN_LOW, AC_FAN_HIGH
  <2> QED
    BY <2>1, <2>2, <2>3, <2>4, <2>5, <2>6, <2>7 DEF Clean, ValidRequest, ValidSetpoint
<1>2. ASSUME NEW temp \in 18..32
      PROVE  /\ Clean([setpoint |-> temp])
             /\ \A fan \in {AC_FAN_LOW, AC_FAN_HIGH} :
                    /\ Clean([fan |-> fan])
                    /\ Clean([setpoint |-> temp, fan |-> fan])
  BY DEF Clean, IsRequest, ValidRequest, ValidSetpoint, Field, FlagField, Byte,
         AC_FAN_LOW, AC_FAN_HIGH
<1>3. ASSUME NEW m, Parsed(m), NEW key \in {"power", "quiet", "units"}, DOMAIN m = {key}
      PROVE  Clean(m) /\ {"timer", "raw"} \cap DOMAIN m = {}
  BY <1>3 DEF Parsed, Clean, IsRequest, ValidRequest, Field, FlagField
<1>4. \A name \in DOMAIN FanNamed : FanNamed[name] \in {AC_FAN_LOW, AC_FAN_HIGH}
  BY DEF FanNamed
<1>5. ASSUME NEW m \in messages, MqttAccepts(m), req = MqttRequest(m)
      PROVE  Clean(req) /\ {"timer", "raw"} \cap DOMAIN req = {}
  <2>1. CASE DOMAIN m = {"climate"} /\ ClimateAccepts(m.climate)
    <3> DEFINE c   == m.climate
               new == [setpoint |-> c.target_temp, fan |-> FanNamed[c.fan]]
    <3>1. req = Merge(MqttModeRequest(c.mode), new)
      BY <1>5, <2>1 DEF MqttRequest, ClimateRequest
    <3>2. Clean(new) /\ DOMAIN new = {"setpoint", "fan"}
      BY <1>2, <1>4, <2>1 DEF ClimateAccepts
    <3>3. /\ Clean(MqttModeRequest(c.mode))
          /\ DOMAIN MqttModeRequest(c.mode) \subseteq {"power", "mode"}
      BY <2>1, ModeNamed DEF ClimateAccepts
    <3> HIDE DEF new, c
    <3>4. Clean(req)
      BY <3>1, <3>2, <3>3, MergeClean DEF Clean
    <3>5. DOMAIN req \subseteq DOMAIN MqttModeRequest(c.mode) \cup DOMAIN new
      BY <3>1 DEF Merge
    <3> QED
      BY <3>2, <3>3, <3>4, <3>5
  <2>2. CASE DOMAIN m = {"mode"} /\ m.mode \in MqttModeNames
    BY <1>5, <2>2, ModeNamed DEF MqttRequest
  <2>3. CASE DOMAIN m = {"temperature"} /\ m.temperature \in 18..32
    BY <1>2, <1>5, <2>3 DEF MqttRequest
  <2>4. CASE DOMAIN m = {"fan"} /\ m.fan \in DOMAIN FanNamed
    <3>1. 18 \in 18..32
      OBVIOUS
    <3> QED
      BY <1>2, <1>4, <1>5, <2>4, <3>1 DEF MqttRequest
  <2>5. CASE DOMAIN m \in {{"power"}, {"quiet"}, {"units"}}
    BY <1>3, <1>5, <2>5 DEF MqttRequest
  <2> QED
    BY <1>5, <2>1, <2>2, <2>3, <2>4, <2>5 DEF MqttAccepts
<1>6. ASSUME NEW w \in writes, ZigbeeAccepts(w), req = ZigbeeRequest(w)
      PROVE  Clean(req) /\ {"timer", "raw"} \cap DOMAIN req = {}
  <2>1. CASE DOMAIN w = {"system_mode"} /\ w.system_mode \in MqttModeNames
    BY <1>6, <2>1, ModeNamed DEF ZigbeeRequest
  <2>2. CASE DOMAIN w = {"cooling_setpoint"} /\ ZigbeeSetpoint(w.cooling_setpoint)
    <3>1. w.cooling_setpoint \div 100 \in 18..32
      BY <2>2 DEF ZigbeeSetpoint
    <3> QED
      BY <1>2, <1>6, <2>2, <3>1 DEF ZigbeeRequest
  <2>3. CASE DOMAIN w = {"fan_mode"} /\ w.fan_mode \in DOMAIN ZigbeeFan
    <3>1. ZigbeeFan[w.fan_mode] \in {AC_FAN_LOW, AC_FAN_HIGH} /\ 18 \in 18..32
      BY <2>3 DEF ZigbeeFan
    <3> QED
      BY <1>2, <1>6, <2>3, <3>1 DEF ZigbeeRequest
  <2>4. CASE DOMAIN w \in {{"quiet"}, {"units"}}
    BY <1>3, <1>6, <2>4 DEF ZigbeeRequest
  <2> QED
    BY <1>6, <2>1, <2>2, <2>3, <2>4 DEF ZigbeeAccepts
<1> QED
  BY <1>1, <1>5, <1>6 DEF RequestsFrom

\* So whatever MQTT and Zigbee ask for is plain, as the results on the loop
\* through the devices want it.
COROLLARY FrontEndsPlain ==
    ASSUME NEW messages, NEW writes, \A message \in messages \cup writes : Parsed(message),
           NEW req \in RequestsFrom({}, messages, writes)
    PROVE  Plain(req)
BY FrontEndsSound DEF Clean, Plain

-----------------------------------------------------------------------------
(* What a settled appliance makes of a request                              *)

\* The codes of the main board that answer those the firmware writes.
AnsweredCodes == {49, 51, 33, 67}

\* The main board's code in the status shown for a request.
CodeShown(code, req) ==
    IF AsksModeFan(req) THEN PanelToMain(RequestedModeFan(MainToPanel(code), req)) ELSE code

\* The code shows what the request asks of mode and fan.
CodeSatisfies(code, req) ==
    /\ "mode" \in DOMAIN req => ModeOf(code) = req.mode
    /\ ("fan" \in DOMAIN req /\ ModeOf(code) = AC_MODE_COOL) => FanOf(code) = req.fan
    /\ "raw" \in DOMAIN req => code = PanelToMain(req.raw)

\* The codes, taken apart.
LEMMA CodeTable ==
    /\ \A code \in {49, 51} : ModeOf(code) = AC_MODE_COOL
    /\ \A code \in {33, 34} : ModeOf(code) = AC_MODE_FAN
    /\ ModeOf(67) = AC_MODE_DRY
    /\ FanOf(49) = AC_FAN_LOW /\ FanOf(51) = AC_FAN_HIGH
    /\ AC_MODE_DRY # AC_MODE_FAN /\ AC_MODE_DRY # AC_MODE_COOL
    /\ AC_MODE_FAN # AC_MODE_COOL /\ AC_FAN_LOW # AC_FAN_HIGH
BY DEF ModeOf, FanOf, AC_MODE_FAN, AC_MODE_COOL, AC_MODE_DRY, AC_FAN_LOW, AC_FAN_HIGH

\* What the firmware makes of a settled code shows what was asked, a second
\* overlay of the same request changes nothing more, and a first one changes
\* nothing if the code showed it already.
LEMMA CodeSettles ==
    ASSUME NEW code \in AnsweredCodes, NEW req, Plain(req)
    PROVE  LET shown == CodeShown(code, req)
           IN  /\ shown \in AnsweredCodes
               /\ CodeSatisfies(shown, req)
               /\ CodeShown(shown, req) = shown
               /\ CodeSatisfies(code, req) => shown = code
               /\ {"mode", "raw"} \cap DOMAIN req = {} => ModeOf(shown) = ModeOf(code)
<1> USE CodeTable
<1>1. /\ "mode" \in DOMAIN req => req.mode \in {AC_MODE_FAN, AC_MODE_COOL, AC_MODE_DRY}
      /\ "fan" \in DOMAIN req => req.fan \in {AC_FAN_LOW, AC_FAN_HIGH}
      /\ "raw" \in DOMAIN req => /\ "mode" \notin DOMAIN req /\ "fan" \notin DOMAIN req
                                 /\ req.raw \in WrittenCodes
  BY DEF Plain, ValidRequest
<1>2. CASE ~AsksModeFan(req)
  BY <1>2 DEF CodeShown, CodeSatisfies, AsksModeFan
<1>3. CASE "raw" \in DOMAIN req
  <2>1. AsksModeFan(req) /\ \A c : RequestedModeFan(c, req) = req.raw
    BY <1>3 DEF AsksModeFan, RequestedModeFan
  <2>2. CodeShown(code, req) = PanelToMain(req.raw)
        /\ CodeShown(CodeShown(code, req), req) = PanelToMain(req.raw)
    BY <2>1 DEF CodeShown
  <2>3. PanelToMain(req.raw) \in AnsweredCodes
    BY <1>1, <1>3 DEF PanelToMain, WrittenCodes, AnsweredCodes
  <2> QED
    BY <1>1, <1>3, <2>2, <2>3 DEF CodeSatisfies
<1>4. CASE AsksModeFan(req) /\ "raw" \notin DOMAIN req
  <2> DEFINE Speed(c) == IF "fan" \in DOMAIN req THEN req.fan
                         ELSE IF FanOf(c) \in {AC_FAN_LOW, AC_FAN_HIGH} THEN FanOf(c)
                         ELSE AC_FAN_LOW
             Mode(c)  == IF "mode" \in DOMAIN req THEN req.mode ELSE ModeOf(c)
  <2>1. ASSUME NEW c \in WrittenCodes
        PROVE  /\ Mode(c) = AC_MODE_DRY => RequestedModeFan(c, req) = 67
               /\ Mode(c) = AC_MODE_FAN => RequestedModeFan(c, req) = 34
               /\ Mode(c) = AC_MODE_COOL => RequestedModeFan(c, req) = 48 + Speed(c)
               /\ Mode(c) \in {AC_MODE_DRY, AC_MODE_FAN, AC_MODE_COOL}
               /\ Speed(c) \in {AC_FAN_LOW, AC_FAN_HIGH}
    BY <1>1, <1>4 DEF RequestedModeFan, WrittenCodes
  <2>2. \A c \in AnsweredCodes :
            /\ MainToPanel(c) \in WrittenCodes /\ ModeOf(MainToPanel(c)) = ModeOf(c)
            /\ ModeOf(c) = AC_MODE_COOL => MainToPanel(c) = c
    BY DEF MainToPanel, AnsweredCodes, WrittenCodes
  <2>3. 48 + AC_FAN_LOW = 49 /\ 48 + AC_FAN_HIGH = 51
    BY DEF AC_FAN_LOW, AC_FAN_HIGH
  <2>4. PanelToMain(67) = 67 /\ PanelToMain(34) = 33 /\ PanelToMain(49) = 49
        /\ PanelToMain(51) = 51
    BY DEF PanelToMain
  <2>5. ASSUME NEW c \in AnsweredCodes
        PROVE  /\ Mode(c) = AC_MODE_DRY => CodeShown(c, req) = 67
               /\ Mode(c) = AC_MODE_FAN => CodeShown(c, req) = 33
               /\ Mode(c) = AC_MODE_COOL =>
                    CodeShown(c, req) = IF Speed(MainToPanel(c)) = AC_FAN_LOW THEN 49 ELSE 51
               /\ Mode(c) \in {AC_MODE_DRY, AC_MODE_FAN, AC_MODE_COOL}
               /\ CodeShown(c, req) \in AnsweredCodes
    <3>1. MainToPanel(c) \in WrittenCodes /\ Mode(MainToPanel(c)) = Mode(c)
      BY <2>2
    <3>2. CodeShown(c, req) = PanelToMain(RequestedModeFan(MainToPanel(c), req))
      BY <1>4 DEF CodeShown
    <3> HIDE DEF Mode, Speed
    <3>3. /\ Mode(c) = AC_MODE_DRY => CodeShown(c, req) = 67
          /\ Mode(c) = AC_MODE_FAN => CodeShown(c, req) = 33
          /\ Mode(c) = AC_MODE_COOL =>
                CodeShown(c, req) = IF Speed(MainToPanel(c)) = AC_FAN_LOW THEN 49 ELSE 51
          /\ Mode(c) \in {AC_MODE_DRY, AC_MODE_FAN, AC_MODE_COOL}
      BY <2>1, <2>3, <2>4, <3>1, <3>2
    <3> QED
      BY <3>3 DEF AnsweredCodes
  <2>6. ASSUME NEW c \in AnsweredCodes
        PROVE  /\ ModeOf(CodeShown(c, req)) = Mode(c)
               /\ Mode(c) = AC_MODE_COOL => FanOf(CodeShown(c, req)) = Speed(MainToPanel(c))
    <3>1. MainToPanel(c) \in WrittenCodes
      BY <2>2
    <3>2. Speed(MainToPanel(c)) \in {AC_FAN_LOW, AC_FAN_HIGH}
      BY <2>1, <3>1
    <3> HIDE DEF Mode, Speed
    <3> QED
      BY <2>5, <3>2
  <2>7. CodeSatisfies(CodeShown(code, req), req)
    BY <1>4, <2>6 DEF CodeSatisfies
  <2>8. ASSUME NEW c \in AnsweredCodes, CodeSatisfies(c, req)
        PROVE  CodeShown(c, req) = c
    <3>1. Mode(c) = ModeOf(c)
      BY <2>8 DEF CodeSatisfies
    <3>2. ModeOf(c) = AC_MODE_COOL => Speed(MainToPanel(c)) = FanOf(c)
      BY <2>2, <2>8 DEF CodeSatisfies, AnsweredCodes
    <3> HIDE DEF Mode, Speed
    <3> QED
      BY <2>5, <3>1, <3>2 DEF AnsweredCodes
  <2>9. CodeShown(code, req) \in AnsweredCodes
    BY <2>5
  <2>10. {"mode", "raw"} \cap DOMAIN req = {} => ModeOf(CodeShown(code, req)) = ModeOf(code)
    BY <2>6
  <2> QED
    BY <2>7, <2>8, <2>9, <2>10
<1> QED
  BY <1>2, <1>3, <1>4

\* Two frames that differ in the marker and the checksum at most.
PayloadField == {"code", "power", "quiet", "units", "timer", "temp", "encoded", "rest"}

Alike(f, g) == \A field \in PayloadField : f[field] = g[field]

\* A frame reduced to its payload.
Bare(f) == f \in Frame /\ f.event = FALSE /\ f.sum = TRUE

LEMMA PayloadBare ==
    ASSUME NEW f \in Frame PROVE Bare(Payload(f)) /\ Alike(Payload(f), f)
BY DEF Payload, Bare, Alike, PayloadField, Frame

LEMMA BareEqual ==
    ASSUME NEW f, NEW g, Bare(f), Bare(g), Alike(f, g) PROVE f = g
BY DEF Bare, Alike, PayloadField, Frame

\* A status of the main board that an overlay would not bootstrap, its codes
\* those the firmware asks for.
BoardSettled(b) ==
    /\ b.code \in AnsweredCodes
    /\ ValidSetpoint(b.temp) /\ b.encoded = EncodeSetpoint(b.temp)

\* A target only for a status in Cool.
Targets(b, req) ==
    "setpoint" \in DOMAIN req => ModeOf(CodeShown(b.code, req)) = AC_MODE_COOL

\* The panel's frame for what the main board says: the target is the board's
\* in Cool and the panel's own otherwise.
Agree(p, b) ==
    /\ p.code = MainToPanel(b.code)
    /\ \A field \in {"power", "rest"} \cup FlagField : p[field] = b[field]
    /\ ModeOf(b.code) = AC_MODE_COOL => p.temp = b.temp /\ p.encoded = b.encoded

\* What a settled status becomes under a request, field by field.
ShownAs(s, b, req) ==
    /\ s \in Frame /\ s.sum = TRUE /\ s.rest = b.rest
    /\ s.code = CodeShown(b.code, req)
    /\ s.power = Requested(req, "power", b.power)
    /\ \A flag \in FlagField : s[flag] = Requested(req, flag, b[flag])
    /\ s.temp = Requested(req, "setpoint", b.temp)
    /\ s.encoded = EncodeSetpoint(s.temp)

LEMMA ShownFields ==
    ASSUME NEW b \in Frame, BoardSettled(b), NEW req, IsRequest(req),
           NEW event \in BOOLEAN
    PROVE  ShownAs(ApplyControlMain(b, req, event), b, req)
<1> DEFINE s == ApplyControlMain(b, req, event)
<1>1. Bootstrap(b, req) = b
  BY DEF Bootstrap, BoardSettled
<1>2. OverlaidBy(s, b, req, event)
  BY Overlaid
<1>3. s.code = CodeShown(b.code, req)
  <2> DEFINE w == WriteFields(b, req, event)
  <2>1. w.code = b.code /\ "code" \in DOMAIN w
    BY DEF WriteFields, Frame
  <2>2. s = [w EXCEPT !.code = IF AsksModeFan(req)
                               THEN PanelToMain(RequestedModeFan(MainToPanel(w.code), req))
                               ELSE w.code]
    BY <1>1 DEF ApplyControlMain
  <2> HIDE DEF w, s
  <2> QED
    BY <2>1, <2>2 DEF CodeShown
<1>4. s.encoded = EncodeSetpoint(s.temp)
  BY <1>1, <1>2 DEF OverlaidBy, BoardSettled, Requested
<1> HIDE DEF s
<1> QED
  BY <1>1, <1>2, <1>3, <1>4 DEF OverlaidBy, ShownAs, s

\* The payload of the status shown for a request.
Shown(b, req) == Payload(ApplyControlMain(b, req, TRUE))

\* Both comparisons look at the payload only.
LEMMA MatchesPayload ==
    ASSUME NEW f, NEW g, Alike(f, g), NEW req
    PROVE  /\ MainConfirms(f, req) <=> MainConfirms(g, req)
           /\ PanelMatches(f, req) <=> PanelMatches(g, req)
<1>1. f.power = g.power /\ f.temp = g.temp /\ f.code = g.code
      /\ \A flag \in FlagField : f[flag] = g[flag]
  BY DEF Alike, PayloadField, FlagField
<1> QED
  BY <1>1 DEF MainConfirms, PanelMatches, SharedMatch

\* A frame that carries a payload, its checksum right.
Carries(f, payload) == f \in Frame /\ f.sum = TRUE /\ Payload(f) = payload

\* Statuses with one payload are shown with one payload.
LEMMA ShownAlike ==
    ASSUME NEW b \in Frame, NEW o, Bare(o), Alike(o, b), BoardSettled(o),
           NEW req, IsRequest(req), NEW event \in BOOLEAN
    PROVE  Carries(ApplyControlMain(b, req, event), Shown(o, req))
<1> DEFINE s == ApplyControlMain(b, req, event)
           t == ApplyControlMain(o, req, TRUE)
<1>1. BoardSettled(b) /\ o \in Frame
  BY DEF BoardSettled, Alike, PayloadField, Bare
<1>2. ShownAs(s, b, req)
  BY <1>1, ShownFields
<1>3. ShownAs(t, o, req)
  BY <1>1, ShownFields
<1> HIDE DEF s, t
<1>4. Alike(s, t)
  BY <1>2, <1>3 DEF ShownAs, Alike, PayloadField, FlagField, Requested
<1>5. Payload(s) = Payload(t)
  BY <1>2, <1>3, <1>4, PayloadBare, BareEqual DEF Alike, ShownAs
<1> QED
  BY <1>1, <1>2, <1>5 DEF Shown, Carries, ShownAs, s, t

\* The status shown for a request is settled, satisfies it, stays as it is
\* under the same request, and is the status before if that one satisfied it.
SettledAs(n, o, req) ==
    /\ Bare(n) /\ BoardSettled(n)
    /\ MainConfirms(n, req)
    /\ Shown(n, req) = n
    /\ MainConfirms(o, req) => n = o
    /\ {"mode", "raw"} \cap DOMAIN req = {} => ModeOf(n.code) = ModeOf(o.code)
    /\ ModeOf(n.code) # AC_MODE_COOL => n.temp = o.temp
    /\ "raw" \in DOMAIN req => n.code = PanelToMain(req.raw)

LEMMA ShownSettles ==
    ASSUME NEW o, Bare(o), BoardSettled(o), NEW req, IsRequest(req), Plain(req),
           Targets(o, req)
    PROVE  SettledAs(Shown(o, req), o, req)
<1> DEFINE s == ApplyControlMain(o, req, TRUE)
           n == Shown(o, req)
<1>1. o \in Frame
  BY DEF Bare
<1>2. ShownAs(s, o, req)
  BY <1>1, ShownFields
<1>3. n = Payload(s)
  BY DEF Shown
<1> HIDE DEF s, n
<1>4. Bare(n) /\ Alike(n, s)
  BY <1>2, <1>3, PayloadBare DEF ShownAs
<1>5. /\ n.rest = o.rest
      /\ n.code = CodeShown(o.code, req)
      /\ n.power = Requested(req, "power", o.power)
      /\ \A flag \in FlagField : n[flag] = Requested(req, flag, o[flag])
      /\ n.temp = Requested(req, "setpoint", o.temp)
      /\ n.encoded = EncodeSetpoint(n.temp)
  BY <1>2, <1>4 DEF ShownAs, Alike, PayloadField, FlagField
<1>6. o.code \in AnsweredCodes
  BY DEF BoardSettled
<1>7. /\ n.code \in AnsweredCodes
      /\ CodeSatisfies(n.code, req)
      /\ CodeShown(n.code, req) = n.code
      /\ CodeSatisfies(o.code, req) => n.code = o.code
      /\ {"mode", "raw"} \cap DOMAIN req = {} => ModeOf(n.code) = ModeOf(o.code)
  BY <1>5, <1>6, CodeSettles
<1>8. "setpoint" \in DOMAIN req => ValidSetpoint(req.setpoint)
  BY DEF Plain, ValidRequest
<1>9. BoardSettled(n)
  BY <1>5, <1>7, <1>8 DEF BoardSettled, Requested
<1>10. MainConfirms(n, req)
  BY <1>5, <1>7 DEF MainConfirms, SharedMatch, CodeSatisfies, Requested, Targets
<1>11. Shown(n, req) = n
  <2> DEFINE t == ApplyControlMain(n, req, TRUE)
  <2>1. n \in Frame
    BY <1>4 DEF Bare
  <2>2. ShownAs(t, n, req)
    BY <2>1, <1>9, ShownFields
  <2> HIDE DEF t
  <2>3. Alike(t, n)
    BY <2>2, <1>5, <1>7 DEF ShownAs, Alike, PayloadField, FlagField, Requested
  <2>4. Bare(Payload(t)) /\ Alike(Payload(t), n)
    BY <2>2, <2>3, PayloadBare DEF Alike, ShownAs
  <2> QED
    BY <2>4, <1>4, BareEqual DEF Shown, t
<1>12. ASSUME MainConfirms(o, req) PROVE n = o
  <2>1. CodeSatisfies(o.code, req)
    BY <1>12 DEF MainConfirms, SharedMatch, CodeSatisfies
  <2>2. /\ n.power = o.power /\ n.temp = o.temp
        /\ \A flag \in FlagField : n[flag] = o[flag]
    BY <1>5, <1>12 DEF MainConfirms, SharedMatch, Requested
  <2>3. n.encoded = o.encoded
    BY <1>5, <2>2 DEF BoardSettled
  <2>4. Alike(n, o)
    BY <1>5, <1>7, <2>1, <2>2, <2>3 DEF Alike, PayloadField, FlagField
  <2> QED
    BY <2>4, <1>4, BareEqual
<1>13. ModeOf(n.code) # AC_MODE_COOL => n.temp = o.temp
  BY <1>5 DEF Targets, Requested
<1> QED
  BY <1>4, <1>5, <1>7, <1>9, <1>10, <1>11, <1>12, <1>13 DEF SettledAs, CodeSatisfies, n

\* The payload of the panel's frame once a marked status was shown to it, and
\* of the main board's once it heard a panel's frame.
Taken(s, own) == Payload([TargetFrom(s, own) EXCEPT !.code = MainToPanel(@)])
Obeyed(f, own) == Payload([TargetFrom(f, own) EXCEPT !.code = PanelToMain(@)])

\* Frame t has what it has from f, but the code and, outside Cool, the target.
Follows(t, f, own, code) ==
    /\ Bare(t) /\ t.code = code
    /\ \A field \in {"power", "rest"} \cup FlagField : t[field] = f[field]
    /\ ModeOf(f.code) = AC_MODE_COOL => t.temp = f.temp /\ t.encoded = f.encoded
    /\ ModeOf(f.code) # AC_MODE_COOL => t.temp = own.temp /\ t.encoded = own.encoded

LEMMA DevicesFollow ==
    ASSUME NEW f \in Frame, NEW own \in Frame
    PROVE  /\ Follows(Taken(f, own), f, own, MainToPanel(f.code))
           /\ Follows(Obeyed(f, own), f, own, PanelToMain(f.code))
<1>1. ASSUME NEW code \in Byte
      PROVE  Follows(Payload([TargetFrom(f, own) EXCEPT !.code = code]), f, own, code)
  <2> DEFINE g == TargetFrom(f, own)
             h == [g EXCEPT !.code = code]
  <2>1. /\ g \in Frame
        /\ \A field \in {"power", "rest"} \cup FlagField : g[field] = f[field]
        /\ ModeOf(f.code) = AC_MODE_COOL => g.temp = f.temp /\ g.encoded = f.encoded
        /\ ModeOf(f.code) # AC_MODE_COOL => g.temp = own.temp /\ g.encoded = own.encoded
    BY DEF TargetFrom, Frame, FlagField
  <2> HIDE DEF g
  <2>2. /\ h \in Frame /\ h.code = code
        /\ h.temp = g.temp /\ h.encoded = g.encoded
        /\ \A field \in {"power", "rest"} \cup FlagField : h[field] = g[field]
    BY <2>1 DEF Frame, FlagField
  <2> HIDE DEF h
  <2>3. Bare(Payload(h)) /\ Alike(Payload(h), h)
    BY <2>2, PayloadBare
  <2>4. Follows(Payload(h), f, own, code)
    BY <2>1, <2>2, <2>3 DEF Follows, Alike, PayloadField, FlagField
  <2> QED
    BY <2>4 DEF g, h
<1>2. /\ TargetFrom(f, own).code = f.code
      /\ MainToPanel(f.code) \in Byte /\ PanelToMain(f.code) \in Byte
  BY DEF TargetFrom, Frame, MainToPanel, PanelToMain, Byte
<1>3. /\ Taken(f, own) = Payload([TargetFrom(f, own) EXCEPT !.code = MainToPanel(f.code)])
      /\ Obeyed(f, own) = Payload([TargetFrom(f, own) EXCEPT !.code = PanelToMain(f.code)])
  BY <1>2 DEF Taken, Obeyed
<1> QED
  BY <1>1, <1>2, <1>3

\* Only the payloads count.
LEMMA FollowAlike ==
    ASSUME NEW f, NEW g, Alike(f, g), NEW own, NEW other, Alike(own, other),
           NEW t, NEW u, NEW code, Follows(t, f, own, code), Follows(u, g, other, code)
    PROVE  t = u
<1>1. Alike(t, u)
  BY DEF Follows, Alike, PayloadField, FlagField
<1> QED
  BY <1>1, BareEqual DEF Follows

LEMMA PanelTakes ==
    ASSUME NEW s, NEW x, Carries(s, x), s.event, NEW y, Carries(panel, y)
    PROVE  Carries(PanelAdopts(s), Taken(x, y))
<1> DEFINE g == TargetFrom(s, panel)
           t == [g EXCEPT !.code = MainToPanel(@)]
<1>1. s \in Frame /\ panel \in Frame /\ x = Payload(s) /\ y = Payload(panel)
  BY DEF Carries
<1>2. x \in Frame /\ y \in Frame /\ Alike(x, s) /\ Alike(y, panel)
  BY <1>1, PayloadBare DEF Bare
<1>3. PanelAdopts(s) = t
  BY DEF PanelAdopts
<1>4. t \in Frame /\ t.sum = TRUE
  <2>1. g \in Frame /\ g.sum = TRUE
    BY <1>1 DEF TargetFrom, Frame, Carries
  <2>2. MainToPanel(g.code) \in Byte
    BY <2>1 DEF MainToPanel, Frame, Byte
  <2> HIDE DEF g
  <2> QED
    BY <2>1, <2>2 DEF Frame
<1>5. Payload(t) = Taken(s, panel)
  BY DEF Taken
<1>6. Taken(s, panel) = Taken(x, y)
  <2>1. x.code = s.code
    BY <1>2 DEF Alike, PayloadField
  <2>2. /\ Follows(Taken(s, panel), s, panel, MainToPanel(s.code))
        /\ Follows(Taken(x, y), x, y, MainToPanel(s.code))
    BY <1>1, <1>2, <2>1, DevicesFollow
  <2>3. Alike(s, x) /\ Alike(panel, y)
    BY <1>2 DEF Alike
  <2> QED
    BY <2>2, <2>3, FollowAlike
<1> QED
  BY <1>3, <1>4, <1>5, <1>6 DEF Carries

LEMMA BoardTakes ==
    ASSUME NEW f, NEW x, Carries(f, x), NEW y, Carries(board, y)
    PROVE  Carries(BoardObeys(f), Obeyed(x, y))
<1> DEFINE g == TargetFrom(f, board)
           t == [g EXCEPT !.code = PanelToMain(@)]
           mark == board.event \/ Payload(t) # Payload(board)
<1>1. f \in Frame /\ board \in Frame /\ x = Payload(f) /\ y = Payload(board)
  BY DEF Carries
<1>2. x \in Frame /\ y \in Frame /\ Alike(x, f) /\ Alike(y, board)
  BY <1>1, PayloadBare DEF Bare
<1>3. BoardObeys(f) = [t EXCEPT !.event = mark]
  BY DEF BoardObeys
<1>4. t \in Frame /\ t.sum = TRUE
  <2>1. g \in Frame /\ g.sum = TRUE
    BY <1>1 DEF TargetFrom, Frame, Carries
  <2>2. PanelToMain(g.code) \in Byte
    BY <2>1 DEF PanelToMain, Frame, Byte
  <2> HIDE DEF g
  <2> QED
    BY <2>1, <2>2 DEF Frame
<1>5. Payload(t) = Obeyed(f, board)
  BY DEF Obeyed
<1>6. Obeyed(f, board) = Obeyed(x, y)
  <2>1. x.code = f.code
    BY <1>2 DEF Alike, PayloadField
  <2>2. /\ Follows(Obeyed(f, board), f, board, PanelToMain(f.code))
        /\ Follows(Obeyed(x, y), x, y, PanelToMain(f.code))
    BY <1>1, <1>2, <2>1, DevicesFollow
  <2>3. Alike(f, x) /\ Alike(board, y)
    BY <1>2 DEF Alike
  <2> QED
    BY <2>2, <2>3, FollowAlike
<1>7. mark \in BOOLEAN
  OBVIOUS
<1> HIDE DEF t, mark
<1>8. /\ [t EXCEPT !.event = mark] \in Frame /\ [t EXCEPT !.event = mark].sum = TRUE
      /\ Payload([t EXCEPT !.event = mark]) = Payload(t)
  BY <1>4, <1>7 DEF Frame, Payload
<1> QED
  BY <1>3, <1>5, <1>6, <1>8 DEF Carries

\* Two devices that agree stay as they are while they listen to each other.
LEMMA AgreeStay ==
    ASSUME NEW p, Bare(p), NEW b, Bare(b), BoardSettled(b), Agree(p, b)
    PROVE  Taken(b, p) = p /\ Obeyed(p, b) = b
<1>1. p \in Frame /\ b \in Frame
  BY DEF Bare
<1>2. /\ PanelToMain(MainToPanel(b.code)) = b.code
      /\ ModeOf(MainToPanel(b.code)) = ModeOf(b.code)
  BY CodeTable DEF BoardSettled, AnsweredCodes, PanelToMain, MainToPanel
<1>3. /\ p.code = MainToPanel(b.code) /\ b.code = PanelToMain(p.code)
      /\ ModeOf(p.code) = ModeOf(b.code)
  BY <1>2 DEF Agree
<1>4. /\ Follows(Taken(b, p), b, p, p.code)
      /\ Follows(Obeyed(p, b), p, b, b.code)
  BY <1>1, <1>3, DevicesFollow
<1>5. Alike(Taken(b, p), p) /\ Alike(Obeyed(p, b), b)
  BY <1>3, <1>4 DEF Follows, Agree, Alike, PayloadField, FlagField
<1> QED
  BY <1>4, <1>5, BareEqual DEF Follows

\* The panel, at q, follows a settled status n shown instead of o, when its own
\* state was p.
Closes(q, n, p, o, req) ==
    /\ Bare(q) /\ Agree(q, n)
    /\ PanelMatches(q, req)
    /\ Obeyed(q, o) = n
    /\ n = o => q = p

LEMMA PanelFollows ==
    ASSUME NEW p, Bare(p), NEW o, Bare(o), BoardSettled(o), Agree(p, o),
           NEW req, Plain(req), NEW n, SettledAs(n, o, req)
    PROVE  Closes(Taken(n, p), n, p, o, req)
<1> DEFINE q == Taken(n, p)
<1>1. p \in Frame /\ o \in Frame /\ n \in Frame /\ Bare(n) /\ BoardSettled(n)
  BY DEF Bare, SettledAs
<1>2. Follows(q, n, p, MainToPanel(n.code))
  BY <1>1, DevicesFollow
<1> HIDE DEF q
<1>3. Bare(q) /\ q \in Frame /\ Agree(q, n)
  BY <1>2 DEF Follows, Agree, Bare
<1>4. /\ PanelToMain(MainToPanel(n.code)) = n.code
      /\ ModeOf(MainToPanel(n.code)) = ModeOf(n.code)
      /\ ModeOf(n.code) = AC_MODE_COOL => MainToPanel(n.code) = n.code
  BY <1>1, CodeTable DEF BoardSettled, AnsweredCodes, PanelToMain, MainToPanel
<1>5. PanelMatches(q, req)
  <2>1. "raw" \in DOMAIN req => MainToPanel(n.code) = req.raw
    BY DEF SettledAs, Plain, WrittenCodes, MainToPanel, PanelToMain
  <2>2. MainConfirms(n, req)
    BY DEF SettledAs
  <2> QED
    BY <1>2, <1>4, <2>1, <2>2 DEF PanelMatches, MainConfirms, SharedMatch, Follows
<1>6. Obeyed(q, o) = n
  <2>1. q.code = MainToPanel(n.code) /\ ModeOf(q.code) = ModeOf(n.code)
    BY <1>2, <1>4 DEF Follows
  <2>2. Follows(Obeyed(q, o), q, o, n.code)
    BY <1>1, <1>3, <1>4, <2>1, DevicesFollow
  <2>3. ModeOf(n.code) # AC_MODE_COOL => n.temp = o.temp /\ n.encoded = o.encoded
    BY <1>1 DEF SettledAs, BoardSettled
  <2>4. Alike(Obeyed(q, o), n)
    BY <1>2, <2>1, <2>2, <2>3 DEF Follows, Alike, PayloadField, FlagField
  <2> QED
    BY <1>1, <2>2, <2>4, BareEqual DEF Follows
<1>7. n = o => q = p
  BY AgreeStay DEF q
<1> QED
  BY <1>3, <1>5, <1>6, <1>7 DEF Closes, q

\* What a settled pair of devices is, reduced to payloads.
LEMMA SettledPayload ==
    ASSUME NEW s \in [panel : Frame, board : Frame], Settled(s)
    PROVE  /\ Bare(Payload(s.panel)) /\ Bare(Payload(s.board))
           /\ BoardSettled(Payload(s.board))
           /\ Agree(Payload(s.panel), Payload(s.board))
<1> DEFINE p == Payload(s.panel)
           b == Payload(s.board)
<1>1. s.panel \in Frame /\ s.board \in Frame
  OBVIOUS
<1>2. Bare(p) /\ Bare(b) /\ Alike(p, s.panel) /\ Alike(b, s.board)
  BY <1>1, PayloadBare
<1> HIDE DEF p, b
<1>3. p.code \in WrittenCodes /\ b.code = PanelToMain(p.code)
  BY <1>2 DEF Settled, Alike, PayloadField
<1>4. b.code \in AnsweredCodes /\ p.code = MainToPanel(b.code)
  BY <1>3 DEF WrittenCodes, AnsweredCodes, PanelToMain, MainToPanel
<1>5. BoardSettled(b)
  BY <1>2, <1>4 DEF BoardSettled, Settled, Alike, PayloadField
<1>6. Agree(p, b)
  BY <1>2, <1>4 DEF Agree, Settled, Alike, PayloadField, FlagField
<1> QED
  BY <1>2, <1>5, <1>6 DEF p, b

-----------------------------------------------------------------------------
(* Confirmed is obeyed                                                      *)

\* Before the pending command panel and main board stood at p and o, once it
\* is obeyed they stand at q and n.  With no command pending the two are one.
Stage(p, o, q, n) ==
    /\ Bare(p) /\ Bare(o) /\ BoardSettled(o) /\ Agree(p, o)
    /\ overlay.active =>
            /\ Plain(request) /\ Targets(o, request)
            /\ n = Shown(o, request) /\ q = Taken(n, p)
    /\ ~overlay.active => n = o /\ q = p

\* What is where in the loop.  The new state gets into it with a status the
\* panel is shown, and from there follows the frames: no place has it before
\* the place ahead of it, and the main board's answers have it last.
Loop(p, o, q, n) ==
    /\ mirror = TRUE
    /\ Carries(panel, p) \/ Carries(panel, q)
    /\ Carries(board, o) \/ Carries(board, n)
    /\ Carries(board, n) => Carries(panel, q)
    /\ panelTask.pc # "idle" =>
            /\ Carries(panelTask.frame, p) \/ Carries(panelTask.frame, q)
            /\ Carries(panelTask.frame, q) => Carries(panel, q)
            /\ Carries(board, n) => Carries(panelTask.frame, q)
    /\ panelTask.pc = "receiving" => panelTask.out = panelTask.frame
    /\ state.panel_valid /\ panelTask.pc # "checked" =>
            /\ Carries(state.panel_raw, p) \/ Carries(state.panel_raw, q)
            /\ Carries(state.panel_raw, q) =>
                    /\ Carries(panel, q)
                    /\ panelTask.pc = "receiving" => Carries(panelTask.frame, q)
            /\ Carries(board, n) => Carries(state.panel_raw, q)
    /\ mainTask.pc # "idle" =>
            /\ Carries(mainTask.frame, o) \/ Carries(mainTask.frame, n)
            /\ Carries(mainTask.frame, n) => Carries(board, n)
    /\ mainTask.pc = "copied" =>
            \/ Carries(mainTask.out, n)
            \/ Carries(mainTask.out, o) /\ Carries(panel, p)
    /\ ~overlay.active /\ state.main_valid => Carries(state.main_raw, o)

LoopInv == \E p, o, q, n : Stage(p, o, q, n) /\ Loop(p, o, q, n)

\* Where a stage leads: the devices at p and o stay there, shown n they go to q
\* and n and stay there.
Leads(p, o, q, n) ==
    /\ Bare(p) /\ Bare(o) /\ BoardSettled(o) /\ Agree(p, o)
    /\ Bare(q) /\ Bare(n) /\ BoardSettled(n) /\ Agree(q, n)
    /\ Taken(o, p) = p /\ Taken(n, p) = q /\ Taken(n, q) = q
    /\ Obeyed(p, o) = o /\ Obeyed(q, o) = n /\ Obeyed(q, n) = n
    /\ n = o => q = p

LEMMA StageLeads ==
    ASSUME IsRequest(request), overlay.active \in BOOLEAN,
           NEW p, NEW o, NEW q, NEW n, Stage(p, o, q, n)
    PROVE  /\ Leads(p, o, q, n)
           /\ overlay.active => SettledAs(n, o, request) /\ PanelMatches(q, request)
<1>1. Bare(p) /\ Bare(o) /\ BoardSettled(o) /\ Agree(p, o)
  BY DEF Stage
<1>2. Taken(o, p) = p /\ Obeyed(p, o) = o
  BY <1>1, AgreeStay
<1>3. CASE overlay.active
  <2>1. SettledAs(n, o, request)
    BY <1>1, <1>3, ShownSettles DEF Stage
  <2>2. Closes(q, n, p, o, request)
    BY <1>1, <1>3, <2>1, PanelFollows DEF Stage
  <2>3. Bare(q) /\ Agree(q, n) /\ Bare(n) /\ BoardSettled(n)
    BY <2>1, <2>2 DEF Closes, SettledAs
  <2>4. Taken(n, q) = q /\ Obeyed(q, n) = n
    BY <2>3, AgreeStay
  <2> QED
    BY <1>1, <1>2, <1>3, <2>1, <2>2, <2>3, <2>4 DEF Stage, Closes, Leads
<1>4. CASE ~overlay.active
  BY <1>1, <1>2, <1>4 DEF Stage, Leads
<1> QED
  BY <1>3, <1>4

\* Nobody pressed a button: the frame the panel sends is the last one again, or
\* the first to show what it was asked for.
LEMMA NotMistaken ==
    ASSUME PANEL_LOOP_CONTROL, TypeOK, overlay.active,
           NEW p, NEW o, NEW q, NEW n, Stage(p, o, q, n), Loop(p, o, q, n),
           panelTask.pc = "receiving"
    PROVE  ~PhysicalChange(panelTask.frame)
<1> SUFFICES ASSUME state.panel_valid PROVE ~PhysicalChange(panelTask.frame)
  BY DEF PhysicalChange
<1>1. PanelMatches(q, request)
  BY StageLeads DEF TypeOK
<1>2. CASE Carries(panelTask.frame, q)
  <2>1. Alike(panelTask.frame, q)
    BY <1>2, PayloadBare DEF Carries, Alike
  <2>2. PanelMatches(panelTask.frame, request)
    BY <1>1, <2>1, MatchesPayload
  <2> QED
    BY <2>2 DEF PhysicalChange
<1>3. CASE ~Carries(panelTask.frame, q)
  <2>1. Carries(panelTask.frame, p) /\ Carries(state.panel_raw, p)
    BY <1>3 DEF Loop
  <2> QED
    BY <2>1 DEF PhysicalChange, Carries
<1> QED
  BY <1>2, <1>3

\* A main frame that confirms carries the new state, and then everything does.
LEMMA ConfirmedLast ==
    ASSUME TypeOK, overlay.active,
           NEW p, NEW o, NEW q, NEW n, Stage(p, o, q, n), Loop(p, o, q, n),
           mainTask.pc = "forwarded", MainConfirms(mainTask.frame, request)
    PROVE  /\ Carries(mainTask.frame, n) /\ Carries(board, n) /\ Carries(panel, q)
           /\ MainConfirms(board, request)
           /\ Loop(q, n, q, n)
<1>1. Leads(p, o, q, n) /\ SettledAs(n, o, request)
  BY StageLeads DEF TypeOK
<1>2. Carries(mainTask.frame, n)
  <2>1. CASE Carries(mainTask.frame, o)
    <3>1. Alike(mainTask.frame, o)
      BY <2>1, PayloadBare DEF Carries, Alike
    <3>2. MainConfirms(o, request)
      BY <3>1, MatchesPayload
    <3> QED
      BY <1>1, <2>1, <3>2 DEF SettledAs
  <2> QED
    BY <2>1 DEF Loop
<1>3. Carries(board, n) /\ Carries(panel, q)
  BY <1>2 DEF Loop
<1>4. MainConfirms(board, request)
  <2>1. Alike(board, n)
    BY <1>3, PayloadBare DEF Carries, Alike
  <2> QED
    BY <1>1, <2>1, MatchesPayload DEF SettledAs
<1>5. Loop(q, n, q, n)
  BY <1>1, <1>2, <1>3 DEF Loop, Leads
<1> QED
  BY <1>2, <1>3, <1>4, <1>5

\* The requests and the devices the next results are about.
SettledLoop ==
    /\ PANEL_LOOP_CONTROL
    /\ \A req \in Requests : Plain(req)
    /\ \A s \in Starts : Settled(s)

\* A command is accepted with a target only if the appliance will be in Cool.
LEMMA AcceptedTargets ==
    ASSUME NEW o, BoardSettled(o), NEW req, Plain(req), TargetAllowed(req),
           Carries(state.main_raw, o)
    PROVE  Targets(o, req)
<1> SUFFICES ASSUME "setpoint" \in DOMAIN req
             PROVE  ModeOf(CodeShown(o.code, req)) = AC_MODE_COOL
  BY DEF Targets
<1>1. state.main_raw.code = o.code
  BY PayloadBare DEF Carries, Alike, PayloadField
<1>2. Requested(req, "mode", ModeOf(o.code)) = AC_MODE_COOL
  BY <1>1 DEF TargetAllowed
<1> DEFINE shown == CodeShown(o.code, req)
<1>3. /\ CodeSatisfies(shown, req)
      /\ {"mode", "raw"} \cap DOMAIN req = {} => ModeOf(shown) = ModeOf(o.code)
  BY CodeSettles DEF BoardSettled
<1> HIDE DEF shown
<1>4. CASE "raw" \in DOMAIN req
  <2>1. shown = PanelToMain(req.raw) /\ req.raw \in WrittenCodes
        /\ ModeOf(req.raw) = AC_MODE_COOL
    BY <1>3, <1>4 DEF CodeSatisfies, Plain
  <2>2. ModeOf(PanelToMain(req.raw)) = ModeOf(req.raw)
    BY <2>1, CodeTable DEF PanelToMain
  <2> QED
    BY <2>1, <2>2 DEF shown
<1>5. CASE "raw" \notin DOMAIN req
  BY <1>2, <1>3, <1>5 DEF CodeSatisfies, Requested, shown
<1> QED
  BY <1>4, <1>5

\* A command is queued when the one before it has ended: the loop is where it
\* was, and the command is a new stage from there.
LEMMA QueuedStage ==
    ASSUME SettledLoop, LoopTypeOK, ~overlay.active, NEW req \in Requests,
           QueueControl(req), UNCHANGED <<panel, board>>,
           NEW p, NEW o, NEW q, NEW n, Stage(p, o, q, n), Loop(p, o, q, n)
    PROVE  LoopInv'
<1> DEFINE m == Shown(o, req)
           r == Taken(m, p)
<1>1. IsRequest(req) /\ Plain(req) /\ DOMAIN req # {}
  BY RequestsAssumption DEF SettledLoop
<1>2. request' = req
  BY <1>1, MergeFromNothing DEF QueueControl, PendingRequest
<1>3. overlay'.active = TRUE
  BY DEF QueueControl
<1>4. UNCHANGED <<mirror, mainTask, panelTask, panel, board>>
      /\ state'.panel_valid = state.panel_valid /\ state'.panel_raw = state.panel_raw
  BY DEF QueueControl, LoopTypeOK, TypeOK, AcState
<1>5. n = o /\ q = p
  BY DEF Stage
<1>6. Targets(o, req)
  <2>1. TargetAllowed(req) /\ state.main_valid
    BY DEF QueueControl, Accepts, LinksFresh
  <2>2. Carries(state.main_raw, o)
    BY <2>1 DEF Loop
  <2> QED
    BY <1>1, <2>1, <2>2, AcceptedTargets DEF Stage
<1>7. Stage(p, o, r, m)'
  BY <1>1, <1>2, <1>3, <1>6 DEF Stage
<1>8. m = o => r = p
  <2>1. SettledAs(m, o, req)
    BY <1>1, <1>6, ShownSettles DEF Stage
  <2>2. Closes(r, m, p, o, req)
    BY <1>1, <2>1, PanelFollows DEF Stage
  <2> QED
    BY <2>2 DEF Closes
<1> HIDE DEF m, r
<1>9. /\ \A f : Carries(f, o) /\ Carries(f, m) => m = o
  BY DEF Carries
<1>10. /\ mirror = TRUE /\ Carries(panel, p) /\ Carries(board, o)
       /\ panelTask.pc # "idle" => Carries(panelTask.frame, p)
       /\ panelTask.pc = "receiving" => panelTask.out = panelTask.frame
       /\ state.panel_valid /\ panelTask.pc # "checked" => Carries(state.panel_raw, p)
       /\ mainTask.pc # "idle" => Carries(mainTask.frame, o)
       /\ mainTask.pc = "copied" => Carries(mainTask.out, o)
  BY <1>5 DEF Loop
<1>11. Carries(board, m) => m = o /\ r = p
  BY <1>8, <1>9, <1>10
<1>12. \A f : Carries(f, r) /\ Carries(f, p) => r = p
  BY DEF Carries
<1>13. Loop(p, o, r, m)'
  BY <1>3, <1>4, <1>10, <1>11, <1>12, <1>9 DEF Loop
<1> QED
  BY <1>7, <1>13 DEF LoopInv

\* The main board hears what it stands for already, or the new state for the
\* first time.
LEMMA BoardHears ==
    ASSUME LoopTypeOK, NEW p, NEW o, NEW q, NEW n, Stage(p, o, q, n),
           Loop(p, o, q, n), PanelSent
    PROVE  \/ Carries(panelTask.frame, p) /\ Carries(board, o) /\ Carries(board', o)
           \/ Carries(panelTask.frame, q) /\ Carries(board', n)
<1> DEFINE f == panelTask.frame
<1>1. Leads(p, o, q, n)
  BY StageLeads DEF LoopTypeOK, TypeOK, Overlay
<1>2. panelTask.pc = "receiving" /\ panelTask.out = f /\ board' = BoardObeys(f)
  BY DEF PanelSent, PanelFrameReceived, Loop
<1>3. /\ Carries(f, p) \/ Carries(f, q)
      /\ Carries(board, n) => Carries(f, q)
      /\ Carries(board, o) \/ Carries(board, n)
  BY <1>2 DEF Loop
<1> HIDE DEF f
<1>4. CASE Carries(f, p) /\ Carries(board, o)
  BY <1>1, <1>2, <1>4, BoardTakes DEF Leads, f
<1>5. CASE Carries(f, q) /\ Carries(board, o)
  BY <1>1, <1>2, <1>5, BoardTakes DEF Leads, f
<1>6. CASE Carries(f, q) /\ Carries(board, n)
  BY <1>1, <1>2, <1>6, BoardTakes DEF Leads, f
<1> QED
  BY <1>3, <1>4, <1>5, <1>6

\* The links answer, nobody is at the panel: each step of the loop moves a
\* frame on, and none moves a frame that is older than what it reaches.
LEMMA LoopInvStep ==
    SettledLoop /\ LoopTypeOK /\ OverlayAgreement /\ LoopInv /\ [PromptNext]_loopVars
        => LoopInv'
<1> SUFFICES ASSUME SettledLoop, LoopTypeOK, OverlayAgreement, LoopInv,
                    [PromptNext]_loopVars
             PROVE  LoopInv'
  OBVIOUS
<1>1. PICK p, o, q, n : Stage(p, o, q, n) /\ Loop(p, o, q, n)
  BY DEF LoopInv
<1>2. /\ IsRequest(request) /\ overlay.active \in BOOLEAN /\ overlay \in Overlay
      /\ state \in AcState /\ mainTask \in MainTask /\ panelTask \in PanelTask
      /\ panel \in Frame /\ board \in Frame
  BY DEF LoopTypeOK, TypeOK, Overlay
<1>3. Leads(p, o, q, n)
  BY <1>1, <1>2, StageLeads
<1>4. ASSUME UNCHANGED request, overlay'.active = overlay.active
      PROVE  Stage(p, o, q, n)'
  BY <1>1, <1>4 DEF Stage
<1>5. CASE PanelSends
  <2>1. /\ UNCHANGED <<overlay, request, state, mirror, mainTask, panel, board>>
        /\ panelTask.pc = "idle"
        /\ panelTask' = [pc |-> "receiving", frame |-> panel, out |-> ToMain(panel),
                         injected |-> FALSE]
    BY <1>5 DEF PanelSends, PanelFrameStarted
  <2>2. ToMain(panel) = panel
    BY <1>1 DEF Loop, ToMain
  <2>3. Loop(p, o, q, n)'
    BY <1>1, <2>1, <2>2 DEF Loop
  <2> QED
    BY <1>4, <2>1, <2>3 DEF LoopInv
<1>6. CASE BoardSends
  <2>1. /\ UNCHANGED <<overlay, request, state, mirror, panelTask, panel>>
        /\ board' = [board EXCEPT !.event = FALSE]
        /\ mainTask'.pc = "copied" /\ mainTask'.frame = board
        /\ mainTask'.out = IF overlay.active /\ CanApply(board, request)
                           THEN ApplyControlMain(board, request, overlay.event_pending)
                           ELSE board
    BY <1>6 DEF BoardSends, MainFrameReceived, SettledLoop
  <2>2. \A x : Carries(board', x) <=> Carries(board, x)
    BY <1>2, <2>1 DEF Carries, Payload, Frame
  <2>3. CASE overlay.active
    <3>1. CanApply(board, request) /\ overlay.event_pending \in BOOLEAN
      BY <1>1, <1>2, <2>3 DEF CanApply, Loop, Carries, Stage, Plain, Overlay
    <3>2. ASSUME NEW x \in {o, n}, Carries(board, x)
          PROVE  Carries(mainTask'.out, Shown(x, request))
      <4>1. Bare(x) /\ BoardSettled(x) /\ Alike(x, board)
        BY <1>3, <3>2, PayloadBare DEF Leads, Carries
      <4> QED
        BY <1>2, <2>1, <2>3, <3>1, <4>1, ShownAlike
    <3>3. Shown(o, request) = n /\ Shown(n, request) = n
      BY <1>1, <1>2, <2>3, StageLeads DEF Stage, SettledAs
    <3>4. Carries(mainTask'.out, n)
      BY <1>1, <3>2, <3>3 DEF Loop
    <3>5. Loop(p, o, q, n)'
      BY <1>1, <2>1, <2>2, <3>4 DEF Loop
    <3> QED
      BY <1>4, <2>1, <3>5 DEF LoopInv
  <2>4. CASE ~overlay.active
    <3>1. mainTask'.out = board /\ n = o /\ q = p
      BY <1>1, <2>1, <2>4 DEF Stage
    <3>2. Loop(p, o, q, n)'
      BY <1>1, <2>1, <2>2, <3>1 DEF Loop
    <3> QED
      BY <1>4, <2>1, <3>2 DEF LoopInv
  <2> QED
    BY <1>2, <2>3, <2>4
<1>7. CASE PanelIsShown
  <2>1. /\ UNCHANGED <<overlay, request, state, mirror, panelTask, board>>
        /\ panel' = PanelAdopts(mainTask.out)
        /\ mainTask.pc = "copied" /\ mainTask'.pc = "forwarded"
        /\ mainTask'.frame = mainTask.frame
    BY <1>7 DEF PanelIsShown, MainFrameForwarded, IdleMainTask
  <2>2. \/ UNCHANGED panel
        \/ Carries(panel', q)
        \/ Carries(panel, p) /\ Carries(panel', p)
    <3>1. CASE ~mainTask.out.event
      BY <2>1, <3>1 DEF PanelAdopts
    <3>2. CASE mainTask.out.event /\ Carries(mainTask.out, n)
      <4>1. Carries(panel', Taken(n, p)) \/ Carries(panel', Taken(n, q))
        BY <1>1, <2>1, <3>2, PanelTakes DEF Loop
      <4> QED
        BY <1>3, <4>1 DEF Leads
    <3>3. CASE mainTask.out.event /\ Carries(mainTask.out, o) /\ Carries(panel, p)
      <4>1. Carries(panel', Taken(o, p))
        BY <2>1, <3>3, PanelTakes
      <4> QED
        BY <1>3, <3>3, <4>1 DEF Leads
    <3> QED
      BY <1>1, <2>1, <3>1, <3>2, <3>3 DEF Loop
  <2>3. Carries(panel, q) => Carries(panel', q)
    BY <2>2 DEF Carries
  <2>4. Carries(panel', p) \/ Carries(panel', q)
    BY <1>1, <2>2 DEF Loop
  <2>5. Loop(p, o, q, n)'
    BY <1>1, <2>1, <2>3, <2>4 DEF Loop
  <2> QED
    BY <1>4, <2>1, <2>5 DEF LoopInv
<1>8. CASE Inside(SetHardwareReady(TRUE))
  <2>1. UNCHANGED <<overlay, request, state, mirror, mainTask, panelTask, panel, board>>
    BY <1>8 DEF Inside, SetHardwareReady
  <2>2. Loop(p, o, q, n)'
    BY <1>1, <2>1 DEF Loop
  <2> QED
    BY <1>4, <2>1, <2>2 DEF LoopInv
<1>9. CASE Inside(QueueAlone)
  <2>1. PICK req \in Requests : QueueControl(req)
    BY <1>9 DEF Inside, QueueAlone
  <2>2. ~overlay.active /\ UNCHANGED <<panel, board>>
    BY <1>9 DEF Inside, QueueAlone
  <2> QED
    BY <1>1, <2>1, <2>2, QueuedStage
<1>10. CASE Inside(MainStateUpdated)
  <2> DEFINE f == mainTask.frame
  <2>1. /\ UNCHANGED <<panelTask, panel, board>>
        /\ mainTask.pc = "forwarded" /\ mainTask'.pc = "idle"
        /\ state'.panel_valid = state.panel_valid /\ state'.panel_raw = state.panel_raw
        /\ state'.main_raw = f
    BY <1>2, <1>10 DEF Inside, MainStateUpdated, IdleMainTask, Reported, AcState
  <2>2. CASE overlay.confirmation_pending /\ MainConfirms(f, request)
    <3>1. overlay.active /\ ~overlay'.active /\ mirror' = TRUE
      BY <1>1, <1>2, <1>10, <2>2 DEF Inside, MainStateUpdated, OverlayAgreement, Closed,
                                     Overlay, SetMirror, Loop
    <3>2. Carries(f, n) /\ Loop(q, n, q, n)
      BY <1>1, <2>1, <2>2, <3>1, ConfirmedLast DEF LoopTypeOK
    <3> HIDE DEF f
    <3>3. Stage(q, n, q, n)'
      BY <1>3, <3>1 DEF Stage, Leads
    <3>4. Loop(q, n, q, n)'
      BY <2>1, <3>1, <3>2 DEF Loop
    <3> QED
      BY <3>3, <3>4 DEF LoopInv
  <2>3. CASE ~(overlay.confirmation_pending /\ MainConfirms(f, request))
    <3>1. UNCHANGED <<overlay, request, mirror>>
      BY <1>10, <2>3 DEF Inside, MainStateUpdated
    <3>2. ~overlay.active => Carries(f, o)
      BY <1>1, <2>1 DEF Loop, Stage
    <3> HIDE DEF f
    <3>3. Loop(p, o, q, n)'
      BY <1>1, <2>1, <3>1, <3>2 DEF Loop
    <3> QED
      BY <1>4, <3>1, <3>3 DEF LoopInv
  <2> QED
    BY <2>2, <2>3
<1>11. CASE PanelSent
  <2> DEFINE f == panelTask.frame
  <2>1. /\ UNCHANGED <<request, mainTask, panel>>
        /\ panelTask.pc = "receiving" /\ panelTask'.pc = "checked"
        /\ panelTask'.frame = f
    BY <1>2, <1>11 DEF PanelSent, PanelFrameReceived, PanelTask
  <2>2. ~(overlay.active /\ PhysicalChange(f))
    BY <1>1, <2>1, NotMistaken DEF SettledLoop, LoopTypeOK
  <2>3. UNCHANGED <<state, mirror>> /\ overlay'.active = overlay.active
    BY <1>2, <1>11, <2>2 DEF PanelSent, PanelFrameReceived, Overlay
  <2> HIDE DEF f
  <2>4. \/ Carries(f, p) /\ Carries(board, o) /\ Carries(board', o)
        \/ Carries(f, q) /\ Carries(board', n)
    BY <1>1, <1>11, BoardHears DEF f
  <2>5. /\ Carries(board, n) => Carries(board', n)
        /\ Carries(board', o) \/ Carries(board', n)
        /\ Carries(board', n) => Carries(f, q)
    BY <1>1, <2>1, <2>4 DEF Carries, Loop, f
  <2>6. Carries(f, p) \/ Carries(f, q)
    BY <2>4
  <2>7. Carries(f, q) => Carries(panel, q)
    BY <1>1, <2>1 DEF Loop, f
  <2>8. Loop(p, o, q, n)'
    BY <1>1, <2>1, <2>3, <2>5, <2>6, <2>7 DEF Loop
  <2> QED
    BY <1>4, <2>1, <2>3, <2>8 DEF LoopInv
<1>12. CASE Inside(PanelStateUpdated)
  <2>1. /\ UNCHANGED <<overlay, request, mirror, mainTask, panel, board>>
        /\ panelTask.pc = "checked" /\ panelTask'.pc = "idle"
        /\ state'.panel_raw = panelTask.frame
        /\ state'.main_valid = state.main_valid /\ state'.main_raw = state.main_raw
    BY <1>2, <1>12 DEF Inside, PanelStateUpdated, IdlePanelTask, AcState
  <2>2. Loop(p, o, q, n)'
    BY <1>1, <2>1 DEF Loop
  <2> QED
    BY <1>4, <2>1, <2>2 DEF LoopInv
<1>13. CASE UNCHANGED loopVars
  <2>1. Loop(p, o, q, n)'
    BY <1>1, <1>13 DEF Loop, loopVars, vars
  <2> QED
    BY <1>4, <1>13, <2>1 DEF LoopInv, loopVars, vars
<1> QED
  BY <1>5, <1>6, <1>7, <1>8, <1>9, <1>10, <1>11, <1>12, <1>13 DEF PromptNext

\* What the prompt loop does is what the loop may do.
LEMMA PromptIsLoop == PromptSpec => LoopSpec
<1>1. [PromptNext]_loopVars => [LoopNext]_loopVars
  BY DEF PromptNext, LoopNext, Inside, QueueAlone, Services
<1> QED
  BY <1>1, PTL DEF PromptSpec, LoopSpec

\* The overlay and what is reported of it agree in the loop, too.
LEMMA LoopAgreement == LoopSpec => []OverlayAgreement
<1>1. LoopInit => OverlayAgreement
  BY DEF LoopInit, Init, OverlayAgreement
<1>2. LoopTypeOK /\ LoopTypeOK' /\ OverlayAgreement /\ [LoopNext]_loopVars
        => OverlayAgreement'
  BY LoopIsBridge, AgreementStep DEF LoopTypeOK
<1> QED
  BY <1>1, <1>2, LoopTypeCorrect, PTL DEF LoopSpec

\* Devices that agree are a stage of their own.
LEMMA LoopInvInit == SettledLoop /\ LoopInit => LoopInv
<1> SUFFICES ASSUME SettledLoop, LoopInit PROVE LoopInv
  OBVIOUS
<1>1. PICK s \in Starts : panel = s.panel /\ board = s.board
  BY DEF LoopInit
<1>2. s \in [panel : Frame, board : Frame] /\ Settled(s)
  BY DevicesAssumption DEF SettledLoop
<1> DEFINE p == Payload(panel)
           o == Payload(board)
<1>3. Bare(p) /\ Bare(o) /\ BoardSettled(o) /\ Agree(p, o)
  BY <1>1, <1>2, SettledPayload
<1>4. Carries(panel, p) /\ Carries(board, o)
  BY <1>1, <1>2 DEF Carries, Settled
<1> HIDE DEF p, o
<1>5. ~overlay.active /\ mirror = TRUE /\ ~state.panel_valid /\ ~state.main_valid
      /\ panelTask.pc = "idle" /\ mainTask.pc = "idle"
  BY DEF LoopInit, Init, IdleMainTask, IdlePanelTask
<1>6. Stage(p, o, p, o) /\ Loop(p, o, p, o)
  BY <1>3, <1>4, <1>5 DEF Stage, Loop
<1> QED
  BY <1>6 DEF LoopInv

LEMMA LoopInvAlways ==
    ASSUME SettledLoop
    PROVE  PromptSpec => [](LoopTypeOK /\ OverlayAgreement /\ LoopInv)
<1>1. PromptSpec => LoopInit /\ [][PromptNext]_loopVars
  BY PTL DEF PromptSpec
<1>2. LoopInit => LoopInv
  BY LoopInvInit
<1>3. LoopTypeOK /\ OverlayAgreement /\ LoopInv /\ [PromptNext]_loopVars => LoopInv'
  BY LoopInvStep
<1> QED
  BY <1>1, <1>2, <1>3, PromptIsLoop, LoopTypeCorrect, LoopAgreement, PTL

\* What a step of the loop may do to a command's status.
LEMMA LoopClaims ==
    ASSUME SettledLoop, LoopTypeOK, OverlayAgreement, LoopInv, [PromptNext]_loopVars
    PROVE  /\ state'.command_status = "confirmed" /\ state.command_status # "confirmed"
                => MainConfirms(board, request)
           /\ state'.command_status = "cancelled" => state.command_status = "cancelled"
<1>1. PICK p, o, q, n : Stage(p, o, q, n) /\ Loop(p, o, q, n)
  BY DEF LoopInv
<1>2. /\ IsRequest(request) /\ overlay \in Overlay /\ overlay.active \in BOOLEAN
      /\ state \in AcState /\ board \in Frame
  BY DEF LoopTypeOK, TypeOK, Overlay
<1>3. CASE Inside(MainStateUpdated)
  <2>1. board' = board /\ mainTask.pc = "forwarded"
    BY <1>3 DEF Inside, MainStateUpdated
  <2>2. CASE overlay.confirmation_pending /\ MainConfirms(mainTask.frame, request)
    <3>1. overlay.active
      BY <2>2 DEF OverlayAgreement
    <3>2. MainConfirms(board, request)
      BY <1>1, <2>1, <2>2, <3>1, ConfirmedLast DEF LoopTypeOK
    <3>3. state'.command_status = "confirmed"
      BY <1>2, <1>3, <2>2 DEF Inside, MainStateUpdated, Reported, AcState
    <3> QED
      BY <2>1, <3>2, <3>3
  <2>3. CASE ~(overlay.confirmation_pending /\ MainConfirms(mainTask.frame, request))
    <3>1. state'.command_status = state.command_status
      BY <1>2, <1>3, <2>3 DEF Inside, MainStateUpdated, AcState
    <3> QED
      BY <2>1, <3>1
  <2> QED
    BY <2>2, <2>3
<1>4. CASE PanelSent
  <2>1. panelTask.pc = "receiving"
    BY <1>4 DEF PanelSent, PanelFrameReceived
  <2>2. ~(overlay.active /\ PhysicalChange(panelTask.frame))
    BY <1>1, <2>1, NotMistaken DEF SettledLoop, LoopTypeOK
  <2>3. state' = state
    BY <1>4, <2>2 DEF PanelSent, PanelFrameReceived
  <2> QED
    BY <2>3
<1>5. CASE Inside(QueueAlone)
  <2>1. state'.command_status = "pending"
    BY <1>2, <1>5 DEF Inside, QueueAlone, QueueControl, AcState
  <2> QED
    BY <2>1
<1>6. CASE Inside(PanelStateUpdated)
  <2>1. state'.command_status = state.command_status
    BY <1>2, <1>6 DEF Inside, PanelStateUpdated, AcState
  <2> QED
    BY <2>1
<1>7. CASE BoardSends
  <2>1. state' = state
    BY <1>7 DEF BoardSends, MainFrameReceived
  <2> QED
    BY <2>1
<1>8. CASE PanelSends \/ PanelIsShown \/ Inside(SetHardwareReady(TRUE)) \/ UNCHANGED loopVars
  <2>1. state' = state
    BY <1>8 DEF PanelSends, PanelIsShown, Inside, PanelFrameStarted, MainFrameForwarded,
                SetHardwareReady, loopVars, vars
  <2> QED
    BY <2>1
<1> QED
  BY <1>3, <1>4, <1>5, <1>6, <1>7, <1>8 DEF PromptNext

\* "Confirmed" is the truth.  While both links answer and nobody is at the
\* panel, from any settled state of the appliance and for any plain requests, a
\* command is reported confirmed only when the appliance stands as it asks,
\* though several frames of both devices are on their way (update_main_state).
THEOREM ConfirmedObeyed ==
    ASSUME SettledLoop
    PROVE  PromptSpec => ConfirmedIsObeyed
<1>1. LoopTypeOK /\ OverlayAgreement /\ LoopInv /\ [PromptNext]_loopVars =>
        [state'.command_status = "confirmed" /\ state.command_status # "confirmed" =>
            MainConfirms(board, request)]_loopVars
  BY LoopClaims
<1> QED
  BY <1>1, LoopInvAlways, PTL DEF PromptSpec, ConfirmedIsObeyed

\* There, no echo of a forged status is mistaken for a button pressed: no
\* command is cancelled (panel_state_matches_request).
THEOREM NeverCancelled ==
    ASSUME SettledLoop
    PROVE  PromptSpec => EchoNeverCancels
<1>1. LoopTypeOK /\ OverlayAgreement /\ LoopInv /\ [PromptNext]_loopVars =>
        [state'.command_status = "cancelled" => state.command_status = "cancelled"]_loopVars
  BY LoopClaims
<1> QED
  BY <1>1, LoopInvAlways, PTL DEF PromptSpec, EchoNeverCancels
=============================================================================
