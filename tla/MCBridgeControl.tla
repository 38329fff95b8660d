-------------------------- MODULE MCBridgeControl ---------------------------
(* Small instances of BridgeControl: three main-board statuses, three panel *)
(* frames and the requests that meet on them.                               *)
EXTENDS BridgeControl

Off    == [ZeroFrame EXCEPT !.code = 49, !.temp = 20, !.encoded = 68]
Cool   == [Off EXCEPT !.power = TRUE]
Cool24 == [Cool EXCEPT !.temp = 24, !.encoded = 75]
Fan    == [Cool EXCEPT !.code = 33, !.temp = 27, !.encoded = 81]

MCMainFrames == {Off, Cool24, Fan}

MCPanelFrames == {Off, [Cool24 EXCEPT !.event = TRUE],
                  [Cool EXCEPT !.event = TRUE, !.code = 34]}

PowerOn == [power |-> TRUE]
Target24 == [setpoint |-> 24]
FanMode == [mode |-> AC_MODE_FAN]
RawFan == [raw |-> 34]

MCRequests == {PowerOn, Target24, FanMode, RawFan,
               [fan |-> AC_FAN_HIGH, mode |-> AC_MODE_COOL],
               [timer |-> TRUE], [setpoint |-> 17]}

(* What the run with the takeover asks for, which has one actor more. *)
MCTakeoverRequests == {PowerOn, Target24, FanMode, [timer |-> TRUE], [setpoint |-> 17]}

MCTakeoverPanelFrames == {Off, [Cool EXCEPT !.event = TRUE]}
=============================================================================
