---------------------------- MODULE MCPanelLoop -----------------------------
(* Instances of PanelLoop.  "Cold" is the appliance just plugged in: off, no *)
(* target remembered.                                                       *)
EXTENDS PanelLoop, FrontEnds

Cold     == [ZeroFrame EXCEPT !.code = 65]
Off      == [ZeroFrame EXCEPT !.code = 49, !.temp = 20, !.encoded = 68, !.rest = 7]
Running  == [Off EXCEPT !.power = TRUE, !.quiet = TRUE]
FanRuns  == [Running EXCEPT !.code = 34]
FanBoard == [FanRuns EXCEPT !.code = 33]

Standing(f) == [panel |-> f, board |-> f]

AllStarts == {Standing(Cold), Standing(Off), Standing(Running),
              [panel |-> FanRuns, board |-> FanBoard]}

RunningStart == {Standing(Running)}

\* All but the cold one.
SettledStarts == {s \in AllStarts : Settled(s)}

\* Off, with Fan set, in a room at 17 degrees, which the main board shows.
ChillyFan == {[panel |-> [FanRuns EXCEPT !.power = FALSE],
               board |-> [FanBoard EXCEPT !.power = FALSE, !.temp = 17,
                                          !.encoded = EncodeSetpoint(17)]]}

NoFrames == {}
NoPress  == {}
UserOff  == {[Running EXCEPT !.power = FALSE]}

PowerOn  == [power |-> TRUE]

(* Messages of the clients, some of which no front end accepts. *)

Bodies == {[power |-> TRUE], [power |-> FALSE], [mode |-> "cool", setpoint |-> 30],
           [raw |-> 34], [raw |-> 256], [raw |-> 34, fan |-> "low"],
           [mode |-> "heat"], [timer |-> TRUE], [units |-> TRUE],
           [mode |-> "fan", power |-> TRUE, quiet |-> FALSE]}

Climate(mode, power) ==
    [climate |-> [mode |-> mode, target_temp |-> 24, fan |-> "high", power |-> power]]

Messages == {[mode |-> name] : name \in {"off", "cool", "fan_only", "dry", "auto"}}
                \cup {[temperature |-> t] : t \in {24, 33}}
                \cup {Climate("cool", TRUE), Climate("off", FALSE), Climate("off", TRUE)}

Writes == {[fan_mode |-> name] : name \in {"low", "auto", "medium"}}
              \cup {[cooling_setpoint |-> value] : value \in {1800, 2450}}

ClientRequests == RequestsFrom(Bodies, Messages, Writes)

\* Targets, modes, fans, switches and raw codes, one of each way to ask.
SettledRequests == {r \in ClientRequests : Plain(r)}

FlagRequests == {PowerOn, [units |-> TRUE]}

PowerRequests == {PowerOn}
=============================================================================
