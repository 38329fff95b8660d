----------------------------- MODULE AcProtocol -----------------------------
(***************************************************************************)
(* The appliance protocol of main/ac_protocol.c: what the firmware reads   *)
(* from a frame, and what it writes into one when a command is overlaid.   *)
(*                                                                         *)
(* A frame is a record of the fields the code tells apart.  Byte 4 stays a *)
(* number, because modes and fans are its two nibbles; the bits of byte 5  *)
(* are four Booleans; every byte no operation reads or writes is "rest";   *)
(* "sum" says whether the XOR of the whole frame has its target value.     *)
(*                                                                         *)
(* A control request is a function whose domain is the request's mask.     *)
(***************************************************************************)
EXTENDS Integers

AC_MODE_UNKNOWN == 0
AC_MODE_FAN     == 2
AC_MODE_COOL    == 3
AC_MODE_DRY     == 4

AC_FAN_UNKNOWN == 0
AC_FAN_LOW     == 1
AC_FAN_HIGH    == 3

Byte == 0..255

\* The bits of ac_control_mask_t.
Field == {"power", "setpoint", "mode", "fan", "raw", "quiet", "units", "timer"}

FlagField == {"quiet", "units", "timer"}

\* ac_control_request_t: a value for every field in the mask, of its C type.
IsRequest(req) ==
    /\ DOMAIN req \subseteq Field
    /\ req = [field \in DOMAIN req |-> req[field]]
    /\ \A field \in DOMAIN req :
            req[field] \in IF field \in {"power"} \cup FlagField
                          THEN BOOLEAN ELSE Byte

\* What the firmware keeps of one complete frame, of either direction.
Frame == [event : BOOLEAN, code : Byte, power : BOOLEAN, quiet : BOOLEAN,
          units : BOOLEAN, timer : BOOLEAN, temp : Byte, encoded : Byte,
          rest : Byte, sum : BOOLEAN]

\* The bytes 4..13 of a panel frame: all but the event marker and the checksum.
Payload(f) == [f EXCEPT !.event = FALSE, !.sum = TRUE]

-----------------------------------------------------------------------------
(* Decoding *)

ModeOf(code) ==
    LET nibble == (code \div 16) % 16
    IN  IF nibble \in {AC_MODE_FAN, AC_MODE_COOL, AC_MODE_DRY}
        THEN nibble ELSE AC_MODE_UNKNOWN

FanOf(code) ==
    LET nibble == code % 16
    IN  IF nibble \in AC_FAN_LOW..AC_FAN_HIGH THEN nibble ELSE AC_FAN_UNKNOWN

\* The main board answers the panel's FAN code 0x22 with 0x21.
PanelToMain(code) == IF code = 34 THEN 33 ELSE code
MainToPanel(code) == IF code = 33 THEN 34 ELSE code

ValidSetpoint(temp) == temp \in 18..32

\* Mutant: the division by five is forgotten, and with it the byte overflows.
EncodeUndivided(temp) == temp * 9 + 160

\* uint8_t: the Fahrenheit value rounded to nearest, kept to eight bits.
EncodeSetpoint(temp) == ((temp * 9 + 2) \div 5 + 32) % 256

-----------------------------------------------------------------------------
(* Overlaying a request on a frame *)

\* The three range checks both overlay functions and the queue perform.
ValidRequest(req) ==
    /\ "setpoint" \in DOMAIN req => ValidSetpoint(req.setpoint)
    /\ "mode" \in DOMAIN req => req.mode \in {AC_MODE_FAN, AC_MODE_COOL, AC_MODE_DRY}
    /\ "fan" \in DOMAIN req => req.fan \in {AC_FAN_LOW, AC_FAN_HIGH}

\* The panel-side mode/fan code a request asks for, given the current code.
RequestedModeFan(code, req) ==
    LET mode  == IF "mode" \in DOMAIN req THEN req.mode ELSE ModeOf(code)
        fan   == IF "fan" \in DOMAIN req THEN req.fan ELSE FanOf(code)
        speed == IF fan \in {AC_FAN_LOW, AC_FAN_HIGH} THEN fan ELSE AC_FAN_LOW
    IN  CASE "raw" \in DOMAIN req                           -> req.raw
          [] "raw" \notin DOMAIN req /\ mode = AC_MODE_DRY  -> 67
          [] "raw" \notin DOMAIN req /\ mode = AC_MODE_FAN  -> 34
          [] "raw" \notin DOMAIN req /\ mode = AC_MODE_COOL -> 48 + speed
          [] OTHER                                          -> code

\* Powering on a controller that remembers no valid target starts from the
\* captured cold-start state: Cool, Low, 18 degrees.
Bootstrap(f, req) ==
    IF "power" \in DOMAIN req /\ req.power /\ ~ValidSetpoint(f.temp)
    THEN [f EXCEPT !.code = 49, !.temp = 18, !.encoded = EncodeSetpoint(18)]
    ELSE f

Requested(req, field, old) == IF field \in DOMAIN req THEN req[field] ELSE old

\* Mutant: the flags are copied from the request whatever its mask says.
WriteAllFlags(f, req, event) ==
    [f EXCEPT !.event = event,
              !.power = Requested(req, "power", @),
              !.temp = Requested(req, "setpoint", @),
              !.encoded = IF "setpoint" \in DOMAIN req
                          THEN EncodeSetpoint(req.setpoint) ELSE @,
              !.quiet = Requested(req, "quiet", FALSE),
              !.units = Requested(req, "units", FALSE),
              !.timer = Requested(req, "timer", FALSE),
              !.sum = TRUE]

\* Everything but the mode/fan code: ac_protocol_finalize closes the frame.
WriteFields(f, req, event) ==
    [f EXCEPT !.event = event,
              !.power = Requested(req, "power", @),
              !.temp = Requested(req, "setpoint", @),
              !.encoded = IF "setpoint" \in DOMAIN req
                          THEN EncodeSetpoint(req.setpoint) ELSE @,
              !.quiet = Requested(req, "quiet", @),
              !.units = Requested(req, "units", @),
              !.timer = Requested(req, "timer", @),
              !.sum = TRUE]

AsksModeFan(req) == DOMAIN req \cap {"mode", "fan", "raw"} # {}

\* ac_protocol_apply_control: a panel frame carrying the request.
ApplyControl(f, req, event) ==
    LET g == Bootstrap(f, req)
    IN  [WriteFields(g, req, event)
            EXCEPT !.code = IF AsksModeFan(req) THEN RequestedModeFan(@, req) ELSE @]

\* ac_protocol_apply_control_main: the status the panel is shown instead of
\* the main board's own, with the code translated to the panel's side and back.
ApplyControlMain(f, req, event) ==
    LET g == Bootstrap(f, req)
    IN  [WriteFields(g, req, event)
            EXCEPT !.code = IF AsksModeFan(req)
                            THEN PanelToMain(RequestedModeFan(MainToPanel(@), req))
                            ELSE @]

\* Both overlay functions refuse a frame that does not parse or a bad request.
CanApply(f, req) == f.sum /\ ValidRequest(req)

-----------------------------------------------------------------------------
(* Comparing a frame with a request *)

\* Mutant: power is not compared.
MatchWithoutPower(f, req) ==
    /\ "setpoint" \in DOMAIN req => f.temp = req.setpoint
    /\ "mode" \in DOMAIN req => ModeOf(f.code) = req.mode
    /\ ("fan" \in DOMAIN req /\ ModeOf(f.code) = AC_MODE_COOL)
            => FanOf(f.code) = req.fan
    /\ \A flag \in FlagField \cap DOMAIN req : f[flag] = req[flag]

\* The conditions the two comparisons have in common.
SharedMatch(f, req) ==
    /\ "power" \in DOMAIN req => f.power = req.power
    /\ "setpoint" \in DOMAIN req => f.temp = req.setpoint
    /\ "mode" \in DOMAIN req => ModeOf(f.code) = req.mode
    /\ ("fan" \in DOMAIN req /\ ModeOf(f.code) = AC_MODE_COOL)
            => FanOf(f.code) = req.fan
    /\ \A flag \in FlagField \cap DOMAIN req : f[flag] = req[flag]

\* panel_state_matches_request: the panel repeats what it was asked to show.
PanelMatches(f, req) ==
    /\ SharedMatch(f, req)
    /\ "raw" \in DOMAIN req => f.code = req.raw

\* Mutant: the raw code is compared as the panel sends it.
ConfirmsUntranslated(f, req) ==
    /\ SharedMatch(f, req)
    /\ "setpoint" \in DOMAIN req => ModeOf(f.code) = AC_MODE_COOL
    /\ "raw" \in DOMAIN req => f.code = req.raw

\* The confirmation rule of update_main_state: a target counts only in Cool.
MainConfirms(f, req) ==
    /\ SharedMatch(f, req)
    /\ "setpoint" \in DOMAIN req => ModeOf(f.code) = AC_MODE_COOL
    /\ "raw" \in DOMAIN req => f.code = PanelToMain(req.raw)

-----------------------------------------------------------------------------
(* Building a request *)

\* The merge of bridge_service_queue_control: new fields replace old ones, and
\* a raw mode/fan code and the decoded pair drive each other out.
Merge(old, new) ==
    LET dropped == (IF {"mode", "fan"} \cap DOMAIN new # {} THEN {"raw"} ELSE {})
                   \cup (IF "raw" \in DOMAIN new THEN {"mode", "fan"} ELSE {})
    IN  [field \in (DOMAIN old \ dropped) \cup DOMAIN new |->
            IF field \in DOMAIN new THEN new[field] ELSE old[field]]

EmptyRequest == [field \in {} |-> 0]
=============================================================================
