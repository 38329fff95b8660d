----------------------------- MODULE FrontEnds ------------------------------
(***************************************************************************)
(* What the three front ends make of the messages of their clients: each   *)
(* either refuses a message or hands one control request to                *)
(* bridge_service_queue_control.  Syntax (JSON, topics, attribute types)   *)
(* is abstracted; the ranges, names and combinations they accept are not.  *)
(*                                                                         *)
(* A message is a function from the keys it has to their values.           *)
(***************************************************************************)
EXTENDS AcProtocol

\* parse_fan, parse_fan_name: the one vocabulary all front ends share.
FanNamed == [low |-> AC_FAN_LOW, high |-> AC_FAN_HIGH]

-----------------------------------------------------------------------------
(* HTTP: a JSON object with any of the fields of a request *)

WebMode == [cool |-> AC_MODE_COOL, fan |-> AC_MODE_FAN, dry |-> AC_MODE_DRY]

\* The timer is refused whatever its value.
WebAllows ==
    [power    |-> BOOLEAN,        setpoint |-> 18..32,
     mode     |-> DOMAIN WebMode, fan      |-> DOMAIN FanNamed,
     raw      |-> Byte,           quiet    |-> BOOLEAN,
     units    |-> BOOLEAN,        timer    |-> {}]

\* control_handler takes all of a body or none of it.
WebAccepts(body) ==
    /\ DOMAIN body # {}
    /\ \A key \in DOMAIN body : body[key] \in WebAllows[key]
    /\ "raw" \in DOMAIN body => DOMAIN body \cap {"mode", "fan"} = {}

WebRequest(body) ==
    [field \in DOMAIN body |->
        CASE field = "mode" -> WebMode[body.mode]
          [] field = "fan"  -> FanNamed[body.fan]
          [] OTHER          -> body[field]]

-----------------------------------------------------------------------------
(* MQTT: one topic a message; only the climate topic carries an object *)

MqttMode == [cool |-> AC_MODE_COOL, fan_only |-> AC_MODE_FAN, dry |-> AC_MODE_DRY]

\* parse_mode_name: "off" is a power state, every other name implies power.
MqttModeRequest(name) ==
    IF name = "off" THEN [power |-> FALSE]
                    ELSE [power |-> TRUE, mode |-> MqttMode[name]]

MqttModeNames == {"off"} \cup DOMAIN MqttMode

\* handle_full_climate_command: all four fields, and a power state that agrees
\* with the mode.
ClimateAccepts(climate) ==
    /\ climate.mode \in MqttModeNames
    /\ climate.target_temp \in 18..32
    /\ climate.fan \in DOMAIN FanNamed
    /\ climate.power = (climate.mode # "off")

ClimateRequest(climate) ==
    Merge(MqttModeRequest(climate.mode),
          [setpoint |-> climate.target_temp, fan |-> FanNamed[climate.fan]])

\* handle_command_topic: a topic nobody listens to is ignored.
MqttAccepts(message) ==
    \/ DOMAIN message = {"climate"} /\ ClimateAccepts(message.climate)
    \/ DOMAIN message = {"mode"} /\ message.mode \in MqttModeNames
    \/ DOMAIN message = {"temperature"} /\ message.temperature \in 18..32
    \/ DOMAIN message = {"fan"} /\ message.fan \in DOMAIN FanNamed
    \/ DOMAIN message \in {{"power"}, {"quiet"}, {"units"}}

MqttRequest(message) ==
    CASE DOMAIN message = {"climate"}     -> ClimateRequest(message.climate)
      [] DOMAIN message = {"mode"}        -> MqttModeRequest(message.mode)
      [] DOMAIN message = {"temperature"} -> [setpoint |-> message.temperature]
      [] DOMAIN message = {"fan"}         -> [fan |-> FanNamed[message.fan]]
      [] OTHER                            -> message

-----------------------------------------------------------------------------
(* Zigbee: one attribute written *)

\* setpoint_request: hundredths of a degree, whole degrees only.
ZigbeeSetpoint(value) == value \in 1800..3200 /\ value % 100 = 0

\* The fan cluster's AUTO is taken for HIGH, its other modes are refused.
ZigbeeFan == [low |-> AC_FAN_LOW, high |-> AC_FAN_HIGH, auto |-> AC_FAN_HIGH]

ZigbeeAccepts(write) ==
    \/ DOMAIN write = {"system_mode"} /\ write.system_mode \in MqttModeNames
    \/ DOMAIN write = {"cooling_setpoint"} /\ ZigbeeSetpoint(write.cooling_setpoint)
    \/ DOMAIN write = {"fan_mode"} /\ write.fan_mode \in DOMAIN ZigbeeFan
    \/ DOMAIN write \in {{"quiet"}, {"units"}}

\* set_attr_value_handler: the thermostat's modes mean what MQTT's names mean.
ZigbeeRequest(write) ==
    CASE DOMAIN write = {"system_mode"}      -> MqttModeRequest(write.system_mode)
      [] DOMAIN write = {"cooling_setpoint"} -> [setpoint |-> write.cooling_setpoint \div 100]
      [] DOMAIN write = {"fan_mode"}         -> [fan |-> ZigbeeFan[write.fan_mode]]
      [] OTHER                               -> write

-----------------------------------------------------------------------------

\* Every request the front ends queue when their clients send these messages.
RequestsFrom(bodies, messages, writes) ==
    {WebRequest(b) : b \in {b \in bodies : WebAccepts(b)}}
        \cup {MqttRequest(m) : m \in {m \in messages : MqttAccepts(m)}}
        \cup {ZigbeeRequest(w) : w \in {w \in writes : ZigbeeAccepts(w)}}
=============================================================================
