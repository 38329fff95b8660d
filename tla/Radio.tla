-------------------------------- MODULE Radio --------------------------------
(***************************************************************************)
(* The two services that share the radio, in the order in which app_main   *)
(* (main.c) starts them, over restarts of the device.  A restart is a loss *)
(* of power, esp_restart, or an ESP_ERROR_CHECK that fails, also in        *)
(* zigbee_main_task; it may come at any time.  The Zigbee network is kept  *)
(* in flash, everything else is lost.                                      *)
(***************************************************************************)
EXTENDS WifiService, ZigbeeService

CONSTANT MaxRestarts  \* bound: restarts of the device

ASSUME RadioAssumption == MaxRestarts \in Nat

VARIABLE restarts

radioVars == <<wifiVars, zigbeeVars, restarts>>

RadioTypeOK == WifiTypeOK /\ ZigbeeTypeOK /\ restarts \in 0..MaxRestarts

RadioInit == WifiInit /\ ZigbeeInit /\ restarts = 0

WifiStep == WifiNext /\ UNCHANGED <<zigbeeVars, restarts>>

\* zigbee_service_start comes after wifi_service_start.
ZigbeeStep ==
    /\ ZigbeeNext
    /\ zigbeeTask = "none" /\ zigbeeTask' # "none" => wifiStart = "started"
    /\ UNCHANGED <<wifiVars, restarts>>

Restart ==
    /\ restarts < MaxRestarts
    /\ restarts' = restarts + 1
    /\ wifiStart' = "none" /\ listening' = FALSE /\ station' = "off"
    /\ wifiEvents' = <<>> /\ connected' = FALSE
    /\ zigbeeTask' = "none" /\ joined' = FALSE /\ stack' = "off"
    /\ signals' = <<>> /\ shown' = {}
    /\ acState' \in AcStates
    /\ UNCHANGED member

RadioNext == WifiStep \/ ZigbeeStep \/ Restart

RadioSpec ==
    /\ RadioInit
    /\ [][RadioNext]_radioVars
    /\ WifiFairness
    /\ ZigbeeFairness
=============================================================================
