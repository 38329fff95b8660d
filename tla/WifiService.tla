----------------------------- MODULE WifiService -----------------------------
(***************************************************************************)
(* The station side of main/wifi_service.c: wifi_service_start, the event  *)
(* handler, and the status that /api/status shows.  The driver and the     *)
(* access point are external: the driver reports each change by an event,  *)
(* in order, and after a lost or failed connection does nothing until it   *)
(* is asked to connect again.                                              *)
(***************************************************************************)
EXTENDS Integers, Sequences

VARIABLES
    wifiStart,   \* how far wifi_service_start is
    listening,   \* network_event_handler is registered
    station,     \* the driver
    wifiEvents,  \* events the default event loop has not dispatched
    connected    \* s_status.sta_connected

wifiVars == <<wifiStart, listening, station, wifiEvents, connected>>

\* "refused": esp_wifi_connect has returned an error, which nobody looks at.
\* "bare": associated, without an address.
StationStates == {"off", "idle", "connecting", "refused", "bare", "online"}

WifiEvent == {"STA_START", "STA_DISCONNECTED", "STA_GOT_IP"}

MaxWifiEvents == 3  \* bound: events waiting at once

WifiTypeOK ==
    /\ wifiStart \in {"none", "init", "started"}
    /\ listening \in BOOLEAN
    /\ station \in StationStates
    /\ wifiEvents \in Seq(WifiEvent) /\ Len(wifiEvents) <= MaxWifiEvents
    /\ connected \in BOOLEAN

WifiInit ==
    /\ wifiStart = "none"
    /\ listening = FALSE
    /\ station = "off"
    /\ wifiEvents = <<>>
    /\ connected = FALSE

\* The driver changes state and says so.
Reports(state, event) ==
    /\ Len(wifiEvents) < MaxWifiEvents
    /\ station' = state
    /\ wifiEvents' = Append(wifiEvents, event)
    /\ UNCHANGED <<wifiStart, listening, connected>>

-----------------------------------------------------------------------------
(* wifi_service_start *)

\* The driver is initialised and knows the station's configuration.
WifiInitialise ==
    /\ wifiStart = "none"
    /\ wifiStart' = "init"
    /\ UNCHANGED <<listening, station, wifiEvents, connected>>

RegisterHandler ==
    /\ wifiStart # "none"
    /\ ~listening
    /\ listening' = TRUE
    /\ UNCHANGED <<wifiStart, station, wifiEvents, connected>>

\* wifi_service_start starts the driver last.
ReadyToStart == wifiStart = "init" /\ listening

\* esp_wifi_start; the station comes up later, with the event STA_START.
StartDriver ==
    /\ ReadyToStart
    /\ wifiStart' = "started"
    /\ station' = "idle"
    /\ wifiEvents' = Append(wifiEvents, "STA_START")
    /\ UNCHANGED <<listening, connected>>

-----------------------------------------------------------------------------
(* network_event_handler *)

\* esp_wifi_connect: an attempt begins or the call fails.
Connect == station' \in IF station = "idle" THEN {"connecting", "refused"} ELSE {station}

\* Mutant: the handler reconnects only after a connection.
ReconnectIfConnected ==
    IF connected THEN Connect ELSE UNCHANGED station

\* What the handler asks of the driver after a disconnection.
Reconnect == Connect

\* Mutant: a disconnection leaves the status alone.
StatusKept(event) == event = "STA_GOT_IP" \/ connected

\* The status after an event.
StatusAfter(event) == event = "STA_GOT_IP" \/ (event = "STA_START" /\ connected)

Handle(event) ==
    /\ connected' = StatusAfter(event)
    /\ \/ event = "STA_START" /\ Connect
       \/ event = "STA_DISCONNECTED" /\ Reconnect
       \/ event = "STA_GOT_IP" /\ UNCHANGED station

\* The event loop dispatches; an event nobody listens to is gone.
NetworkEvent ==
    /\ wifiEvents # <<>>
    /\ wifiEvents' = Tail(wifiEvents)
    /\ IF listening THEN Handle(Head(wifiEvents)) ELSE UNCHANGED <<station, connected>>
    /\ UNCHANGED <<wifiStart, listening>>

-----------------------------------------------------------------------------
(* The driver and the access point *)

Associate ==
    /\ station = "connecting"
    /\ station' = "bare"
    /\ UNCHANGED <<wifiStart, listening, wifiEvents, connected>>

ObtainAddress == station = "bare" /\ Reports("online", "STA_GOT_IP")

\* The lease runs out.  IP_EVENT_STA_LOST_IP is not registered.
LoseAddress ==
    /\ station = "online"
    /\ station' = "bare"
    /\ UNCHANGED <<wifiStart, listening, wifiEvents, connected>>

\* The attempt fails, or the access point is lost.
Disconnect ==
    /\ station \in {"connecting", "bare", "online"}
    /\ Reports("idle", "STA_DISCONNECTED")

WifiNext ==
    \/ WifiInitialise \/ RegisterHandler \/ StartDriver \/ NetworkEvent
    \/ Associate \/ ObtainAddress \/ LoseAddress \/ Disconnect

\* app_main and the event loop go on; an access point that stays lets the
\* station in sooner or later.
WifiFairness ==
    /\ WF_wifiVars(WifiInitialise)
    /\ WF_wifiVars(RegisterHandler)
    /\ WF_wifiVars(StartDriver)
    /\ WF_wifiVars(NetworkEvent)
    /\ SF_wifiVars(Associate)
    /\ SF_wifiVars(ObtainAddress)

-----------------------------------------------------------------------------
(* Properties *)

\* With no event waiting, a station that is online is shown as connected, and
\* one that is shown as connected is at least associated: a lost lease does not
\* show.
StatusIsCurrent ==
    wifiEvents = <<>> => /\ station = "online" => connected
                         /\ connected => station \in {"bare", "online"}

\* While its calls are accepted the station comes online again and again,
\* however often it is thrown out, and is shown as connected: the handler is
\* there before the driver starts, and connects after every disconnection.
\* After a call that is refused nobody connects again.
ComesOnline == [](station # "refused") => []<>connected
=============================================================================
