--------------------------- MODULE MqttPublisher ----------------------------
(***************************************************************************)
(* main/mqtt_service.c: two tasks and a broker.  The event handler runs in *)
(* the client library's task, raises the pending flags and answers         *)
(* commands; klima_mqtt, the worker, publishes discovery and state from    *)
(* the flags it finds, 250 ms apart.  Neither takes a lock: the flags are  *)
(* volatile bools, read, acted on and cleared in separate steps.           *)
(*                                                                         *)
(* What is published is abstracted: the bridge's state is one of two, an   *)
(* entity is its place in the discovery list.  The library and the broker  *)
(* are modelled from what the service configures: QoS 1 publications wait  *)
(* in a bounded outbox for their acknowledgement, over a lost connection   *)
(* too; commands come with QoS 0 and die with the connection; the last     *)
(* will says "offline".                                                    *)
(***************************************************************************)
EXTENDS Integers, Sequences, SequencesExt

CONSTANTS
    Controls,     \* entities announced without looking at the connection
    Diagnostics,  \* entities of k_diagnostics, announced while connected
    OutboxLimit,  \* publications the library keeps (outbox.limit)
    MaxCommands,  \* bound: commands the clients send
    MaxUpsets     \* bound: connections lost and births of Home Assistant

ASSUME SizesAssumption ==
    /\ {Controls, Diagnostics, OutboxLimit} \subseteq Nat \ {0}
    /\ {MaxCommands, MaxUpsets} \subseteq Nat

VARIABLES
    started,            \* s_mqtt.started
    connected,          \* s_mqtt.connected
    discovery_pending,  \* s_mqtt.discovery_pending
    state_pending,      \* s_mqtt.state_pending
    due,                \* MQTT_STATE_PERIOD_MS have passed since last_state
    worker,             \* where mqtt_worker stands
    entity,             \* the entity publish_discovery announces next
    handler,            \* where mqtt_event_handler stands
    bridge,             \* the state the bridge reports
    applied,            \* how often each command was queued at the bridge
    outbox,             \* publications not yet acknowledged
    incoming,           \* commands on their way to the client
    wire,               \* the connection carries messages
    broker,             \* what the broker retains
    sent,               \* commands sent
    upsets,             \* connections lost and births so far
    dropped             \* watched topics dropped in this connection

flags == <<started, connected, discovery_pending, state_pending, due>>
network == <<outbox, incoming, wire, broker, sent, upsets, dropped>>
place == <<worker, entity>>
vars == <<flags, place, handler, bridge, applied, network>>

Entity == 1..(Controls + Diagnostics)

\* The topics nothing publishes again before the next connection or birth.
Watched == {"availability", "entity"}

\* Two states of the bridge, to tell a stale publication from a fresh one.
State == 0..1

\* A publication: "online", the state, or the announcement of one entity.
Message ==
    [topic : {"availability", "control"}, value : 0..1]
        \cup [topic : {"state"}, value : State]
        \cup [topic : {"entity"}, value : Entity]

\* Nothing retained: not yet published, or forgotten by a restarted broker.
Nothing == -1

\* A command on its way, and whether it comes from the broker's memory.
Command == [id : 1..MaxCommands, retain : BOOLEAN]

Retained == [online : BOOLEAN, state : {Nothing} \cup State,
             entities : SUBSET Entity, command : 0..MaxCommands]

EmptyBroker == [online |-> FALSE, state |-> Nothing, entities |-> {},
                command |-> 0]

MqttTypeOK ==
    /\ {started, connected, discovery_pending, state_pending, due, wire}
            \subseteq BOOLEAN
    /\ worker \in {"idle", "announce", "report", "state", "clear"}
    /\ entity \in Entity
    /\ handler \in {"idle", "connected", "subscribe"}
    /\ bridge \in State
    /\ applied \in [1..MaxCommands -> Nat]
    /\ outbox \in Seq(Message) /\ Len(outbox) <= OutboxLimit
    /\ incoming \in Seq(Command)
    /\ broker \in Retained
    /\ sent \in 0..MaxCommands /\ upsets \in 0..MaxUpsets
    /\ dropped \subseteq Watched

\* mqtt_service_start: everything zero, the client created, the worker running.
Init ==
    /\ started = FALSE /\ connected = FALSE
    /\ discovery_pending = FALSE /\ state_pending = FALSE /\ due = FALSE
    /\ worker = "idle" /\ entity = 1 /\ handler = "idle"
    /\ bridge = 0 /\ applied = [c \in 1..MaxCommands |-> 0]
    /\ outbox = <<>> /\ incoming = <<>>
    /\ wire = FALSE
    /\ broker = EmptyBroker
    /\ sent = 0 /\ upsets = 0 /\ dropped = {}

-----------------------------------------------------------------------------

\* publish_text: nothing is published without a connection, and what the
\* library answers is ignored.
Publish(up, topic, value) ==
    LET full == Len(outbox) = OutboxLimit
        m == [topic |-> topic, value |-> value]
    IN  /\ outbox' = IF up /\ ~full THEN Append(outbox, m) ELSE outbox
        /\ dropped' = IF up /\ full THEN dropped \cup ({topic} \cap Watched)
                                      ELSE dropped

link == <<incoming, wire, broker, sent, upsets>>

(* The worker *)

\* esp_mqtt_client_start, tried again every five seconds while Wi-Fi is up.
StartClient ==
    /\ worker = "idle" /\ ~started
    /\ started' = TRUE
    /\ UNCHANGED <<connected, discovery_pending, state_pending, due, place,
                   handler, bridge, applied, network>>

TakeDiscovery ==
    /\ worker = "idle" /\ connected /\ discovery_pending
    /\ discovery_pending' = FALSE
    /\ worker' = "announce" /\ entity' = 1
    /\ UNCHANGED <<started, connected, state_pending, due, handler, bridge,
                   applied, network>>

\* The list is complete, or cut short by a lost connection.
LastEntity ==
    \/ entity = Controls + Diagnostics
    \/ entity > Controls /\ ~connected

\* Mutant: the flag is cleared when discovery is complete.
AnnounceAndClear ==
    /\ worker = "announce"
    /\ Publish(connected, "entity", entity)
    /\ worker' = IF LastEntity THEN "report" ELSE "announce"
    /\ entity' = IF LastEntity THEN 1 ELSE entity + 1
    /\ discovery_pending' = (discovery_pending /\ ~LastEntity)
    /\ UNCHANGED <<started, connected, state_pending, due, handler, bridge,
                   applied, link>>

\* An announcement that finds no memory is left out, and nobody told.
Omit(up) ==
    /\ dropped' = IF up THEN dropped \cup {"entity"} ELSE dropped
    /\ UNCHANGED outbox

\* publish_discovery: the worker sleeps between two entities, and only the
\* diagnostics look at the connection before they are built.
Announce ==
    /\ worker = "announce"
    /\ Publish(connected, "entity", entity) \/ Omit(connected)
    /\ worker' = IF LastEntity THEN "report" ELSE "announce"
    /\ entity' = IF LastEntity THEN 1 ELSE entity + 1
    /\ UNCHANGED <<flags, handler, bridge, applied, link>>

\* Mutant: state is only published when somebody asked for it.
AskedOnly == state_pending

ReportWanted == state_pending \/ due

\* publish_state_now reads the bridge twice: first for control_availability,
\* which is followed only as far as it takes its place in the outbox,
PublishControl ==
    /\ \/ worker = "report"
       \/ worker = "idle" /\ connected /\ ~discovery_pending
    /\ ReportWanted
    /\ Publish(connected, "control", 0)
    /\ worker' = "state"
    /\ due' = FALSE
    /\ UNCHANGED <<started, connected, discovery_pending, state_pending,
                   entity, handler, bridge, applied, link>>

\* and then for the state.
PublishState ==
    /\ worker = "state"
    /\ Publish(connected, "state", bridge)
    /\ worker' = "clear"
    /\ UNCHANGED <<flags, entity, handler, bridge, applied, link>>

\* The flag is cleared after the publication, whoever has raised it meanwhile.
ClearStatePending ==
    /\ worker = "clear"
    /\ state_pending' = FALSE
    /\ worker' = "idle"
    /\ UNCHANGED <<started, connected, discovery_pending, due, entity, handler,
                   bridge, applied, network>>

NothingToReport ==
    /\ worker = "report" /\ ~ReportWanted
    /\ worker' = "idle"
    /\ UNCHANGED <<flags, entity, handler, bridge, applied, network>>

Worker == StartClient \/ TakeDiscovery \/ Announce \/ PublishControl
             \/ PublishState \/ ClearStatePending \/ NothingToReport
-----------------------------------------------------------------------------
(* The event handler *)

\* Mutant: the flag is raised after the birth message.
OnConnectedLate ==
    /\ handler = "connected"
    /\ connected' = TRUE
    /\ Publish(connected, "availability", 1)
    /\ handler' = "subscribe"
    /\ UNCHANGED <<started, discovery_pending, state_pending, due, place,
                   bridge, applied, link>>

\* MQTT_EVENT_CONNECTED, first half: from here on publications pass.
OnConnected ==
    /\ handler = "connected"
    /\ connected' = TRUE
    /\ Publish(TRUE, "availability", 1)
    /\ handler' = "subscribe"
    /\ UNCHANGED <<started, discovery_pending, state_pending, due, place,
                   bridge, applied, link>>

\* Second half: the subscriptions bring the retained command, and the flags go
\* up last.
OnSubscribed ==
    /\ handler = "subscribe"
    /\ incoming' = IF wire /\ broker.command # 0
                   THEN Append(incoming, [id |-> broker.command, retain |-> TRUE])
                   ELSE incoming
    /\ discovery_pending' = TRUE
    /\ state_pending' = TRUE
    /\ handler' = "idle"
    /\ UNCHANGED <<started, connected, due, place, bridge, applied, outbox,
                   wire, broker, sent, upsets, dropped>>

\* MQTT_EVENT_DISCONNECTED, at the latest when the keepalive goes unanswered.
OnDisconnected ==
    /\ handler = "idle" /\ connected /\ ~wire
    /\ connected' = FALSE
    /\ UNCHANGED <<started, discovery_pending, state_pending, due, place,
                   handler, bridge, applied, network>>

\* Home Assistant has started: "online" on homeassistant/status.
OnBirth ==
    /\ handler = "idle" /\ connected /\ wire /\ upsets < MaxUpsets
    /\ upsets' = upsets + 1
    /\ discovery_pending' = TRUE
    /\ state_pending' = TRUE
    /\ UNCHANGED <<started, connected, due, place, handler, bridge, applied,
                   outbox, incoming, wire, broker, sent, dropped>>

\* Mutant: retained commands are obeyed.
ActsOnAny(command) == TRUE

\* A retained command is never acted on.
ActsOn(command) == ~command.retain

\* MQTT_EVENT_DATA on a command topic: the command is queued and the state
\* wanted, or it is refused as retained, fragmented, unreadable or unsuitable.
\* The answer is left out: it is published once, and nobody retains it.
OnCommand ==
    LET command == Head(incoming)
    IN  /\ handler = "idle" /\ connected
        /\ incoming # <<>>
        /\ incoming' = Tail(incoming)
        /\ \/ /\ ActsOn(command)
              /\ applied' = [applied EXCEPT ![command.id] = @ + 1]
              /\ bridge' = 1 - bridge
              /\ state_pending' = TRUE
           \/ UNCHANGED <<applied, bridge, state_pending>>
        /\ UNCHANGED <<started, connected, discovery_pending, due, place,
                       handler, outbox, wire, broker, sent, upsets,
                       dropped>>

Handler == OnConnected \/ OnSubscribed \/ OnDisconnected \/ OnBirth \/ OnCommand
-----------------------------------------------------------------------------
(* The bridge, time, the network and the broker *)

\* The appliance's state changes; nothing tells the publisher.  Going one way
\* only bounds the changes; a command goes either way.
BridgeChanges ==
    /\ bridge = 0
    /\ bridge' = 1
    /\ UNCHANGED <<flags, place, handler, applied, network>>

\* MQTT_STATE_PERIOD_MS pass, in which a working connection empties the outbox;
\* the worker looks at the clock only while connected.
PeriodPasses ==
    /\ connected
    /\ wire => outbox = <<>>
    /\ due' = TRUE
    /\ UNCHANGED <<started, connected, discovery_pending, state_pending, place,
                   handler, bridge, applied, network>>

Connect ==
    /\ started /\ handler = "idle" /\ ~connected /\ ~wire
    /\ wire' = TRUE
    /\ handler' = "connected"
    /\ dropped' = {}
    /\ UNCHANGED <<flags, place, bridge, applied, outbox, incoming, broker,
                   sent, upsets>>

\* The connection breaks, or the broker restarts with nothing retained.  The
\* last will is published before the client can come back.
ConnectionLost ==
    /\ wire /\ upsets < MaxUpsets
    /\ wire' = FALSE
    /\ incoming' = <<>>
    /\ broker' \in {[broker EXCEPT !.online = FALSE], EmptyBroker}
    /\ upsets' = upsets + 1
    /\ UNCHANGED <<flags, place, handler, bridge, applied, outbox, sent,
                   dropped>>

Retains(m) ==
    CASE m.topic = "availability" -> [broker EXCEPT !.online = TRUE]
      [] m.topic = "state"        -> [broker EXCEPT !.state = m.value]
      [] m.topic = "entity"       -> [broker EXCEPT !.entities = @ \cup {m.value}]
      [] m.topic = "control"      -> broker

\* A publication arrives, perhaps after a younger one: the library repeats what
\* was not acknowledged on the last connection.
Deliver(i) ==
    /\ wire
    /\ broker' = Retains(outbox[i])
    /\ outbox' = RemoveAt(outbox, i)
    /\ UNCHANGED <<flags, place, handler, bridge, applied, incoming, wire,
                   sent, upsets, dropped>>

\* A client sends a command, and may ask the broker to keep it.
SendCommand(retain) ==
    /\ sent < MaxCommands
    /\ sent' = sent + 1
    /\ incoming' = IF wire /\ connected /\ handler = "idle"
                   THEN Append(incoming, [id |-> sent + 1, retain |-> FALSE])
                   ELSE incoming
    /\ broker' = IF retain THEN [broker EXCEPT !.command = sent + 1] ELSE broker
    /\ UNCHANGED <<flags, place, handler, bridge, applied, outbox, wire,
                   upsets, dropped>>

Environment == BridgeChanges \/ PeriodPasses \/ Connect \/ ConnectionLost
                  \/ (\E i \in 1..Len(outbox) : Deliver(i))
                  \/ (\E retain \in BOOLEAN : SendCommand(retain))

Next == Worker \/ Handler \/ Environment

\* The library acknowledges its oldest publication while the wire holds.
OldestArrives == outbox # <<>> /\ Deliver(1)

\* Both tasks are scheduled, time passes, a working connection delivers, and
\* the keepalive notices a dead one.  Nothing makes the connection work.
Spec ==
    /\ Init /\ [][Next]_vars
    /\ WF_vars(Worker)
    /\ WF_vars(OnConnected) /\ WF_vars(OnSubscribed) /\ WF_vars(OnDisconnected)
    /\ WF_vars(PeriodPasses) /\ WF_vars(OldestArrives)

-----------------------------------------------------------------------------
(* Properties *)

\* A command is acted on at most once, whatever its sender asked the broker to
\* keep and however often the client subscribes again.
AppliedOnce == \A c \in DOMAIN applied : applied[c] <= 1

\* Once the connection holds, the broker ends up retaining what the bridge
\* says: neither a flag cleared too late, nor a publication dropped, nor an old
\* one repeated after a new one leaves a stale state there for good.
StateArrives ==
    <>[]connected => <>[](broker.state = bridge)

\* Discovery interrupted by any number of lost connections and restarted
\* brokers is complete once the connection holds, unless an entity was dropped
\* for a full outbox or for want of memory.
DiscoveryArrives ==
    <>[]connected => <>[](broker.entities = Entity \/ "entity" \in dropped)

\* A connected bridge is shown as online in the end, unless its birth message
\* was dropped, the outbox still full of the last connection's messages.
AvailabilityArrives ==
    <>[]connected => <>[](broker.online \/ "availability" \in dropped)
=============================================================================
