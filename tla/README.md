# A specification of the ESP32-C6 air-conditioner bridge

The firmware in `src/` sits between the display panel of a portable air
conditioner and its main board. It listens to both serial lines, lets services
(HTTP, MQTT, Zigbee) ask for changes of power, mode, target, fan and flags, and
reports what the appliance says it does. This directory holds TLA+ modules of
the parts that carry that logic, the TLC configurations that check them, and
TLAPS proofs about every one of them.

Contents: 1 the system, 2 the modules, 3 the runs, 4 the proofs, 5 what the
checks found about the code, 6 what is not covered, 7 what could come next.

## 1. The system

### Tasks and their priorities

One core, FreeRTOS preemptive scheduling, 100 Hz tick.

| task | priority | what it does |
|---|---|---|
| `control_takeover` | 18 | gates the hardware mirror for a command (idle in the shipped profile) |
| `link_panel`, `link_main` | 16 | read, assemble, check and forward frames |
| `control_watchdog` | 7 | gives up commands unanswered for 5 s |
| `bridge_health` | 6 | notices silent links |
| `capture_store`, `httpd`, MQTT client, `zigbee_main` | 5 | persistence, front ends |
| `klima_mqtt` worker, `zigbee_report` | 4 | publication |
| `app_main` | 1 | start-up |

Tasks of equal priority and any two tasks of which one blocks interleave between
their critical sections. No service (priority 5 or lower) runs while a stream
task is between two statements that do not block; the models use this in one
place, the restoring of the mirror (below).

### Components

| component | state it keeps | operations | correct when |
|---|---|---|---|
| Appliance protocol (`ac_protocol.c`) | none | decode, checksum, overlay a request on a frame of either side, merge and compare requests | an overlay changes what was requested and nothing else; results are bytes |
| Bridge: command path (`bridge_service.c`) | `s_overlay`, `s_state`, frame time stamps, `s_hardware_ready`, the mirror flag | `queue_control`, `set_hardware_ready`, forward, confirm, cancel, time out, take over | one outcome per command; a confirmation is true; a command always ends; the panel's line is only taken when it must be, and given back |
| Bridge: loop through the appliance | panel and main board (external) | the devices answer what they are shown | the loop closes; nobody's setting changes unasked |
| Bridge: start and route | two ETM channels, UART routing, five tasks | `bridge_service_start`, mirror on and off, rollbacks | outputs on only with a complete route behind them |
| Output stage preflight (`nts0104_preflight.c`) | `s_ctx.status`, the OE pin | init, self test, enable, disable | outputs stay off after any failure |
| Bridge: frame assembly | per-stream byte buffer, what was forwarded of this frame | consume byte, flush, time out, resynchronise, forward or withhold | a frame the line leaves alone is handed on once, no other is made up, no loss goes uncounted; one voice on the main board's line |
| Capture store (`capture_store.c`) | flash ring, queue, catalog, position, counters | init scan, enqueue, prepare, write, read by number | a log that forgets its oldest part only; unique numbers across restarts |
| Telemetry ring (`telemetry.c`), its reader `capture_http.py` | 96 entries, latest number; the collector's position and file | publish, read after; poll, append, note a gap | a reader misses nothing that is still there, and knows what it missed |
| MQTT front end (`mqtt_service.c`) | connection, discovery and publication flags | events, worker loop, command mapping | the last state is published; commands map to requests |
| Zigbee front end | commissioning state, attributes; membership in flash | start, steering, leaving, attribute writes, reports | a device that is outside is on its way in; what is shown is so; writes map to requests |
| HTTP front end and OTA (`web_service.c`), `app_main` | two application slots, the selection, the trial of an image | control, export, logs, update, restart; bootloader, mark valid | an image that starts is always left; an accepted update is tried |
| Wi-Fi service (`wifi_service.c`) | connected flag, address | start, driver events | reconnects for ever; the status follows the driver |
| Web page, Zigbee2MQTT converter, host tools, dashboard | none of the firmware's | clients of it | outside the firmware |

### How they interact

A service calls `bridge_service_queue_control`, which validates the request,
requires both links to be fresh (1 s) and the output stage to be ready, merges
the request into `s_overlay` under the spinlock `s_lock` and starts a clock.

In the shipped profile `MITM_NTS` (`KLIMA_PANEL_HARDWARE_FORWARD=1`,
`KLIMA_PANEL_LOOP_CONTROL=1`) the panel's line to the main board is carried in
hardware, by two ETM channels that mirror each edge. A command goes round a
loop: `link_main` overlays it on the next main-board status and sends that to
the panel with the event marker; the panel takes it for the appliance's state
and repeats it; the mirror carries the panel's frame to the main board; the main
board obeys and its next status satisfies `update_main_state`, which confirms.
`link_panel` looks at each panel frame: one that differs from the last and is
not the echo of the overlay is a physical change and cancels the command.
`control_watchdog` ends a command after 5 s.

With `KLIMA_PANEL_LOOP_CONTROL=0` (a compile-time variant, not shipped) a command
gates the mirror instead: `control_takeover` waits for an idle gap, `link_panel`
replaces the next panel frame, and the end of the command turns the mirror on
again. The same source serves both, so the switch is a CONSTANT of the models.

`app_main` starts everything, runs the self test of the level shifter after the
bridge runs, and only then reports `set_hardware_ready(true)`.
Both stream tasks hand frames to the capture queue, whose task writes flash.

### What is hard here

- Five tasks end or change one command under separate critical sections, each
  clearing its own set of flags of two structures (`s_overlay`, `s_state`).
- `link_main` writes from a copy of the overlay taken under the lock.
- The answers to the firmware's own forged statuses come back as panel frames and
  must be told from a person's; several older frames are in flight.
- Commands are merged while older ones are pending.
- Both links may fall silent; every queued command restarts the clock.
- The route is two channels and a pin, changed by separate calls that may fail.
- Start-up has some thirty driver calls that may fail with tasks already running.
- Power may be lost between and inside flash operations; readers export while
  the writer erases.
- A stream that has lost count finds frames again by header, length, check byte
  and silence only, and during a takeover decides byte by byte who speaks.
- The radio's events arrive late and in queues; a signal may report what no longer
  holds, with another behind it.
- An update may be a broken image, and the device may stop at any point of it.

`PROJECT.json` lists these and the others as `hazards`, at their lines.

## 2. The modules

| module | models | extends / uses |
|---|---|---|
| `AcProtocol` | `ac_protocol.c`: frames as records, the operators | |
| `BridgeControl` | the command path, both variants | `AcProtocol` |
| `PanelLoop` | `BridgeControl` composed with the panel and the main board | `BridgeControl` |
| `FrontEnds` | what HTTP, MQTT and Zigbee make of their clients' messages | `AcProtocol` |
| `FrameLink` | abstract: what frame assembly promises of a line | |
| `FrameStream` | a stream task byte by byte, on a line with faults | instance of `FrameLink` |
| `OutputStage` | start-up, self test, and the route step by step | |
| `Device` | bootloader, `app_main`, update and restart | |
| `WifiService`, `ZigbeeService` | the station and the end device, each with its driver or stack | |
| `Radio` | both in the order of `app_main`, over restarts | the two |
| `MqttPublisher` | MQTT event handler and worker, the client library's outbox, the broker | |
| `TelemetryRing` | log ring, `GET /api/logs`, the collector on the other side | |
| `CaptureLog` | abstract: what the capture promises | |
| `CaptureStore` | queue, writer, flash ring, scan, readers | instance of `CaptureLog` |
| `MCBridgeControl`, `MCPanelLoop` | frames, messages and requests of the instances | the latter also `FrontEnds` |
| `BridgeControlProofs` | theorems about the command path, the loop through the devices and the front ends | `PanelLoop`, `FrontEnds`, `TLAPS` |
| `OutputStageProofs`, `DeviceProofs`, `RadioProofs`, `MqttPublisherProofs`, `TelemetryRingProofs`, `CaptureStoreProofs`, `FrameStreamProofs` | theorems about the module of that name | that module, `TLAPS` |

How the parts overlap: `FrameStream` is what produces the frames that
`BridgeControl` receives whole; `OutputStage` is what `SetMirror` and
`SetHardwareReady` of `BridgeControl` stand for; `FrontEnds` supplies the requests
of `PanelLoop`; `Device` sees the start of `OutputStage` and `Radio` as one step each.

**AcProtocol.** A frame is a record of the fields the code tells apart: the event
marker, the mode/fan byte, the power bit and three flags, target and its
Fahrenheit byte, one value `rest` for all other bytes, and whether the checksum
is right. Bytes are `0..255`, arithmetic on them is `% 256`. A request is a
function from the fields it asks for to their values, which is how
`present_mask` is used. Merging is function override; the overlays keep the
order of the code (bootstrap from a cold frame, target only in Cool, code
translation between the two sides, flags, event marker, checksum).

**BridgeControl.** The variables are those of `bridge_service.c`, with the
locals of the tasks that can be overtaken:

| variable | code |
|---|---|
| `overlay`, `request` | `s_overlay` |
| `state` | `s_state`; power, mode, fan and flags are read off `main_raw` |
| `mirror` | `s_panel_to_main_hardware_mirror_enabled` |
| `hardwareReady` | `s_hardware_ready` |
| `mainAge`, `panelAge` | age of `s_main_frame_time_us`, `s_panel_frame_time_us` |
| `lineIdle` | whether `s_panel_last_byte_us` is a frame gap ago |
| `mainTask`, `panelTask`, `takeover` | locals of the three tasks |

| action | code |
|---|---|
| `SetHardwareReady`, `QueueControl` | `bridge_service_set_hardware_ready`, `bridge_service_queue_control` |
| `MainFrameReceived`, `MainFrameForwarded`, `MainStateUpdated` | the end of a main frame: copy and overlay, write, `update_main_state` |
| `PanelFrameStarted`, `PanelFrameReceived`, `PanelStateUpdated` | first and last byte of a panel frame, `update_panel_state` |
| `PanelLineIdle`, `PanelLineResumes`, `PanelFrameTimedOut` | silence on the panel's line and what the stream task does about it |
| `TakeoverGate`, `TakeoverCommit` | `control_takeover_task` before and after the mirror call |
| `Watchdog`, `Tick` | `control_watchdog_task`, time |

A step is one critical section with the code up to the next. Turning the mirror
back on after a command has ended is part of the step that ends it: it follows
without blocking, and everything that could queue or take over a command in
between runs at a lower priority or waits for a command. `SetMirror` treats the
change as a whole; its steps, failures and rollbacks are in `OutputStage`.

**PanelLoop.** The two devices are not in the repository. They are modelled from
what the firmware relies on: the panel believes a status with the event marker
and repeats its own state with the marker set, the main board obeys panel frames
and marks the first answer after a change. Outside Cool neither takes a target.
`LoopNext` is the free composition; `PromptNext` restricts the environment to
what `src/tools` and the acceptance procedure do: wait for each command, on
links that answer well within 5 s. `Settled` and `Plain` are hypotheses of some of
its results. A settled appliance has a code the firmware itself writes, a display
temperature a target could have, and both devices in one state. A plain request is in
range, and a raw code in it is one of those four and not contradicted by the rest of the
request. (Raw 0x21 is excluded because the panel repeats it as 0x22.) Everything
MQTT and Zigbee ask for is plain (`FrontEndsPlain`); HTTP may ask for other raw codes.

**FrontEnds.** One pair of operators per front end: which messages it accepts, and
the request it makes of one. HTTP takes any combination of fields but the timer,
and not a raw code together with mode or fan; MQTT takes one field a topic and a
full climate object whose power must agree with its mode; Zigbee one attribute.
`RequestsFrom` is what the bridge sees of a set of messages; `control_loop` gets its
`Requests` from it, the plain ones, with refused messages among those it starts from.

**FrameStream.** One of the two `stream_task`s (`side` chooses which, at the start).
A byte is a set of bits and XOR is the symmetric difference, so the check byte
is the code's; the bodies are short. `FrameBegins`, `ByteArrives`, `ByteLost`,
`ByteChanged`, `ByteAdded` and `Pause` are the line; `Consume` is `consume_byte` with
its retry, `flush_stream_raw`, `process_complete_frame` and, on the panel's side,
`hybrid_prepare_panel_frame` and `hybrid_forward_panel_byte`; `Tick` and `TimedOut`
are the end of the loop of `stream_task`. `TakeoverGate`, `TakeoverCommit`, `CommandEnds`
and `MirrorReturns` are as much of the command path as a stream looks at. `carried` is
everything that goes to the main board since the frame began, whether the mirror
repeats it (`Mirrored`) or the UART sends it (`HybridForward`). `damage`
and `line` are history: what the line did to the present frame, and where in it the
mirror came back. `FrameLink` is the
promise: a frame the line leaves alone is taken exactly once, as it was sent,
before the next one begins; of a harmed frame nothing is promised. A frame counts as
harmed when the silence behind it is filled with noise as long as a frame, or one byte
short of it (`LongNoise`): with enough faults such noise may itself be a frame.

**OutputStage.** `boot` is where `app_main` is. Each driver call, or a group of
calls with the same effect, succeeds or takes its error branch (`CallsMayFail`).
In one change of the route one call fails by itself; a rollback that fails too is
not modelled (the code ignores its result). `route.uart` is whether the UART is routed to
the pad, which is independent of the mirror: `MirrorOn` leaves it there, as
`UART_PIN_NO_CHANGE` does, and only the reset of the pad in `StartMirror` takes it
off. `everTaken` is history.

**Device.** `image` and `trial` are the two application slots and what otadata says
of them, `selected` the one it selects, `running` the one the device has started
from; `phase` is how far `app_main` is, `upload` where `ota_handler` is. An image
starts well, aborts before the end of `app_main`, or hangs in the bridge's start.
`Boot` is the bootloader with rollback enabled: a first boot puts the image on
trial, a second one on trial gives it up. `MarkValid` is the end of `app_main`.
`Upset` stops the device between any two steps, `DelayedRestart` a second after a
request whatever is going on.

**WifiService, ZigbeeService, Radio.** `wifiStart`, `listening` and `zigbeeTask` are
how far the services' starts are; `connected` and `joined` are the flags they keep;
`station`, `stack` and `member` are the driver, the stack and the network; `wifiEvents`
and `signals` are what these have reported and the handlers have not seen.
`NetworkEvent` is `network_event_handler`, `SignalHandler` is `signal_handler`,
`Report` is `report_task`. `Radio` adds the order of `app_main` (Zigbee after Wi-Fi)
and a restart at any time, over which only the membership lasts. `MainloopReturns` is
the return of the stack's main loop without an error; with one, `ESP_ERROR_CHECK`
restarts the device.

**MqttPublisher.** `connected`, `discovery_pending`, `state_pending` and `started` are
the volatile flags of `s_mqtt`; `worker`/`entity` and `handler` say where the two
tasks are. Reading a flag, publishing, and clearing it are separate steps, as
they are in `mqtt_worker`: `TakeDiscovery` clears before it publishes, `ClearStatePending`
after. `Publish` is `publish_text`: dropped without a connection, and dropped
unnoticed when the outbox is full; `Omit` is an announcement for which there is no
memory. `Controls` counts what is published without a look at the connection: the
climate, the two switches and the removal of the timer, or the removal only where
`bridge_service_mitm_active` is false, which is decided before MQTT is started. The library and the broker are external:
the outbox survives the connection, may be overtaken, and is emptied while the
connection works; the broker may forget everything when the connection breaks;
QoS 0 commands in flight are lost; a retained command comes back with every
subscription. The appliance's state is one of two values, and changes without
telling the publisher: nothing in the repository calls
`mqtt_service_publish_state`.

**TelemetryRing.** A line is its number. `Publish` is `telemetry_publishf`; `ReadLine`
is one turn of the loop in `logs_handler`, one critical section of
`telemetry_get_after`; `Respond` and `RespondEarly` end it. `Ask`, `Collect` and
`CollectNothing` are the poll of `src/tools/capture_http.py`: it keeps the last
number, appends what it gets to a file and notes a gap where the numbers jump. A
restart of the device starts the numbers again; the collector does not know, and
`first` says where the file's account of the new start begins, behind the old
position.

**CaptureStore.** A slot is erased, torn, or the number of its record. Erase and
write are separate steps under the mutex; each may fail, or be cut short by loss
of power, in any way that leaves each slot old, erased or torn; `sound` remembers
that none has failed since the start. `Boot` is the scan of `capture_store_init`.
`CaptureLog` is its abstraction: the set of numbers that can be read back; it
grows at its top, and forgets only among the oldest `Chunk` (a sector's worth),
never its latest.

Identifiers preceded by "Mutant:" are small plausible mistakes that the
properties are tested against; no specification uses them.

## 3. The runs

All constants are named in the `.cfg` files. Deadlock is checked except for
`OutputStage`, where a failed start ends.

| run | question | answer |
|---|---|---|
| `takeover` | takeover variant with frames on both lines, up to two commands, gating that may fail, every interleaving: does the bookkeeping agree (`OverlayAgreement`), does a command get one outcome (`SingleResolution`), does a confirmation show all that was asked (`ConfirmedIsReported`), does a new command start clean (`StartsFromScratch`), and does every end of a command turn the mirror on again (`LineReturned`)? | yes |
| `control_loop` | devices that answer, a client that waits and a settled appliance; three commands in a row, of each way a front end has to ask, each queued while frames of the one before are on their way: are all confirmed (`CommandsConfirmed`), is none cancelled with nobody at the panel (`EchoNeverCancels`), and does "confirmed" mean that the appliance has obeyed (`ConfirmedIsObeyed`)? | yes |
| `loop_open` | the shipped profile, two commands racing a person, the watchdog and time: do bookkeeping and outcomes agree there too (`OverlayAgreement`, `SingleResolution`), does a flag change only when somebody asked for it (`NothingElseChanges`), and does every pending command end, with both links silent (`CommandEnds`)? | yes, the second given time and the watchdog |
| `frame_stream` | a line that loses, changes and adds bytes and pauses, listened to from the middle of a frame: does every frame it leaves alone arrive (`IsFrameLink`, a refinement), is none made up by one hit or by what is left of an older one (`NoFrameIsMadeUp`), is every loss counted (`LossIsCounted`), and do UART and mirror together carry a frame once, or the command in its place and at most the bytes still to come when the mirror returned (`OneVoice`)? | yes |
| `outputs` | start-up and takeover with any driver call failing: are the outputs backed by both edges or by the UART, and until the first takeover by the mirror alone (`OutputsAreBacked`), and off after any failure (`FailsClosed`)? | yes |
| `device` | three uploads of any images, two losses of power anywhere, a bridge that may never start: is an image that starts always left (`Recoverable`), is HTTP there in the end (`StaysReachable`), is an accepted update tried (`AcceptedIsTried`)? | yes; the last unless the task that restarts the device could not be created |
| `radio` | an access point and a coordinator that come and go and a restart: does the status follow the driver (`StatusIsCurrent`), is the device a member when it says so (`JoinedIsMember`) and otherwise on its way (`AlwaysCommissioning`); does it come online (`ComesOnline`), join (`Joins`) and show the state (`StateShown`)? | yes, unless the driver or the stack has refused a call or the stack's start has failed: nothing repeats those |
| `mqtt_publisher` | a connection that breaks, a broker that forgets, Home Assistant restarting: is no command obeyed twice, however often the broker repeats it (`AppliedOnce`)? Once the connection holds, does the broker end up with the bridge's state (`StateArrives`), all entities (`DiscoveryArrives`) and "online" (`AvailabilityArrives`)? | yes; the last two unless such a message was dropped in this connection, for a full outbox or for want of memory |
| `telemetry` | a ring that overruns its reader, lost responses, a restart: does the ring keep its lines where they are looked for (`RingHolds`), does the collector note only what is gone (`MissedIsGone`), account for every number (`Accounted`) and get or note every line in the end (`Reached`)? | yes, but for the lines of a new start up to the old position, which it leaves out (section 5) |
| `capture_store` | flash errors and loss of power anywhere: is the flash the log of `CaptureLog` (`IsLog`, a refinement), are numbers unique (`NumbersUnique`), does an export skip nothing (`ExportSkipsNothing`), do catalog and status agree with the flash until it returns an error (`CatalogMatchesFlash`)? | yes |
| `v_PendingIsSatisfiable` | what a comment says of merged commands | violated: section 5 |
| `v_ModeChangesAreAsked` | what `docs/PROTOCOL.md` says of the temperature byte: does the appliance change its mode only when a command names one? | violated: section 5 |

`outputs` runs the takeover variant: the shipped one has the same start and never
takes the line, so its states are among those checked. The type invariants that
are not in a run are theorems (section 4).

### Bounds, and why they are enough

- `MaxSequence = 2` in the bridge: merging, inheriting from an ended command, and
  an answer to an older command all need two commands; nothing in the bridge
  distinguishes a third from a second. Round the whole loop that is not enough, since a
  second command can leave behind what only a third meets (section 5): `control_loop`
  has `MaxSequence = 3`, and the theorems about it any number.
- `ConfirmTimeout = 2` and `LinkFresh = 1` tick: a command can be young, old and
  overdue; a link fresh or stale on either side of the boundary. Ages saturate
  where the code stops telling them apart.
- Frames: off, Cool at 24 and fan on the main side; off and a panel setting on the
  panel side, which is also the echo of "power on". These make every branch of
  confirmation, echo and cancellation fire. The requests are one that any frame with
  power confirms, two that contradict each other when merged (target against fan
  mode), and two the code must refuse (the timer, a target out of range). Requests of
  every other field go round the whole loop in `control_loop`.
- `takeover` has fewer panel frames and requests (`MCTakeoverPanelFrames`,
  `MCTakeoverRequests`) than `v_PendingIsSatisfiable`: the takeover task multiplies the
  interleavings. Of the shipped profile, whose steps are a part of them, `loop_open`
  checks the same bookkeeping round the devices; the theorems cover both for any frames.
- `MirrorMayFail` names the settings of the mirror that may fail. `takeover` lets
  gating fail (`{FALSE}`). Nothing in the code retries a failed return of the
  line, so `LineReturned` is a property of mirrors that can be returned; the other
  properties are proved for any failures.
- `FrameStream`: bytes of two bits, bodies of one (panel) and two (main) bytes, two
  faults. With four byte values the two headers, the two lengths and the check
  byte collide with data and with each other (the main length is a zero byte), so
  headers inside garbage, the other side's length and unknown lengths all occur;
  two bodies are enough for a shorter frame inside a longer one. Two faults
  make noise before a damaged frame, a hit in two successive frames, and two hits
  in one. `Gap = 4` is one more than `Timeout + Late`: the shortest silence between
  frames in which the timeout is certain to be noticed, as the real lines' is.
- `Device`: three uploads replace both slots and one again; two upsets interrupt a
  trial and the boot after it.
- `Radio`: one restart and two states; three Wi-Fi events and two signals may wait
  at once (`MaxWifiEvents`, `MaxSignals`).
- MQTT: one command, one lost connection or birth message, one entity of each kind
  and an outbox of two: a flag can be raised at each point of the worker's loop, an
  old publication can be overtaken by a new one, and the outbox can be full.
- `TelemetryRing`: three entries, responses of two lines, eight lines and a restart:
  the ring wraps twice, overruns the reader inside a response and between two,
  and a response ends full or empty.
- `CaptureStore`: three sectors of two slots and eight records: the ring wraps, a
  sector has a first and another slot, and there is a sector that is neither the
  one being erased nor the newest. `QueueLength = 1`: records in the queue have no
  identity.

### Fairness

- `WatchedSpec` (`loop_open`): weak fairness of `Tick` (time passes) and
  of `Watchdog` (the task loops over a 100 ms sleep at a priority above every
  service; its branch is always taken once enabled). Nothing is assumed of the
  links, the panel or the services.
- `PromptSpec` (`control_loop`): weak fairness of both devices and of
  the stream tasks' steps: both lines are polled continuously by the devices and
  the stream tasks run at priority 16 and never block between two of the
  modelled steps. No fairness of any service.
- `MqttPublisher!Spec`: weak fairness of the worker (it loops over a 250 ms sleep), of
  the handler's steps (the library calls it and it does not block), of noticing a
  dead connection (keepalive 60 s), of time, and of the acknowledgement of the
  oldest publication while the connection works. Connecting is not fair: the
  properties say `<>[]connected =>`. `PeriodPasses` assumes that five seconds are
  enough for a working connection to empty the outbox; without that the broker
  can be behind for ever.
- `TelemetrySpec`: weak fairness of asking, of the end of the handler and of giving
  up a request (the collector loops with a timeout of 3 s); strong fairness of
  reading a line and of collecting, because the ring's lock and the network are
  free again and again but not for ever.
- `RadioSpec`: weak fairness of the steps of `app_main`, the event loop and the stack's
  main loop, and of the end of an initialisation; strong fairness of associating,
  obtaining an address, being steered and reporting, which others can prevent
  again and again. Losing a connection or a network is never fair.
- `DeviceSpec`: weak fairness of the bootloader, of `app_main`, of the abort of an
  image that aborts, of the delayed restart, and of an upload's end. The last is an
  assumption about the client (section 6).

Every other run is a safety property and assumes no fairness.

## 4. The proofs

Eight modules, every theorem for every value of the constants; TLC first found
no counterexample on the instances above.

| module | theorem | states |
|---|---|---|
| `BridgeControlProofs` | `TypeCorrect` | `Spec => []TypeOK` |
| | `Agreement` | `Spec => []OverlayAgreement` |
| | `OneOutcome` | `Spec => SingleResolution` |
| | `ConfirmedHonestly` | `Spec => ConfirmedIsReported` |
| | `FreshStart` | `Spec => StartsFromScratch` |
| | `LineUntouched` | `Spec => []PanelLineUntouched` |
| | `LineAlwaysReturned` | `Spec => []LineReturned`, if turning the mirror on cannot fail |
| | `FlagsAreAsked` | `LoopSpec => [](OnlyAsked(panel) /\ OnlyAsked(board))` |
| | `NothingElse` | `LoopSpec => NothingElseChanges`, if every flag with both values in use can be set to both |
| | `FrontEndsSound` | what a front end accepts is in range and names mode and fan in one way only |
| | `ConfirmedObeyed` | `PromptSpec => ConfirmedIsObeyed`, from a settled appliance with plain requests |
| | `NeverCancelled` | `PromptSpec => EchoNeverCancels`, likewise |
| `OutputStageProofs` | `StageTypeCorrect` | `Spec => []StageTypeOK` |
| | `OutputsAlwaysBacked` | `Spec => []OutputsAreBacked` |
| | `ShippedMirrorAlone` | with `PANEL_LOOP_CONTROL`, `Spec => [](oe = "high" => route.mirrored /\ ~route.uart)` |
| | `AlwaysFailsClosed` | `Spec => []FailsClosed` |
| `DeviceProofs` | `DeviceTypeCorrect` | `DeviceSpec => []DeviceTypeOK` |
| | `AlwaysRecoverable` | `DeviceSpec => []Recoverable` |
| `RadioProofs` | `RadioTypeCorrect` | `RadioSpec => []RadioTypeOK` |
| | `StatusAlwaysCurrent` | `RadioSpec => []StatusIsCurrent` |
| | `JoinedAlwaysMember` | `RadioSpec => []JoinedIsMember` |
| | `NeverStrands` | `RadioSpec => []AlwaysCommissioning` |
| `MqttPublisherProofs` | `MqttTypeCorrect` | `Spec => []MqttTypeOK` |
| | `NeverAppliedTwice` | `Spec => []AppliedOnce` |
| `TelemetryRingProofs` | `TelemetryTypeCorrect` | `TelemetrySpec => []TelemetryTypeOK` |
| | `RingAlwaysHolds` | `TelemetrySpec => []RingHolds` |
| | `OnlyOverwrittenIsMissed` | `TelemetrySpec => []MissedIsGone` |
| | `EveryLineAccounted` | `TelemetrySpec => []Accounted` |
| `CaptureStoreProofs` | `CaptureTypeCorrect` | `Spec => []CaptureTypeOK` |
| | `NumbersAlwaysUnique` | `Spec => []NumbersUnique` |
| | `CatalogAlwaysMatches` | `Spec => []CatalogMatchesFlash` |
| | `ExportNeverSkips` | `Spec => ExportSkipsNothing` |
| | `ImplementsLog` | `Spec => IsLog`: `CaptureStore` implements `CaptureLog` |
| `FrameStreamProofs` | `StreamTypeCorrect` | `Spec => []TypeOK` |
| | `NoFrameMadeUp` | `Spec => []NoFrameIsMadeUp` |
| | `LossCounted` | `Spec => []LossIsCounted` |
| | `OneVoiceAlways` | `Spec => []OneVoice` |
| | `ImplementsFrameLink` | `Spec => IsFrameLink`: `FrameStream` implements `FrameLink` |

Assumptions on the constants, the weakest the code justifies, all named and
evaluated by TLC in the runs: in `BridgeControl` `SwitchesAssumption` (the two
switches), `TimesAssumption` (times and bound are naturals, the timeout is not
zero), `FramesAssumption` (frames are frames, with a right checksum: others never
reach the handlers) and `RequestsAssumption` (requests are requests and ask for
something); in `PanelLoop` `DevicesAssumption` (states of the devices are frames); in
`FrameStream` `BytesAssumption` (the second header is neither of the two lengths, as
0x44 is neither 0x0b nor 0x12) and `GapAssumption` (a timeout and a delay of the task that are
not zero, a silence between frames longer than both); in the other modules sizes that
are not zero and bounds that are naturals. Two theorems have a further hypothesis,
`SettledLoop` (the shipped profile, plain requests, settled starts), and three one of
their own, which the table gives; the runs of the same properties satisfy them.

**BridgeControl.** `TypeOK` is inductive by itself, given the lemmas on the protocol
operators: an overlay of a request on a frame is a frame (`ApplyType`), a merge of
two requests is a request that asks for something (`MergeType`).
`OverlayAgreement` is inductive relative to `TypeOK`: every action either ends
the command in both structures (`EndedAgrees`) or leaves the fields it relates
alone (`KeptAgrees`), and `QueueControl` and `TakeoverCommit` are done by hand.
`OutcomeStep` then says, from the two invariants, that there are only four things
a step can do to the reported outcome (nothing, queue, give up, confirm), from
which `OneOutcome` and `ConfirmedHonestly` follow; the second also needs
that the confirmation rule is at least as strict as what services can see
(`ShownOnceConfirmed`), for which translating a code to the panel's side
undoes its translation to the main board's. `FreshStart` needs the code's
habit of clearing the request at the *next* command rather than at each end.
`PanelLineUntouched` is not inductive: `NoTakeover` strengthens it with the
absence of both takeover flags, without which a takeover could begin.
`LineReturned` needs that a takeover about to report its failure has
left the mirror on (`LineInv`): the command it cancels has nothing to give back.

**PanelLoop, the flags.** `AskedInv`: every frame on its way, the command included,
carries only flags the devices started with, or that somebody requested or keyed in.
`NothingElse` needs its hypothesis: where a flag may only be asked for one way, a
status from before the command may still take it back.

**PanelLoop, the confirmation.** `LoopInv` gives every stage of a command two pairs of states:
panel and main board stood at `p` and `o` before it, and will stand at `q` and `n`. `Stage`
fixes the second pair by the first and the request (overlay, adoption, obedience), `Loop`
says where in the pipeline of panel, panel frame, panel's last frame, main board, main
frame and forged status which of them is, and that no place carries the new state before
the place ahead of it. The lemmas `StageLeads` and `PanelFollows` say that the devices at `p`
and `o`, shown `n`, come to `q` and `n` and stay there; they need that `n` differs from `o`
wherever `q` differs from `p`, which is what a settled appliance and a plain request
give: there, overlaying a request that is already satisfied changes nothing
(`ShownSettles`). A confirming frame then carries `n`, so by the order in the pipeline
every place does (`ConfirmedLast`), no echo of this command can reach the next, and the
pair `q`, `n` is the first pair of the next command. A panel frame is thus either the last
one again or matches the request (`NotMistaken`), so nothing is cancelled.

**FrontEnds.** By cases over the messages: of the checks in `queue_control` only hardware,
links and the target's mode can refuse what a front end has accepted.

**OutputStage.** Both properties follow from what `app_main` has done at each point of
its way. `StageInv` says it place by place; `RouteDriven` that every change of the
route, with any one call failing and its rollback, ends with a driver for the line.
That the mirror drives it alone at first needs that between the reset of the pad and
the first takeover nothing routes the UART there again: a mirror that is on is left
as it is by everything but `TakeLine`, which the shipped profile never takes
(`ShippedMirrorAlone`).

**Device.** `Recoverable` is not inductive: an upload overwrites the slot that is not
running. `DeviceInv` adds that the running slot is the one to fall back to
(`Safe`), or is on trial, and then nothing can be uploaded (`OnTrial`); and that a
slot the bootloader turns away from is on trial, or it would be chosen again.

**Radio.** The properties speak of moments at which no event waits, or of events not
yet handled, so the invariants say what each waiting event will leave behind. In
`WifiInv` the last event decides what will be shown; in `ZigbeeInv` a signal that
reports something outdated (a steering that has been undone, a failed start)
has one behind it that corrects it. `Popped` and `Pushed` are the queue's lemmas.

**MqttPublisher.** `AppliedInv`: a message on its way with retain unset has not been
acted on, and is on its way only once; the copies the broker keeps have retain
set, and the client ignores them.

**TelemetryRing.** `SlotsDiffer` (numbers less than a ring apart have different slots,
from division with remainder) gives `RingHolds`. `ResponseInv` describes a response
under way: its numbers rise, and what lies between two of them had been
overwritten when the second was read; `Begun` where the file's account begins.

**CaptureStore.** `CaptureInv`: while the service is up every number in flash is below
the next one and in the catalog; while nothing has failed the catalog is exact and
a prepared slot is erased. A start takes the highest number it finds, so the proof
needs that a bounded set of numbers has one (`MaxExists`, from the library's
theorem that the naturals are well founded).

`IsLog`: records are forgotten in order only because of how the ring
lies in the flash. `RingInv` says how: there is a slot `p` with the latest record, the
numbers rise from the start of the partition to `p` and again, all smaller, from
behind `p` to the end; the rest of `p`'s own sector is free; the service stands at
the slot after `p` or at the sector after `p`'s (a failed or torn operation skips
there). So the sector that is erased next holds the oldest records and not the
latest one (`OldestSector`), which is `Forget`, and a write comes behind all
others, which is `Append`.

**FrameStream.** `TypeOK` says that the buffer holds the beginning of a frame; one lemma
per branch of `consume_byte` (`First`, `Following`, `Consuming`) keeps it. The other
properties need to know what the buffer holds of the frame on the line: exactly what
was sent of it while the line has left it alone (`UnharmedInv`); after one hit that, or
as much with one byte wrong, or less than was sent (`SingleHitInv`). A frame with one
wrong byte does not pass: `OneByteTells` says that XOR over two sequences that differ in
one place differs, whatever their length. What the loop of `ac_protocol_xor` computes is
a recursive function; that it exists and takes the bytes one by one (`XorStepsExist`,
`XorLoop`) is proved by least counterexample, from the naturals being well founded, since
the library's induction theorems cannot be used. A frame that is too short is still in
the buffer at the next silence, and the silence is longer than the timeout
(`SilenceInv`). `VoiceInv` follows what was carried, by mirror and UART together. A command is only
ready while the mirror is off, so its burst leaves with the first byte or not at
all. A byte of an unharmed frame then has one way at a time: the mirror's
while it is on, and otherwise the UART's unless the burst took its place (`VoiceAfter`);
and when the mirror returns behind a burst, `TailGrows` follows the rest of the frame
that it carries. For the refinement
the same invariant gives the step of `FrameLink` that each step of the stream takes.

Only model-checked: everything under fairness (liveness and `ENABLED` are beyond
the prover): `CommandsConfirmed` and `CommandEnds` of the loop, and the
liveness of MQTT, radio, device and telemetry. None of the modules with theorems needs
a RECURSIVE operator.

## 5. What the checks found about the code

`v_PendingIsSatisfiable` is a run that states what the repository says, and is
violated: a target and then fan mode, both accepted and merged, wait for a
status that is Cool and Fan at once; no status is, and the command times out
though the appliance obeyed. The comment at `bridge_service.c:1135` describes
this false timeout as what ending the overlay early avoids.

`v_ModeChangesAreAsked` is the other: "power on" puts an appliance that stands in Fan
mode in a room of 17 degrees into Cool at 18. `ac_protocol.c:283` takes the temperature
byte of the main frame for the remembered target, whatever the mode, finds it out of
range and bootstraps. `docs/PROTOCOL.md:50-53` says that this byte is a target in Cool
only and that the firmware does not present it as one elsewhere.

The properties of `control_loop` are about settled appliances because none of them holds
for others:

- An appliance that was just plugged in stands at code 0x41 and already satisfies "fan
  low", so that command is confirmed by the next status. The overlay has meanwhile shown
  the panel the code it writes for the same thing, 0x43; the panel's echo of that
  arrives when the next command is pending, matches neither the last panel frame nor the
  request, and cancels it (`bridge_service.c:1471`) with nobody at the panel.
  `docs/PROTOCOL.md:59` and the comment at `bridge_service.c:1475` speak of physical events
  only. With the first echo still at work a third command can even be confirmed that the
  appliance has not obeyed. Two commands do not show that; the attempt to prove
  `ConfirmedIsObeyed` for every start did.
- With a display temperature that no target could have, the bootstrap above gives the
  appliance a mode nobody asked for. The same happens to an appliance whose first
  command after it was plugged in is fan mode.

With `Starts <- AllStarts`, which has the cold appliance too, TLC finds counterexamples of
both kinds. From a settled state every plain command leads to a settled one again
(`ShownSettles`), so without a person or a raw code only the cold state leads into the first.

Other places where code and documents differ, met while modelling:

- `docs/PROTOCOL.md:59-60` says that a physical panel event cancels the pending
  override and wins. `link_main` (`bridge_service.c:1423`) may already hold a copy of
  the overlay, and then still shows the cancelled command to the panel once.
- The panel's echo of a first command is taken for a key press when a second one
  was merged meanwhile (`bridge_service.c:1471`), and cancels it with nobody at the
  panel. The properties of `control_loop` are therefore about a client that waits.
- `docs/PROTOCOL.md:58-59` says that the state stays non-optimistic until the main
  board replies; the reported target already follows the panel's echo
  (`bridge_service.c:1048`). The same passage says that `MITM_NTS` replaces a panel
  frame; the theorem `LineUntouched` says that the shipped profile never does.
- Resetting the interlock (`main.c:56`) asks for the mirror and so routes the UART to
  the line before OE is driven low, against the comment at `main.c:59`.
- The comment at `main.c:135` says that the UARTs come up before networking; Wi-Fi and
  HTTP are started before them. `StaysReachable` depends on the code's order.
- After a restart of the device the collector goes on asking behind its old
  number: the first lines of the new start, still in the ring, are never delivered and
  no gap is noted (`tools/capture_http.py:42` and `:53`; the web page does the same,
  `web_ui.h:28`). `Accounted` and `Reached` leave out exactly these (`LeftOut`).
- Returning the line after a takeover leaves the UART on the pad: `uart_set_pin` is
  called with `UART_PIN_NO_CHANGE` (`bridge_service.c:343`), against the comment at
  `bridge_service.c:339-341` and `tests/test_bridge_mux_contract.py:34`, which say that
  it is disconnected before the mirror is enabled. Through the pin matrix the pad then
  keeps following the UART, so the mirror's edges do not reach it. `OutputsAreBacked`
  therefore demands a mirror alone only until the first takeover; the shipped profile
  has none (`ShippedMirrorAlone`).
- A command that ends after its burst returns the mirror at once, also in the middle of
  the panel's frame (`bridge_service.c:1191`). The rest of that frame then follows the
  burst on the main board's line; the comments at `bridge_service.c:242-245` and
  `1303-1310` speak of one or the other. `OneVoice` says what exactly may follow. Again
  this needs a takeover, which the shipped profile does not have.

## 6. What is not covered

Not modelled:

- Health report and state snapshot: they only read and format.
- Diagnostic compile-time profiles (bench, probes, sniffers): not the shipped
  program; their code is not compiled with it.
- Web page, Zigbee2MQTT converter, dashboard, and the host tools other than the log
  collector: other programs, clients of the interfaces above.

Modelled in part:

- HTTP: authorisation, the marker and the status pages are left out.
- `OutputStage`: a failing rollback call, whose result the code ignores.
- `FrameStream`: the mirror is taken at its word (`mirror`), so a UART left on the pad is
  not seen there; a burst leaves at once, and the mirror changes between two bytes of
  the line, not within one.
- `BridgeControl`: the takeover task's snapshot of the line and its call that gates the
  mirror are one step.
- Capture: contents of records, the drop counter, the case of no partition.
- `BridgeControl`: frame counters, except whether any frame was injected; time
  stamps, except as ages.
- Zigbee's data model and attribute formats; mDNS and the fallback access point;
  the texts of log lines and MQTT payloads.

What the properties assume or allow:

- Silence between frames is longer than the 30 ms timeout plus the time the task
  may take to notice it (`GapAssumption`).
- XOR does not see everything: a byte added beside an equal one, or two hits that
  cancel out, can make up a frame. `NoFrameIsMadeUp` is about one hit and none added.
- Marking an image valid ends the trial of the slot it runs from, as the interface of
  `esp_ota_ops` promises; an upload is refused while the running image is on trial.
- An upload ends. The receive loop retries its timeout without limit
  (`web_service.c:785`), so a client that stalls without closing keeps the one server
  task.
- A refused `esp_wifi_connect`, a refused commissioning and a failed start of the Zigbee
  stack are never retried; `radio`'s properties name these exceptions. A lost lease
  (`IP_EVENT_STA_LOST_IP`) has no handler, and `StatusIsCurrent` allows what follows.
- After a flash error the catalog may name records that are gone, until the next
  start.

Hazards that no property is about, some of them too small for the list in
`PROJECT.json`: the log names the wrong reason after a failed self test
(`main.c:87`); frames are dropped when the capture queue is full
(`capture_store.c:222`); numbers wrap at 2^32 while older, higher ones are in flash
(`capture_store.c:269`); time stamps are taken before the queue, so records may be
stored out of their order (`bridge_service.c:864`); a stalled upload (above).

## 7. What could come next

1. The wrap of the capture's numbers at 2^32, with a modulus as a constant: what the
   scan makes of a ring with both ends of the range in it.
2. Failing rollback calls in `OutputStage`, and what the next takeover does then.
3. What a cold appliance guarantees: that the first command brings it to a settled
   state or leaves it cold, and which sequences of commands are then safe.
4. The loop with a person at the panel: that a cancelled command leaves the devices
   agreeing again, which `LoopInv` could be extended to say.
5. A composition of `FrameStream` and `BridgeControl` in which a takeover works on
   bytes from end to end; today they agree on the interface by hand.
