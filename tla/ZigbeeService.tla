---------------------------- MODULE ZigbeeService ----------------------------
(***************************************************************************)
(* zigbee_service.c without the attribute writes (which are in FrontEnds): *)
(* the start of the service, commissioning, and the publication of the     *)
(* bridge's state in the attributes.                                       *)
(*                                                                         *)
(* The Zigbee stack and the network are external.  The stack does one      *)
(* commissioning at a time, ends it with a signal, and begins none unless  *)
(* it is asked to; it keeps its membership of a network in flash.          *)
(***************************************************************************)
EXTENDS Integers, Sequences

CONSTANT AcStates  \* what bridge_service_get_ac_state may return

ASSUME ZigbeeAssumption == AcStates # {}

VARIABLES
    zigbeeTask,  \* zigbee_main_task
    joined,      \* s_zigbee.joined
    stack,       \* what the stack is doing
    member,      \* zb_storage holds a network
    signals,     \* signals the stack has not delivered
    acState,     \* the bridge's state
    shown        \* the state the attributes show, {} before the first

commissioningVars == <<joined, stack, member, signals>>
attributeVars     == <<acState, shown>>
zigbeeVars        == <<zigbeeTask, commissioningVars, attributeVars>>

\* "lost": the initialisation has failed, or a commissioning was not accepted;
\* nothing is under way and nothing will begin.
StackStates == {"off", "idle", "initialising", "steering", "lost"}

\* A signal, and whether its status is EZB_BDB_STATUS_SUCCESS.
Signal == {"SKIP_STARTUP", "START", "STEERING", "LEAVE"} \X BOOLEAN

MaxSignals == 2  \* bound: signals waiting at once

ZigbeeTypeOK ==
    /\ zigbeeTask \in {"none", "starting", "running", "ended"}
    /\ joined \in BOOLEAN
    /\ stack \in StackStates
    /\ member \in BOOLEAN
    /\ signals \in Seq(Signal) /\ Len(signals) <= MaxSignals
    /\ acState \in AcStates
    /\ shown \in {{}} \cup {{s} : s \in AcStates}

\* s_zigbee.started.
Started == zigbeeTask = "running"

\* zigbee_service_is_joined.
IsJoined == Started /\ joined

\* The device may have joined a network in an earlier life.
ZigbeeInit ==
    /\ zigbeeTask = "none"
    /\ joined = FALSE
    /\ stack = "off"
    /\ member \in BOOLEAN
    /\ signals = <<>>
    /\ acState \in AcStates
    /\ shown = {}

-----------------------------------------------------------------------------
(* Start *)

\* zigbee_service_start creates zigbee_main_task and report_task.
StartZigbee ==
    /\ zigbeeTask = "none"
    /\ zigbeeTask' = "starting"
    /\ UNCHANGED <<commissioningVars, attributeVars>>

\* The data model is registered and the stack started without commissioning;
\* it asks for that by a signal.
MainloopStarts ==
    /\ zigbeeTask = "starting"
    /\ zigbeeTask' = "running"
    /\ stack' = "idle"
    /\ signals' = <<<<"SKIP_STARTUP", TRUE>>>>
    /\ UNCHANGED <<joined, member, attributeVars>>

\* zb_storage cannot be initialised: the task deletes itself, the device goes
\* on without Zigbee.
StorageFails ==
    /\ zigbeeTask = "starting"
    /\ zigbeeTask' = "ended"
    /\ UNCHANGED <<commissioningVars, attributeVars>>

\* The stack's main loop returns without an error: the stack is taken down and
\* the task deletes itself, leaving joined as it is.  (After an error the
\* device restarts.)
MainloopReturns ==
    /\ zigbeeTask = "running"
    /\ zigbeeTask' = "ended"
    /\ stack' = "off"
    /\ signals' = <<>>
    /\ UNCHANGED <<joined, member, attributeVars>>

-----------------------------------------------------------------------------
(* signal_handler *)

\* commissioning_start: the stack refuses while it is busy, and may refuse
\* otherwise; the refusal is only logged.
Commission(mode) ==
    stack' \in IF stack \in {"initialising", "steering"} THEN {stack} ELSE {mode, "lost"}

\* zigbee_service_publish_state when the stack's lock is free.
ShowState == shown' = {acState}

SkipStartup ==
    /\ Commission("initialising")
    /\ UNCHANGED <<joined, shown>>

\* Mutant: a successful start is followed by another start.
StartAgain(success) ==
    /\ joined' = FALSE
    /\ IF success THEN Commission("initialising") ELSE UNCHANGED stack
    /\ UNCHANGED shown

\* DEVICE_FIRST_START and DEVICE_REBOOT.
StartSignal(success) ==
    /\ joined' = FALSE
    /\ IF success THEN Commission("steering") ELSE UNCHANGED stack
    /\ UNCHANGED shown

\* Mutant: a steering that fails is not repeated.
SteeringOnce(success) ==
    /\ joined' = success
    /\ UNCHANGED stack
    /\ IF success THEN ShowState ELSE UNCHANGED shown

\* A device that has joined publishes its state, if the lock is free.
SteeringSignal(success) ==
    /\ joined' = success
    /\ IF success THEN UNCHANGED stack /\ (ShowState \/ UNCHANGED shown)
                  ELSE Commission("steering") /\ UNCHANGED shown

\* Mutant: after leaving, the device still counts as joined.
LeaveUnnoticed == Commission("steering") /\ UNCHANGED <<joined, shown>>

LeaveSignal ==
    /\ joined' = FALSE
    /\ Commission("steering")
    /\ UNCHANGED shown

SignalHandler ==
    /\ Started
    /\ signals # <<>>
    /\ signals' = Tail(signals)
    /\ LET type == Head(signals)[1]  success == Head(signals)[2]
       IN  \/ type = "SKIP_STARTUP" /\ SkipStartup
           \/ type = "START" /\ StartSignal(success)
           \/ type = "STEERING" /\ SteeringSignal(success)
           \/ type = "LEAVE" /\ LeaveSignal
    /\ UNCHANGED <<zigbeeTask, member, acState>>

-----------------------------------------------------------------------------
(* The stack and the network *)

Signals(type, success) ==
    /\ Started
    /\ Len(signals) < MaxSignals
    /\ signals' = Append(signals, <<type, success>>)
    /\ UNCHANGED <<zigbeeTask, joined, attributeVars>>

\* A new device has nothing to resume; a member finds its network.
Initialised ==
    /\ stack = "initialising"
    /\ stack' = "idle"
    /\ UNCHANGED member
    /\ Signals("START", TRUE)

\* The coordinator does not answer, for instance because it starts more slowly
\* than the device after a power cut.
InitialisationFails ==
    /\ stack = "initialising"
    /\ member
    /\ stack' = "lost"
    /\ UNCHANGED member
    /\ Signals("START", FALSE)

Steered ==
    /\ stack = "steering"
    /\ stack' = "idle"
    /\ member' = TRUE
    /\ Signals("STEERING", TRUE)

\* No network permits joining, or it does not answer.
SteeringFails ==
    /\ stack = "steering"
    /\ stack' = "idle"
    /\ UNCHANGED member
    /\ Signals("STEERING", FALSE)

\* The coordinator removes the device.
Leave ==
    /\ member
    /\ stack \notin {"initialising", "lost"}
    /\ member' = FALSE
    /\ UNCHANGED stack
    /\ Signals("LEAVE", TRUE)

-----------------------------------------------------------------------------
(* Attributes *)

\* Mutant: the task reports once.
ReportFirst ==
    /\ Started
    /\ shown = {}
    /\ ShowState
    /\ UNCHANGED <<zigbeeTask, commissioningVars, acState>>

\* report_task, every 2 s, when it gets the stack's lock within 100 ms.
Report ==
    /\ Started
    /\ ShowState
    /\ UNCHANGED <<zigbeeTask, commissioningVars, acState>>

\* The appliance or a command changes the bridge's state.
AcStateChanges ==
    /\ acState' \in AcStates \ {acState}
    /\ UNCHANGED <<zigbeeTask, commissioningVars, shown>>

ZigbeeNext ==
    \/ StartZigbee \/ MainloopStarts \/ StorageFails \/ MainloopReturns
    \/ SignalHandler
    \/ Initialised \/ InitialisationFails \/ Steered \/ SteeringFails \/ Leave
    \/ Report \/ AcStateChanges

\* The tasks go on; the stack ends what it has begun, and a network is open to
\* the device now and then; the lock is free now and then.
ZigbeeFairness ==
    /\ WF_zigbeeVars(StartZigbee)
    /\ WF_zigbeeVars(MainloopStarts)
    /\ WF_zigbeeVars(SignalHandler)
    /\ WF_zigbeeVars(Initialised \/ InitialisationFails)
    /\ SF_zigbeeVars(Steered)
    /\ SF_zigbeeVars(Report)

-----------------------------------------------------------------------------
(* Properties *)

\* A device that is not joined is on its way: the stack is at work or a signal
\* that puts it to work is waiting, unless commissioning was lost.
AlwaysCommissioning ==
    Started /\ ~joined => stack # "idle" \/ signals # <<>>

\* A device counts as joined only while it is a member, or until it is told
\* that it has been removed.
JoinedIsMember ==
    IsJoined => member \/ <<"LEAVE", TRUE>> \in {signals[i] : i \in DOMAIN signals}

\* A running service whose commissioning is not lost joins, and joins again
\* each time it is removed.
Joins == []<>IsJoined \/ <>[](~Started) \/ <>(stack = "lost")

\* A state the bridge keeps reaches the attributes, also outside a network.
StateShown ==
    \A s \in AcStates : <>[](acState = s) => <>[](shown = {s}) \/ []<>(~Started)
=============================================================================
