------------------------- MODULE MqttPublisherProofs -------------------------
(***************************************************************************)
(* Proofs about MqttPublisher, for any number of entities, any outbox, any *)
(* number of commands and lost connections: types, and that no command is  *)
(* acted on twice.                                                         *)
(*                                                                         *)
(* A command comes to the client once with retain unset, on the connection *)
(* on which it was sent, and any number of times out of the broker's       *)
(* memory.  AppliedInv says that what is on its way with retain unset has  *)
(* not been acted on, and is on its way once.                              *)
(***************************************************************************)
EXTENDS MqttPublisher, SequenceTheorems, TLAPS

\* The worker's place, the flags and the tasks' own variables.
LocalTypeOK ==
    /\ started \in BOOLEAN /\ connected \in BOOLEAN
    /\ discovery_pending \in BOOLEAN /\ state_pending \in BOOLEAN
    /\ due \in BOOLEAN /\ wire \in BOOLEAN
    /\ worker \in {"idle", "announce", "report", "state", "clear"}
    /\ entity \in Entity
    /\ handler \in {"idle", "connected", "subscribe"}
    /\ bridge \in State
    /\ sent \in 0..MaxCommands /\ upsets \in 0..MaxUpsets

OutboxTypeOK ==
    /\ outbox \in Seq(Message) /\ Len(outbox) <= OutboxLimit
    /\ dropped \subseteq Watched

CommandTypeOK ==
    /\ applied \in [1..MaxCommands -> Nat]
    /\ incoming \in Seq(Command)
    /\ broker \in Retained

\* The types in three parts, of which a step changes one or two.
LEMMA TypeParts == MqttTypeOK <=> LocalTypeOK /\ OutboxTypeOK /\ CommandTypeOK
  BY DEF MqttTypeOK, LocalTypeOK, OutboxTypeOK, CommandTypeOK

\* Publishing puts a message at the end of the outbox, or nothing.
LEMMA PublishType ==
    ASSUME OutboxTypeOK, NEW up, NEW topic, NEW value,
           [topic |-> topic, value |-> value] \in Message,
           Publish(up, topic, value)
    PROVE  OutboxTypeOK'
<1> DEFINE m == [topic |-> topic, value |-> value]
<1>1. OutboxLimit \in Nat
  BY SizesAssumption DEF SizesAssumption
<1>2. m \in Message
  OBVIOUS
<1> HIDE DEF m
<1>3. /\ outbox' = outbox \/ (Len(outbox) # OutboxLimit /\ outbox' = Append(outbox, m))
      /\ dropped' \subseteq dropped \cup Watched
  BY DEF Publish, m
<1>4. Append(outbox, m) \in Seq(Message) /\ Len(Append(outbox, m)) = Len(outbox) + 1
  BY <1>2, AppendProperties DEF OutboxTypeOK
<1>5. Len(outbox) \in Nat
  BY LenProperties DEF OutboxTypeOK
<1> QED
  BY <1>1, <1>3, <1>4, <1>5 DEF OutboxTypeOK

\* What the service publishes are messages.
LEMMA Messages ==
    ASSUME LocalTypeOK
    PROVE  /\ [topic |-> "entity", value |-> entity] \in Message
           /\ [topic |-> "control", value |-> 0] \in Message
           /\ [topic |-> "state", value |-> bridge] \in Message
           /\ [topic |-> "availability", value |-> 1] \in Message
  BY DEF LocalTypeOK, Message

\* Taking a message out of the outbox leaves messages.
LEMMA RemoveAtType ==
    ASSUME NEW S, NEW seq \in Seq(S), NEW i \in 1..Len(seq)
    PROVE  RemoveAt(seq, i) \in Seq(S) /\ Len(RemoveAt(seq, i)) = Len(seq) - 1
<1>1. Len(seq) \in Nat /\ \A j \in 1..Len(seq) : seq[j] \in S
  BY LenProperties, ElementOfSeq
<1>2. /\ SubSeq(seq, 1, i - 1) \in Seq(S)
      /\ Len(SubSeq(seq, 1, i - 1)) = i - 1
  BY <1>1, SubSeqProperties
<1>3. /\ SubSeq(seq, i + 1, Len(seq)) \in Seq(S)
      /\ Len(SubSeq(seq, i + 1, Len(seq))) = Len(seq) - i
  BY <1>1, SubSeqProperties
<1>4. /\ RemoveAt(seq, i) \in Seq(S)
      /\ Len(RemoveAt(seq, i)) = Len(SubSeq(seq, 1, i - 1)) + Len(SubSeq(seq, i + 1, Len(seq)))
  <2> DEFINE before == SubSeq(seq, 1, i - 1)
             behind == SubSeq(seq, i + 1, Len(seq))
  <2>1. before \in Seq(S) /\ behind \in Seq(S)
    BY <1>2, <1>3
  <2>2. RemoveAt(seq, i) = before \o behind
    BY DEF RemoveAt
  <2> HIDE DEF before, behind
  <2>3. before \o behind \in Seq(S) /\ Len(before \o behind) = Len(before) + Len(behind)
    BY <2>1, ConcatProperties
  <2> QED
    BY <2>2, <2>3 DEF before, behind
<1>5. (i - 1) + (Len(seq) - i) = Len(seq) - 1
  BY <1>1
<1> QED
  BY <1>2, <1>3, <1>4, <1>5, Zenon

\* The sizes are numbers, and there is an entity.
LEMMA Sizes ==
    /\ Controls \in Nat \ {0} /\ Diagnostics \in Nat \ {0} /\ OutboxLimit \in Nat \ {0}
    /\ MaxCommands \in Nat /\ MaxUpsets \in Nat
    /\ 1 \in Entity /\ 0 \in 0..MaxCommands /\ 0 \in 0..MaxUpsets
  BY SizesAssumption DEF SizesAssumption, Entity

\* The types hold at the start.
LEMMA MqttTypeInit == Init => MqttTypeOK
<1> SUFFICES ASSUME Init PROVE MqttTypeOK
  OBVIOUS
<1>1. LocalTypeOK
  <2>1. sent = 0 /\ upsets = 0 /\ bridge = 0 /\ entity = 1
    BY DEF Init
  <2>2. /\ started \in BOOLEAN /\ connected \in BOOLEAN
        /\ discovery_pending \in BOOLEAN /\ state_pending \in BOOLEAN
        /\ due \in BOOLEAN /\ wire \in BOOLEAN
        /\ worker = "idle" /\ handler = "idle"
    BY DEF Init
  <2>3. 0 \in State
    BY DEF State
  <2> QED
    BY <2>1, <2>2, <2>3, Sizes, Zenon DEF LocalTypeOK
<1>2. OutboxTypeOK
  BY Sizes DEF Init, OutboxTypeOK, Watched
<1>3. broker \in Retained
  BY Sizes DEF Init, EmptyBroker, Retained
<1>4. CommandTypeOK
  BY <1>3 DEF Init, CommandTypeOK
<1> QED
  BY <1>1, <1>2, <1>4, TypeParts

-----------------------------------------------------------------------------
(* Types *)

\* A step of the worker keeps the types.
LEMMA WorkerType == MqttTypeOK /\ Worker => MqttTypeOK'
<1> SUFFICES ASSUME LocalTypeOK, OutboxTypeOK, CommandTypeOK, Worker
             PROVE  LocalTypeOK' /\ OutboxTypeOK' /\ CommandTypeOK'
  BY TypeParts DEF MqttTypeOK, LocalTypeOK, OutboxTypeOK, CommandTypeOK
<1>1. CommandTypeOK'
  BY DEF Worker, StartClient, TakeDiscovery, Announce, PublishControl, PublishState,
         ClearStatePending, NothingToReport, CommandTypeOK, link, network, flags, place
<1>2. OutboxTypeOK'
  <2>1. CASE UNCHANGED <<outbox, dropped>>
    BY <2>1 DEF OutboxTypeOK
  <2>2. CASE Announce
    BY <2>2, Messages, PublishType DEF Announce, Omit, OutboxTypeOK, Watched
  <2>3. CASE PublishControl
    BY <2>3, Messages, PublishType DEF PublishControl
  <2>4. CASE PublishState
    BY <2>4, Messages, PublishType DEF PublishState
  <2> QED
    BY <2>1, <2>2, <2>3, <2>4 DEF Worker, StartClient, TakeDiscovery,
       ClearStatePending, NothingToReport, network
<1>3. LocalTypeOK'
  <2>1. CASE StartClient
    BY <2>1 DEF StartClient, LocalTypeOK, place, network
  <2>2. CASE TakeDiscovery
    BY <2>2, Sizes DEF TakeDiscovery, LocalTypeOK, network
  <2>3. CASE Announce
    <3>1. entity' \in Entity
      <4>1. ~LastEntity => entity + 1 \in Entity
        BY Sizes DEF LastEntity, LocalTypeOK, Entity
      <4> QED
        BY <2>3, <4>1, Sizes DEF Announce
    <3>2. worker' \in {"announce", "report"}
      BY <2>3 DEF Announce
    <3> QED
      BY <2>3, <3>1, <3>2 DEF Announce, LocalTypeOK, flags, link
  <2>4. CASE PublishControl
    BY <2>4 DEF PublishControl, LocalTypeOK, link
  <2>5. CASE PublishState
    BY <2>5 DEF PublishState, LocalTypeOK, flags, link
  <2>6. CASE ClearStatePending
    BY <2>6 DEF ClearStatePending, LocalTypeOK, network
  <2>7. CASE NothingToReport
    BY <2>7 DEF NothingToReport, LocalTypeOK, flags, network
  <2> QED
    BY <2>1, <2>2, <2>3, <2>4, <2>5, <2>6, <2>7 DEF Worker
<1> QED
  BY <1>1, <1>2, <1>3

\* So does a step of the event handler.
LEMMA HandlerType == MqttTypeOK /\ Handler => MqttTypeOK'
<1> SUFFICES ASSUME LocalTypeOK, OutboxTypeOK, CommandTypeOK, Handler
             PROVE  LocalTypeOK' /\ OutboxTypeOK' /\ CommandTypeOK'
  BY TypeParts DEF MqttTypeOK, LocalTypeOK, OutboxTypeOK, CommandTypeOK
<1>1. CASE OnConnected
  <2>1. OutboxTypeOK'
    BY <1>1, Messages, PublishType DEF OnConnected
  <2>2. CommandTypeOK'
    BY <1>1 DEF OnConnected, CommandTypeOK, link
  <2>3. LocalTypeOK'
    BY <1>1 DEF OnConnected, LocalTypeOK, link, place
  <2> QED
    BY <2>1, <2>2, <2>3
<1>2. CASE OnSubscribed
  <2>1. OutboxTypeOK'
    BY <1>2 DEF OnSubscribed, OutboxTypeOK
  <2>2. incoming' \in Seq(Command)
    <3>1. CASE wire /\ broker.command # 0
      <4> DEFINE kept == [id |-> broker.command, retain |-> TRUE]
      <4>1. kept \in Command
        BY <3>1, Sizes DEF CommandTypeOK, Retained, Command
      <4>2. incoming' = Append(incoming, kept)
        BY <1>2, <3>1 DEF OnSubscribed
      <4> HIDE DEF kept
      <4> QED
        BY <4>1, <4>2, AppendProperties DEF CommandTypeOK
    <3>2. CASE ~(wire /\ broker.command # 0)
      BY <1>2, <3>2 DEF OnSubscribed, CommandTypeOK
    <3> QED
      BY <3>1, <3>2
  <2>3. CommandTypeOK'
    BY <1>2, <2>2 DEF OnSubscribed, CommandTypeOK
  <2>4. LocalTypeOK'
    BY <1>2 DEF OnSubscribed, LocalTypeOK, place
  <2> QED
    BY <2>1, <2>3, <2>4
<1>3. CASE OnDisconnected
  BY <1>3 DEF OnDisconnected, LocalTypeOK, OutboxTypeOK, CommandTypeOK, network, place
<1>4. CASE OnBirth
  <2>1. upsets' \in 0..MaxUpsets
    BY <1>4, Sizes DEF OnBirth, LocalTypeOK
  <2> QED
    BY <1>4, <2>1 DEF OnBirth, LocalTypeOK, OutboxTypeOK, CommandTypeOK, place
<1>5. CASE OnCommand
  <2>1. OutboxTypeOK'
    BY <1>5 DEF OnCommand, OutboxTypeOK
  <2>2. incoming' \in Seq(Command) /\ Head(incoming) \in Command
    BY <1>5, HeadTailProperties DEF OnCommand, CommandTypeOK
  <2>3. applied' \in [1..MaxCommands -> Nat]
    BY <1>5 DEF OnCommand, CommandTypeOK
  <2>4. broker' = broker /\ bridge' \in State /\ state_pending' \in BOOLEAN
    <3>1. broker' = broker
      BY <1>5 DEF OnCommand
    <3>2. bridge' = bridge \/ bridge' = 1 - bridge
      BY <1>5 DEF OnCommand
    <3>3. bridge' \in State
      BY <3>2 DEF LocalTypeOK, State
    <3>4. state_pending' = TRUE \/ state_pending' = state_pending
      BY <1>5 DEF OnCommand
    <3> QED
      BY <3>1, <3>3, <3>4 DEF LocalTypeOK
  <2>5. CommandTypeOK'
    BY <2>2, <2>3, <2>4 DEF CommandTypeOK
  <2>6. LocalTypeOK'
    BY <1>5, <2>4 DEF OnCommand, LocalTypeOK, place
  <2> QED
    BY <2>1, <2>5, <2>6
<1> QED
  BY <1>1, <1>2, <1>3, <1>4, <1>5 DEF Handler

\* So does what the network, the broker, the bridge and the clients do.
LEMMA EnvironmentType == MqttTypeOK /\ Environment => MqttTypeOK'
<1> SUFFICES ASSUME LocalTypeOK, OutboxTypeOK, CommandTypeOK, Environment
             PROVE  LocalTypeOK' /\ OutboxTypeOK' /\ CommandTypeOK'
  BY TypeParts DEF MqttTypeOK, LocalTypeOK, OutboxTypeOK, CommandTypeOK
<1>1. CASE BridgeChanges
  BY <1>1 DEF BridgeChanges, LocalTypeOK, OutboxTypeOK, CommandTypeOK, State,
              flags, place, network
<1>2. CASE PeriodPasses
  BY <1>2 DEF PeriodPasses, LocalTypeOK, OutboxTypeOK, CommandTypeOK, place, network
<1>3. CASE Connect
  BY <1>3 DEF Connect, LocalTypeOK, OutboxTypeOK, CommandTypeOK, flags, place
<1>4. CASE ConnectionLost
  <2>1. broker' \in Retained
    <3>1. EmptyBroker \in Retained
      BY Sizes DEF EmptyBroker, Retained
    <3>2. [broker EXCEPT !.online = FALSE] \in Retained
      BY DEF CommandTypeOK, Retained
    <3> QED
      BY <1>4, <3>1, <3>2 DEF ConnectionLost
  <2>2. upsets' \in 0..MaxUpsets
    BY <1>4, Sizes DEF ConnectionLost, LocalTypeOK
  <2>3. incoming' \in Seq(Command)
    BY <1>4 DEF ConnectionLost
  <2>4. LocalTypeOK'
    BY <1>4, <2>2 DEF ConnectionLost, LocalTypeOK, flags, place
  <2> QED
    BY <1>4, <2>1, <2>3, <2>4 DEF ConnectionLost, OutboxTypeOK, CommandTypeOK
<1>5. ASSUME NEW i \in 1..Len(outbox), Deliver(i)
      PROVE  LocalTypeOK' /\ OutboxTypeOK' /\ CommandTypeOK'
  <2>1. outbox[i] \in Message
    BY ElementOfSeq DEF OutboxTypeOK
  <2>2. broker' = Retains(outbox[i])
    BY <1>5 DEF Deliver
  <2>3. broker' \in Retained
    <3> DEFINE m == outbox[i]
    <3>1. CASE m.topic = "availability"
      BY <2>2, <3>1 DEF Retains, CommandTypeOK, Retained
    <3>2. CASE m.topic = "state"
      <4>1. m.value \in State
        BY <2>1, <3>2 DEF Message
      <4> QED
        BY <2>2, <3>2, <4>1 DEF Retains, CommandTypeOK, Retained
    <3>3. CASE m.topic = "entity"
      <4>1. m.value \in Entity
        BY <2>1, <3>3 DEF Message
      <4> QED
        BY <2>2, <3>3, <4>1 DEF Retains, CommandTypeOK, Retained
    <3>4. CASE m.topic = "control"
      BY <2>2, <3>4 DEF Retains, CommandTypeOK
    <3> QED
      BY <2>1, <3>1, <3>2, <3>3, <3>4 DEF Message
  <2>4. outbox' \in Seq(Message) /\ Len(outbox') = Len(outbox) - 1
    BY <1>5, RemoveAtType DEF Deliver, OutboxTypeOK
  <2>5. Len(outbox) \in Nat
    BY LenProperties DEF OutboxTypeOK
  <2>6. Len(outbox') <= OutboxLimit
    BY <2>4, <2>5, Sizes DEF OutboxTypeOK
  <2>7. OutboxTypeOK'
    BY <1>5, <2>4, <2>6 DEF Deliver, OutboxTypeOK
  <2>8. CommandTypeOK'
    BY <1>5, <2>3 DEF Deliver, CommandTypeOK
  <2>9. LocalTypeOK'
    BY <1>5 DEF Deliver, LocalTypeOK, flags, place
  <2> QED
    BY <2>7, <2>8, <2>9
<1>6. ASSUME NEW retain \in BOOLEAN, SendCommand(retain)
      PROVE  LocalTypeOK' /\ OutboxTypeOK' /\ CommandTypeOK'
  <2> DEFINE command == [id |-> sent + 1, retain |-> FALSE]
  <2>1. sent + 1 \in 1..MaxCommands
    BY <1>6, Sizes DEF SendCommand, LocalTypeOK
  <2>2. command \in Command
    BY <2>1 DEF Command
  <2>3. incoming' \in Seq(Command)
    <3>1. incoming' = incoming \/ incoming' = Append(incoming, command)
      BY <1>6 DEF SendCommand
    <3> HIDE DEF command
    <3> QED
      BY <2>2, <3>1, AppendProperties DEF CommandTypeOK
  <2>4. broker' \in Retained
    <3>1. sent + 1 \in 0..MaxCommands
      BY <2>1
    <3> QED
      BY <1>6, <3>1 DEF SendCommand, CommandTypeOK, Retained
  <2>5. sent' \in 0..MaxCommands
    BY <1>6, <2>1 DEF SendCommand
  <2>6. CommandTypeOK'
    BY <1>6, <2>3, <2>4 DEF SendCommand, CommandTypeOK
  <2>7. LocalTypeOK'
    BY <1>6, <2>5 DEF SendCommand, LocalTypeOK, flags, place
  <2> QED
    BY <1>6, <2>6, <2>7 DEF SendCommand, OutboxTypeOK
<1> QED
  BY <1>1, <1>2, <1>3, <1>4, <1>5, <1>6 DEF Environment

\* Every step keeps the types.
LEMMA MqttTypeStep == MqttTypeOK /\ [Next]_vars => MqttTypeOK'
<1>1. MqttTypeOK /\ UNCHANGED vars => MqttTypeOK'
  BY DEF MqttTypeOK, vars, flags, place, network
<1> QED
  BY <1>1, WorkerType, HandlerType, EnvironmentType DEF Next

\* Every variable keeps its type, whatever the network and the broker do
\* (mqtt_service.c).
THEOREM MqttTypeCorrect == Spec => []MqttTypeOK
  BY MqttTypeInit, MqttTypeStep, PTL DEF Spec

-----------------------------------------------------------------------------
(* No command is acted on twice *)

\* A command on its way for the first time: its sender's, not the broker's copy.
Fresh(i) == i \in 1..Len(incoming) /\ ~incoming[i].retain

AppliedInv ==
    /\ MqttTypeOK
    /\ \A c \in 1..MaxCommands : applied[c] <= 1
    /\ \A c \in 1..MaxCommands : c > sent => applied[c] = 0
    /\ \A i \in 1..Len(incoming) :
            Fresh(i) => incoming[i].id <= sent /\ applied[incoming[i].id] = 0
    /\ \A i, j \in 1..Len(incoming) :
            Fresh(i) /\ Fresh(j) /\ i # j => incoming[i].id # incoming[j].id

\* Nothing has been sent at the start.
LEMMA AppliedInit == Init => AppliedInv
<1> SUFFICES ASSUME Init PROVE AppliedInv
  OBVIOUS
<1>1. incoming = <<>> /\ applied = [c \in 1..MaxCommands |-> 0]
  BY DEF Init
<1>2. Len(incoming) = 0
  BY <1>1
<1> QED
  BY <1>1, <1>2, MqttTypeInit DEF AppliedInv

\* What is on its way bears the number of a command.
LEMMA IncomingIds ==
    ASSUME incoming \in Seq(Command)
    PROVE  \A i \in 1..Len(incoming) : incoming[i].id \in 1..MaxCommands
<1> SUFFICES ASSUME NEW i \in 1..Len(incoming) PROVE incoming[i].id \in 1..MaxCommands
  OBVIOUS
<1>1. incoming[i] \in Command
  BY ElementOfSeq
<1> QED
  BY <1>1 DEF Command

\* The next command is sent: it is the only one with its number, and arrives
\* behind the others or not at all.
LEMMA SendKeepsInv ==
    ASSUME AppliedInv, NEW retain \in BOOLEAN, SendCommand(retain), MqttTypeOK'
    PROVE  AppliedInv'
<1> DEFINE command == [id |-> sent + 1, retain |-> FALSE]
<1>1. /\ applied' = applied /\ sent' = sent + 1 /\ sent \in Nat
      /\ sent + 1 \in 1..MaxCommands
  BY Sizes DEF SendCommand, AppliedInv, MqttTypeOK
<1>2. command \in Command /\ command.id = sent + 1
  BY <1>1 DEF Command
<1>3. incoming' = incoming \/ incoming' = Append(incoming, command)
  BY DEF SendCommand
<1>4. incoming \in Seq(Command) /\ Len(incoming) \in Nat
  BY LenProperties DEF AppliedInv, MqttTypeOK
<1>5. \A i \in 1..Len(incoming) : incoming[i].id \in Nat
  BY <1>4, IncomingIds, Sizes
<1>6. \A c \in 1..MaxCommands : c > sent' => applied'[c] = 0
  BY <1>1 DEF AppliedInv
<1> HIDE DEF command
<1>7. CASE incoming' = incoming
  BY <1>1, <1>4, <1>5, <1>6, <1>7 DEF AppliedInv, Fresh
<1>8. CASE incoming' = Append(incoming, command)
  <2>1. /\ Len(incoming') = Len(incoming) + 1
        /\ \A i \in 1..Len(incoming) : incoming'[i] = incoming[i]
        /\ incoming'[Len(incoming) + 1] = command
    BY <1>2, <1>4, <1>8, AppendProperties
  <2>2. \A i \in 1..Len(incoming') : i \in 1..Len(incoming) \/ i = Len(incoming) + 1
    BY <1>4, <2>1
  <2>3. \A i \in 1..Len(incoming') :
            Fresh(i)' => incoming'[i].id <= sent' /\ applied'[incoming'[i].id] = 0
    BY <1>1, <1>2, <1>5, <2>1, <2>2 DEF AppliedInv, Fresh
  <2>4. \A i, j \in 1..Len(incoming') :
            Fresh(i)' /\ Fresh(j)' /\ i # j => incoming'[i].id # incoming'[j].id
    BY <1>1, <1>2, <1>5, <2>1, <2>2 DEF AppliedInv, Fresh
  <2> QED
    BY <1>1, <1>6, <2>3, <2>4 DEF AppliedInv
<1> QED
  BY <1>3, <1>7, <1>8

\* A command is handled: only a fresh one is acted on, and it was the only one.
LEMMA HandleKeepsInv ==
    ASSUME AppliedInv, OnCommand, MqttTypeOK'
    PROVE  AppliedInv'
<1> DEFINE command == Head(incoming)
<1>1. /\ incoming \in Seq(Command) /\ incoming # <<>> /\ incoming' = Tail(incoming)
      /\ sent' = sent /\ sent \in Nat /\ applied \in [1..MaxCommands -> Nat]
  BY Sizes DEF OnCommand, AppliedInv, MqttTypeOK
<1>2. /\ command = incoming[1] /\ command \in Command
      /\ Len(incoming) \in Nat \ {0} /\ Len(incoming') = Len(incoming) - 1
      /\ \A i \in 1..Len(incoming') : incoming'[i] = incoming[i + 1]
  BY <1>1, HeadTailProperties, LenProperties
<1>3. /\ 1 \in 1..Len(incoming)
      /\ \A i \in 1..Len(incoming') : i + 1 \in 1..Len(incoming) /\ i + 1 # 1
  BY <1>2
<1>4. \A i \in 1..Len(incoming) : incoming[i].id \in 1..MaxCommands
  BY <1>1, IncomingIds
<1> HIDE DEF command
<1>5. CASE applied' = applied
  <2>1. \A i, j \in 1..Len(incoming') : i # j => i + 1 # j + 1
    BY <1>2
  <2>2. \A i \in 1..Len(incoming') : Fresh(i)' => Fresh(i + 1)
    BY <1>2, <1>3 DEF Fresh
  <2> QED
    BY <1>1, <1>2, <1>3, <1>5, <2>1, <2>2 DEF AppliedInv
<1>6. CASE ActsOn(command) /\ applied' = [applied EXCEPT ![command.id] = @ + 1]
  <2>1. Fresh(1) /\ command.id \in 1..MaxCommands
    BY <1>2, <1>3, <1>4, <1>6 DEF ActsOn, Fresh
  <2>2. command.id <= sent /\ applied[command.id] = 0
    BY <1>2, <1>3, <2>1 DEF AppliedInv
  <2>3. \A c \in 1..MaxCommands : applied'[c] = IF c = command.id THEN 1 ELSE applied[c]
    BY <1>1, <1>6, <2>1, <2>2
  <2>4. \A i \in 1..Len(incoming') : Fresh(i)' => Fresh(i + 1)
    BY <1>2, <1>3 DEF Fresh
  <2>5. \A i \in 1..Len(incoming') :
            Fresh(i)' => /\ incoming'[i].id <= sent
                         /\ incoming'[i].id # command.id
                         /\ applied[incoming'[i].id] = 0
    BY <1>2, <1>3, <2>1, <2>4 DEF AppliedInv
  <2>6. \A i \in 1..Len(incoming') : incoming'[i].id \in 1..MaxCommands
    BY <1>2, <1>3, <1>4
  <2>7. \A i, j \in 1..Len(incoming') : i # j => i + 1 # j + 1
    BY <1>2
  <2>8. \A i, j \in 1..Len(incoming') :
            Fresh(i)' /\ Fresh(j)' /\ i # j => incoming'[i].id # incoming'[j].id
    BY <1>2, <1>3, <2>4, <2>7 DEF AppliedInv
  <2>9. \A c \in 1..MaxCommands : c > sent' => applied'[c] = 0
    BY <1>1, <2>2, <2>3 DEF AppliedInv
  <2>10. \A c \in 1..MaxCommands : applied'[c] <= 1
    BY <2>3 DEF AppliedInv
  <2> QED
    BY <1>1, <2>3, <2>5, <2>6, <2>8, <2>9, <2>10 DEF AppliedInv
<1> QED
  BY <1>5, <1>6 DEF OnCommand, command

\* A subscription brings the broker's copy, which is not fresh.
LEMMA SubscribeKeepsInv ==
    ASSUME AppliedInv, OnSubscribed, MqttTypeOK'
    PROVE  AppliedInv'
<1> DEFINE kept == [id |-> broker.command, retain |-> TRUE]
<1>1. sent' = sent /\ applied' = applied
  BY DEF OnSubscribed
<1>2. incoming \in Seq(Command) /\ Len(incoming) \in Nat
  BY LenProperties DEF AppliedInv, MqttTypeOK
<1>3. CASE incoming' = incoming
  BY <1>1, <1>3 DEF AppliedInv, Fresh
<1>4. CASE wire /\ broker.command # 0 /\ incoming' = Append(incoming, kept)
  <2>1. kept \in Command
    BY <1>4, Sizes DEF AppliedInv, MqttTypeOK, Retained, Command
  <2>2. kept.retain
    OBVIOUS
  <2> HIDE DEF kept
  <2>3. /\ Len(incoming') = Len(incoming) + 1
        /\ \A i \in 1..Len(incoming) : incoming'[i] = incoming[i]
        /\ incoming'[Len(incoming) + 1] = kept
    BY <1>2, <1>4, <2>1, AppendProperties
  <2>4. \A i \in 1..Len(incoming') :
            Fresh(i)' => i \in 1..Len(incoming) /\ Fresh(i) /\ incoming'[i] = incoming[i]
    BY <1>2, <2>2, <2>3 DEF Fresh
  <2> QED
    BY <1>1, <2>4 DEF AppliedInv
<1> QED
  BY <1>3, <1>4 DEF OnSubscribed

\* Every step keeps the invariant.
LEMMA AppliedStep == AppliedInv /\ [Next]_vars => AppliedInv'
<1> SUFFICES ASSUME AppliedInv, [Next]_vars PROVE AppliedInv'
  OBVIOUS
<1>1. MqttTypeOK'
  BY MqttTypeStep DEF AppliedInv
<1>2. CASE UNCHANGED <<applied, incoming, sent>>
  BY <1>1, <1>2 DEF AppliedInv, Fresh
<1>3. CASE ConnectionLost
  <2>1. incoming' = <<>> /\ applied' = applied /\ sent' = sent
    BY <1>3 DEF ConnectionLost
  <2>2. Len(incoming') = 0
    BY <2>1
  <2> QED
    BY <1>1, <2>1, <2>2 DEF AppliedInv
<1>4. CASE OnCommand
  BY <1>1, <1>4, HandleKeepsInv
<1>5. CASE OnSubscribed
  BY <1>1, <1>5, SubscribeKeepsInv
<1>6. ASSUME NEW retain \in BOOLEAN, SendCommand(retain) PROVE AppliedInv'
  BY <1>1, <1>6, SendKeepsInv
<1>7. CASE Worker
  BY <1>2, <1>7 DEF Worker, StartClient, TakeDiscovery, Announce, PublishControl,
     PublishState, ClearStatePending, NothingToReport, link, network
<1>8. CASE Handler
  BY <1>2, <1>4, <1>5, <1>8 DEF Handler, OnConnected, OnDisconnected, OnBirth, link, network
<1>9. CASE Environment
  BY <1>2, <1>3, <1>6, <1>9 DEF Environment, BridgeChanges, PeriodPasses, Connect,
     Deliver, network
<1>10. CASE UNCHANGED vars
  BY <1>2, <1>10 DEF vars, network
<1> QED
  BY <1>7, <1>8, <1>9, <1>10 DEF Next

\* A command is acted on at most once, whatever its sender asked the broker to
\* keep and however often the client subscribes again (mqtt_event_handler).
THEOREM NeverAppliedTwice == Spec => []AppliedOnce
<1>1. AppliedInv => AppliedOnce
  BY DEF AppliedInv, AppliedOnce, MqttTypeOK
<1> QED
  BY <1>1, AppliedInit, AppliedStep, PTL DEF Spec
==============================================================================
