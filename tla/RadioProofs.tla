---------------------------- MODULE RadioProofs ------------------------------
(***************************************************************************)
(* Proofs about Radio, for every set of states and any number of restarts: *)
(* types, what the Wi-Fi status shows, and what the Zigbee service makes   *)
(* of its membership.                                                      *)
(*                                                                         *)
(* The three properties speak of moments at which no event is waiting, or  *)
(* of events that may overtake a change.  WifiInv and ZigbeeInv therefore  *)
(* say what each waiting event will leave behind: the last Wi-Fi event     *)
(* decides what is shown, and a Zigbee signal that reports something       *)
(* outdated has another one behind it.                                     *)
(***************************************************************************)
EXTENDS Radio, SequenceTheorems, TLAPS

\* A queue that loses its head.
LEMMA Popped ==
    ASSUME NEW S, NEW q \in Seq(S), q # <<>>
    PROVE  /\ Head(q) = q[1] /\ Head(q) \in S
           /\ Tail(q) \in Seq(S)
           /\ Len(q) \in Nat \ {0} /\ Len(Tail(q)) = Len(q) - 1
           /\ \A i \in 1..Len(Tail(q)) : Tail(q)[i] = q[i + 1]
  BY HeadTailProperties, LenProperties

\* A queue that is given another event.
LEMMA Pushed ==
    ASSUME NEW S, NEW q \in Seq(S), NEW e \in S
    PROVE  /\ Append(q, e) \in Seq(S)
           /\ Len(q) \in Nat /\ Len(Append(q, e)) = Len(q) + 1
           /\ \A i \in 1..Len(q) : Append(q, e)[i] = q[i]
           /\ Append(q, e)[Len(q) + 1] = e
  BY AppendProperties, LenProperties

-----------------------------------------------------------------------------
(* Wi-Fi *)

\* The event that will be handled last.
Last == wifiEvents[Len(wifiEvents)]

\* What each waiting event will leave behind.
WifiInv ==
    /\ WifiTypeOK
    /\ wifiStart # "started" => wifiEvents = <<>> /\ station = "off" /\ ~connected
    /\ wifiStart = "started" => listening /\ station # "off"
    /\ \A i \in 1..Len(wifiEvents) :
            wifiEvents[i] = "STA_START" => Len(wifiEvents) = 1 /\ station = "idle" /\ ~connected
    /\ wifiEvents = <<>> => /\ station = "online" => connected
                            /\ connected => station \in {"bare", "online"}
    /\ wifiEvents # <<>> => /\ Last = "STA_GOT_IP" => station \in {"bare", "online"}
                            /\ Last = "STA_DISCONNECTED" => station # "online"

\* It holds before wifi_service_start.
LEMMA WifiInvInit == WifiInit => WifiInv
<1> SUFFICES ASSUME WifiInit PROVE WifiInv
  OBVIOUS
<1>1. wifiEvents = <<>> /\ wifiEvents \in Seq(WifiEvent) /\ Len(wifiEvents) = 0
  BY DEF WifiInit
<1>2. /\ wifiStart = "none" /\ station = "off" /\ ~connected
      /\ listening \in BOOLEAN /\ connected \in BOOLEAN
  BY DEF WifiInit
<1>3. WifiTypeOK
  BY <1>1, <1>2 DEF WifiTypeOK, StationStates, MaxWifiEvents
<1>4. \A i \in 1..Len(wifiEvents) : FALSE
  BY <1>1
<1> QED
  BY <1>1, <1>2, <1>3, <1>4, Zenon DEF WifiInv

\* Once no event waits, it is enough that the status is the station's.
LEMMA NothingWaits ==
    ASSUME WifiTypeOK', wifiEvents' = <<>>, Len(wifiEvents') = 0,
           wifiStart' = "started", listening', station' # "off",
           connected' => station' \in {"bare", "online"},
           station' = "online" => connected'
    PROVE  WifiInv'
<1>1. \A i \in 1..Len(wifiEvents') : FALSE
  OBVIOUS
<1> QED
  BY <1>1, Zenon DEF WifiInv

\* The driver reports what it has come to.
LEMMA ReportsKeepsInv ==
    ASSUME WifiInv, station \in {"connecting", "bare", "online"},
           NEW state, NEW event, Reports(state, event),
           \/ state = "online" /\ event = "STA_GOT_IP"
           \/ state = "idle" /\ event = "STA_DISCONNECTED"
    PROVE  WifiInv'
<1>1. /\ wifiEvents \in Seq(WifiEvent) /\ Len(wifiEvents) < 3 /\ event \in WifiEvent
      /\ wifiEvents' = Append(wifiEvents, event) /\ station' = state
      /\ wifiStart' = wifiStart /\ listening' = listening /\ connected' = connected
  BY DEF Reports, WifiInv, WifiTypeOK, WifiEvent, MaxWifiEvents
<1>2. /\ wifiEvents' \in Seq(WifiEvent) /\ wifiEvents' # <<>>
      /\ Len(wifiEvents) \in Nat /\ Len(wifiEvents') = Len(wifiEvents) + 1
      /\ \A i \in 1..Len(wifiEvents) : wifiEvents'[i] = wifiEvents[i]
      /\ wifiEvents'[Len(wifiEvents')] = event
  BY <1>1, Pushed, AppendProperties
<1>3. \A i \in 1..Len(wifiEvents') : wifiEvents'[i] # "STA_START"
  <2> SUFFICES ASSUME NEW i \in 1..Len(wifiEvents') PROVE wifiEvents'[i] # "STA_START"
    OBVIOUS
  <2>1. CASE i \in 1..Len(wifiEvents)
    BY <1>2, <2>1 DEF WifiInv
  <2>2. CASE i = Len(wifiEvents')
    BY <1>2, <2>2
  <2> QED
    BY <1>2, <2>1, <2>2
<1>4. WifiTypeOK'
  BY <1>1, <1>2 DEF WifiInv, WifiTypeOK, StationStates, MaxWifiEvents
<1>5. wifiStart = "started"
  BY DEF WifiInv
<1> QED
  BY <1>1, <1>2, <1>3, <1>4, <1>5 DEF WifiInv, Last

\* The handler takes the oldest event.
LEMMA NetworkEventKeepsInv == WifiInv /\ NetworkEvent => WifiInv'
<1> SUFFICES ASSUME WifiInv, NetworkEvent PROVE WifiInv'
  OBVIOUS
<1>1. /\ wifiEvents \in Seq(WifiEvent) /\ wifiEvents # <<>> /\ wifiEvents' = Tail(wifiEvents)
      /\ wifiStart = "started" /\ listening /\ station # "off"
      /\ wifiStart' = wifiStart /\ listening' = listening
  BY DEF NetworkEvent, WifiInv, WifiTypeOK
<1>2. /\ Head(wifiEvents) = wifiEvents[1] /\ Head(wifiEvents) \in WifiEvent
      /\ wifiEvents' \in Seq(WifiEvent)
      /\ Len(wifiEvents) \in Nat \ {0} /\ Len(wifiEvents') = Len(wifiEvents) - 1
      /\ \A i \in 1..Len(wifiEvents') : wifiEvents'[i] = wifiEvents[i + 1]
  BY <1>1, Popped
<1>3. Handle(Head(wifiEvents))
  BY <1>1 DEF NetworkEvent
<1>4. station' = station \/ (station = "idle" /\ station' \in {"connecting", "refused"})
  BY <1>3 DEF Handle, Connect, Reconnect
<1>5. connected' \in BOOLEAN
  BY <1>3 DEF Handle, StatusAfter
<1>6. WifiTypeOK'
  BY <1>1, <1>2, <1>4, <1>5 DEF WifiInv, WifiTypeOK, StationStates, MaxWifiEvents
<1>7. CASE Len(wifiEvents) = 1
  <2>1. Len(wifiEvents') = 0 /\ wifiEvents' = <<>> /\ Last = Head(wifiEvents)
    BY <1>2, <1>7, EmptySeq DEF Last
  <2>2. CASE Head(wifiEvents) = "STA_START"
    <3>1. station = "idle" /\ connected = FALSE
      BY <1>2, <1>7, <2>2 DEF WifiInv, WifiTypeOK
    <3>2. ~connected' /\ station' # "online"
      BY <1>3, <1>4, <2>2, <3>1 DEF Handle, StatusAfter
    <3> QED
      BY <1>1, <1>4, <1>6, <2>1, <3>2, NothingWaits
  <2>3. CASE Head(wifiEvents) = "STA_GOT_IP"
    <3>1. connected' /\ station \in {"bare", "online"}
      BY <1>1, <1>3, <2>1, <2>3 DEF Handle, StatusAfter, WifiInv
    <3> QED
      BY <1>1, <1>4, <1>6, <2>1, <3>1, NothingWaits
  <2>4. CASE Head(wifiEvents) = "STA_DISCONNECTED"
    <3>1. ~connected' /\ station # "online"
      BY <1>1, <1>3, <2>1, <2>4 DEF Handle, StatusAfter, WifiInv
    <3> QED
      BY <1>1, <1>4, <1>6, <2>1, <3>1, NothingWaits
  <2> QED
    BY <1>2, <2>2, <2>3, <2>4 DEF WifiEvent
<1>8. CASE Len(wifiEvents) > 1
  <2>1. /\ wifiEvents' # <<>> /\ Last' = Last
    BY <1>2, <1>8, EmptySeq DEF Last
  <2>2. \A i \in 1..Len(wifiEvents') : wifiEvents'[i] # "STA_START"
    BY <1>2, <1>8 DEF WifiInv
  <2> QED
    BY <1>1, <1>4, <1>6, <2>1, <2>2 DEF WifiInv
<1> QED
  BY <1>2, <1>7, <1>8

\* Every step of the service, the driver and the access point keeps it.
LEMMA WifiInvStep == WifiInv /\ WifiNext => WifiInv'
<1> SUFFICES ASSUME WifiInv, WifiNext PROVE WifiInv'
  OBVIOUS
<1>1. CASE WifiInitialise \/ RegisterHandler
  <2>1. /\ wifiEvents' = wifiEvents /\ connected' = connected /\ station' = station
        /\ wifiStart # "started" => wifiStart' # "started" /\ wifiStart' \in {"none", "init"}
        /\ wifiStart = "started" => wifiStart' = "started" /\ listening'
        /\ listening' \in BOOLEAN
    BY <1>1 DEF WifiInitialise, RegisterHandler, WifiInv, WifiTypeOK
  <2>2. WifiTypeOK'
    BY <2>1 DEF WifiInv, WifiTypeOK
  <2> QED
    BY <2>1, <2>2 DEF WifiInv, Last
<1>2. CASE StartDriver
  <2>1. /\ wifiEvents = <<>> /\ connected = FALSE /\ listening
        /\ wifiEvents' = Append(<<>>, "STA_START")
        /\ wifiStart' = "started" /\ station' = "idle"
        /\ connected' = connected /\ listening' = listening
    BY <1>2 DEF StartDriver, ReadyToStart, WifiInv, WifiTypeOK
  <2>2. /\ wifiEvents' \in Seq(WifiEvent) /\ Len(wifiEvents') = 1
        /\ wifiEvents' # <<>> /\ wifiEvents'[1] = "STA_START"
    BY <2>1 DEF WifiEvent
  <2> QED
    BY <2>1, <2>2 DEF WifiInv, WifiTypeOK, StationStates, MaxWifiEvents, Last
<1>3. CASE NetworkEvent
  BY <1>3, NetworkEventKeepsInv
<1>4. CASE Associate \/ LoseAddress
  <2>1. /\ station \in {"connecting", "online"} /\ station' = "bare"
        /\ wifiStart' = wifiStart /\ listening' = listening
        /\ wifiEvents' = wifiEvents /\ connected' = connected
        /\ station = "connecting" \/ station = "online"
    BY <1>4 DEF Associate, LoseAddress
  <2>2. WifiTypeOK'
    BY <2>1 DEF WifiInv, WifiTypeOK, StationStates
  <2> QED
    BY <2>1, <2>2 DEF WifiInv, Last
<1>5. CASE ObtainAddress
  BY <1>5, ReportsKeepsInv DEF ObtainAddress
<1>6. CASE Disconnect
  BY <1>6, ReportsKeepsInv DEF Disconnect
<1> QED
  BY <1>1, <1>2, <1>3, <1>4, <1>5, <1>6 DEF WifiNext

-----------------------------------------------------------------------------
(* Zigbee *)

\* The signals that matter.
LeaveSent     == <<"LEAVE", TRUE>>
SteeringDone  == <<"STEERING", TRUE>>
StartFailed   == <<"START", FALSE>>

\* The device has been told, or will be.
ToldToLeave == \E i \in 1..Len(signals) : signals[i] = LeaveSent

\* Something waits that puts the stack to work, or ends its work.
Driven == \E i \in 1..Len(signals) : signals[i] # StartFailed

\* Every signal of the two kinds that may be outdated has another behind it.
SignalsOrdered ==
    \A i \in 1..Len(signals) :
        /\ signals[i] = SteeringDone =>
                member \/ \E j \in 1..Len(signals) : j > i /\ signals[j] = LeaveSent
        /\ signals[i] = StartFailed =>
                stack # "idle" \/ \E j \in 1..Len(signals) : j > i /\ signals[j] # StartFailed

\* What each waiting signal will leave behind.
ZigbeeInv ==
    /\ ZigbeeTypeOK
    /\ zigbeeTask # "running" => signals = <<>>
    /\ zigbeeTask \in {"none", "starting"} => ~joined
    /\ SignalsOrdered
    /\ IsJoined => member \/ ToldToLeave
    /\ Started /\ ~joined => stack # "idle" \/ Driven

\* It holds before zigbee_service_start.
LEMMA ZigbeeInvInit == ZigbeeInit => ZigbeeInv
<1> SUFFICES ASSUME ZigbeeInit PROVE ZigbeeInv
  OBVIOUS
<1>1. signals = <<>> /\ signals \in Seq(Signal) /\ Len(signals) = 0
  BY DEF ZigbeeInit
<1>2. zigbeeTask = "none" /\ ~joined /\ joined \in BOOLEAN /\ stack = "off"
  BY DEF ZigbeeInit
<1>3. member \in BOOLEAN /\ acState \in AcStates /\ shown = {}
  BY DEF ZigbeeInit
<1>4. ZigbeeTypeOK
  BY <1>1, <1>2, <1>3 DEF ZigbeeTypeOK, StackStates, MaxSignals
<1>5. \A i \in 1..Len(signals) : FALSE
  BY <1>1
<1> QED
  BY <1>1, <1>2, <1>4, <1>5, Zenon DEF ZigbeeInv, SignalsOrdered, Started, IsJoined

\* The stack signals what it has come to, or that the device was removed.
LEMMA SignalsKeepsInv ==
    ASSUME ZigbeeInv, NEW type, NEW success, Signals(type, success),
           <<type, success>> \in Signal, stack' \in StackStates, member' \in BOOLEAN,
           \/ <<type, success>> = LeaveSent /\ stack' = stack
           \/ <<type, success>> = StartFailed /\ stack' = "lost" /\ member' = member
           \/ <<type, success>> = SteeringDone /\ member'
           \/ <<type, success>> \notin {LeaveSent, StartFailed, SteeringDone} /\ member' = member
    PROVE  ZigbeeInv'
<1> DEFINE e == <<type, success>>
<1>1. /\ signals \in Seq(Signal) /\ Len(signals) < 2 /\ signals' = Append(signals, e)
      /\ zigbeeTask' = zigbeeTask /\ zigbeeTask = "running"
      /\ joined' = joined /\ acState' = acState /\ shown' = shown
  BY DEF Signals, Started, attributeVars, ZigbeeInv, ZigbeeTypeOK, MaxSignals
<1>2. e \in Signal
  OBVIOUS
<1>3. \/ e = LeaveSent /\ stack' = stack
      \/ e = StartFailed /\ stack' = "lost" /\ member' = member
      \/ e = SteeringDone /\ member'
      \/ e \notin {LeaveSent, StartFailed, SteeringDone} /\ member' = member
  OBVIOUS
<1>4. LeaveSent # StartFailed /\ SteeringDone # StartFailed /\ LeaveSent # SteeringDone
  BY DEF LeaveSent, StartFailed, SteeringDone
<1> HIDE DEF e
<1>5. /\ signals' \in Seq(Signal) /\ Len(signals) \in Nat /\ Len(signals') = Len(signals) + 1
      /\ \A i \in 1..Len(signals) : signals'[i] = signals[i]
      /\ signals'[Len(signals')] = e
  BY <1>1, <1>2, Pushed
<1>6. /\ Len(signals') \in 1..Len(signals')
      /\ \A i \in 1..Len(signals') :
            \/ i \in 1..Len(signals) /\ i < Len(signals')
            \/ i = Len(signals') /\ signals'[i] = e
  BY <1>5
<1>7. ZigbeeTypeOK'
  BY <1>1, <1>5 DEF ZigbeeInv, ZigbeeTypeOK, MaxSignals
<1>8. SignalsOrdered'
  <2> SUFFICES ASSUME NEW i \in 1..Len(signals')
               PROVE  /\ signals'[i] = SteeringDone =>
                            member' \/ \E j \in 1..Len(signals') : j > i /\ signals'[j] = LeaveSent
                      /\ signals'[i] = StartFailed =>
                            stack' # "idle" \/ \E j \in 1..Len(signals') :
                                                    j > i /\ signals'[j] # StartFailed
    BY DEF SignalsOrdered
  <2>1. CASE i = Len(signals') /\ signals'[i] = e
    BY <1>3, <1>4, <2>1
  <2>2. CASE i \in 1..Len(signals) /\ i < Len(signals')
    <3>1. CASE e = LeaveSent
      BY <1>4, <1>5, <1>6, <2>2, <3>1
    <3>2. CASE e # LeaveSent
      <4>1. signals'[i] = signals[i]
        BY <1>5, <2>2
      <4>2. \A j \in 1..Len(signals) : j \in 1..Len(signals') /\ signals'[j] = signals[j]
        BY <1>5
      <4>3. signals[i] = SteeringDone =>
                member' \/ \E j \in 1..Len(signals') : j > i /\ signals'[j] = LeaveSent
        BY <1>3, <2>2, <3>2, <4>2 DEF ZigbeeInv, SignalsOrdered
      <4>4. e = StartFailed => stack' # "idle"
        BY <1>3, <1>4, <3>2
      <4>5. e # StartFailed => \E j \in 1..Len(signals') : j > i /\ signals'[j] # StartFailed
        BY <1>5, <1>6, <2>2
      <4> QED
        BY <4>1, <4>3, <4>4, <4>5
    <3> QED
      BY <3>1, <3>2
  <2> QED
    BY <1>6, <2>1, <2>2
<1>9. joined' => member' \/ ToldToLeave'
  <2>1. ToldToLeave => ToldToLeave'
    BY <1>5 DEF ToldToLeave
  <2>2. e = LeaveSent => ToldToLeave'
    BY <1>5, <1>6 DEF ToldToLeave
  <2> QED
    BY <1>1, <1>3, <2>1, <2>2 DEF ZigbeeInv, IsJoined, Started
<1>10. stack' # "idle" \/ Driven'
  BY <1>3, <1>4, <1>5, <1>6 DEF Driven
<1> QED
  BY <1>1, <1>7, <1>8, <1>9, <1>10 DEF ZigbeeInv, Started, IsJoined

\* The handler takes the oldest signal.
LEMMA SignalHandlerKeepsInv == ZigbeeInv /\ SignalHandler => ZigbeeInv'
<1> SUFFICES ASSUME ZigbeeInv, SignalHandler PROVE ZigbeeInv'
  OBVIOUS
<1> DEFINE e == Head(signals)
<1>1. /\ signals \in Seq(Signal) /\ signals # <<>> /\ signals' = Tail(signals)
      /\ zigbeeTask' = zigbeeTask /\ zigbeeTask = "running"
      /\ member' = member /\ acState' = acState
  BY DEF SignalHandler, Started, ZigbeeInv, ZigbeeTypeOK
<1>2. /\ e = signals[1] /\ e \in Signal /\ signals' \in Seq(Signal)
      /\ Len(signals) \in Nat \ {0} /\ Len(signals') = Len(signals) - 1
      /\ \A i \in 1..Len(signals') : signals'[i] = signals[i + 1]
  BY <1>1, Popped
<1>3. \/ e[1] = "SKIP_STARTUP" /\ SkipStartup
      \/ e[1] = "START" /\ StartSignal(e[2])
      \/ e[1] = "STEERING" /\ SteeringSignal(e[2])
      \/ e[1] = "LEAVE" /\ LeaveSignal
  BY DEF SignalHandler
<1>4. e[2] \in BOOLEAN /\ e = <<e[1], e[2]>>
  BY <1>2 DEF Signal
<1> HIDE DEF e
\* What the handler makes of the signal, and of the stack.
<1>5. /\ joined' \in BOOLEAN
      /\ shown' = shown \/ shown' = {acState}
      /\ stack' = stack \/ stack' \in {"initialising", "steering", "lost"}
  BY <1>3, <1>4 DEF SkipStartup, StartSignal, SteeringSignal, LeaveSignal, ShowState,
                    Commission, ZigbeeInv, ZigbeeTypeOK
<1>6. ASSUME joined' PROVE e = SteeringDone \/ (joined /\ e # LeaveSent)
  <2>1. CASE e[1] = "SKIP_STARTUP" /\ SkipStartup
    <3>1. LeaveSent[1] = "LEAVE"
      BY DEF LeaveSent
    <3> QED
      BY <1>6, <2>1, <3>1 DEF SkipStartup
  <2>2. CASE e[1] = "STEERING" /\ SteeringSignal(e[2])
    <3>1. e[2] = TRUE
      BY <1>4, <1>6, <2>2 DEF SteeringSignal
    <3> QED
      BY <1>4, <2>2, <3>1 DEF SteeringDone
  <2>3. CASE StartSignal(e[2]) \/ LeaveSignal
    BY <1>6, <2>3 DEF StartSignal, LeaveSignal
  <2> QED
    BY <1>3, <2>1, <2>2, <2>3
<1>7. ~joined' => stack' # "idle" \/ (stack' = stack /\ e = StartFailed) \/
                                     (stack' = stack /\ e = <<"SKIP_STARTUP", e[2]>>)
  BY <1>3, <1>4 DEF SkipStartup, StartSignal, SteeringSignal, LeaveSignal, Commission, StartFailed
<1>8. e = <<"SKIP_STARTUP", e[2]>> => stack' # "idle"
  BY <1>3 DEF SkipStartup, Commission
<1>9. /\ 1 \in 1..Len(signals)
      /\ \A i \in 1..Len(signals') : i + 1 \in 1..Len(signals)
      /\ \A i \in 1..Len(signals) : i > 1 =>
            i - 1 \in 1..Len(signals') /\ signals'[i - 1] = signals[i]
  BY <1>2
<1>10. ZigbeeTypeOK'
  BY <1>1, <1>2, <1>5 DEF ZigbeeInv, ZigbeeTypeOK, StackStates, MaxSignals
<1>11. SignalsOrdered'
  <2> SUFFICES ASSUME NEW i \in 1..Len(signals')
               PROVE  /\ signals'[i] = SteeringDone =>
                            member' \/ \E j \in 1..Len(signals') : j > i /\ signals'[j] = LeaveSent
                      /\ signals'[i] = StartFailed =>
                            stack' # "idle" \/ \E j \in 1..Len(signals') :
                                                    j > i /\ signals'[j] # StartFailed
    BY DEF SignalsOrdered
  <2>1. i + 1 \in 1..Len(signals) /\ signals'[i] = signals[i + 1]
    BY <1>2, <1>9
  <2>2. ASSUME signals[i + 1] = SteeringDone, ~member
        PROVE  \E j \in 1..Len(signals') : j > i /\ signals'[j] = LeaveSent
    <3>1. PICK k \in 1..Len(signals) : k > i + 1 /\ signals[k] = LeaveSent
      BY <2>1, <2>2 DEF ZigbeeInv, SignalsOrdered
    <3> QED
      BY <1>9, <3>1
  <2>3. ASSUME signals[i + 1] = StartFailed, stack' = "idle"
        PROVE  \E j \in 1..Len(signals') : j > i /\ signals'[j] # StartFailed
    <3>1. stack = "idle"
      BY <1>5, <2>3
    <3>2. PICK k \in 1..Len(signals) : k > i + 1 /\ signals[k] # StartFailed
      BY <2>1, <2>3, <3>1 DEF ZigbeeInv, SignalsOrdered
    <3>3. k - 1 \in 1..Len(signals') /\ k - 1 > i /\ signals'[k - 1] = signals[k]
      BY <1>2, <1>9, <3>2
    <3> QED
      BY <3>2, <3>3
  <2> QED
    BY <1>1, <2>1, <2>2, <2>3
<1>12. ASSUME joined', ~member PROVE ToldToLeave'
  <2>1. PICK k \in 1..Len(signals) : k > 1 /\ signals[k] = LeaveSent
    <3>1. CASE e = SteeringDone
      BY <1>2, <1>9, <1>12, <3>1 DEF ZigbeeInv, SignalsOrdered
    <3>2. CASE joined /\ e # LeaveSent
      <4>1. PICK k \in 1..Len(signals) : signals[k] = LeaveSent
        BY <1>1, <1>12, <3>2 DEF ZigbeeInv, ToldToLeave, IsJoined, Started
      <4>2. k # 1
        BY <1>2, <3>2, <4>1
      <4> QED
        BY <4>1, <4>2
    <3> QED
      BY <1>6, <1>12, <3>1, <3>2
  <2> QED
    BY <1>9, <2>1 DEF ToldToLeave
<1>13. ASSUME ~joined', stack' = "idle" PROVE Driven'
  <2>1. stack = "idle" /\ e = StartFailed
    BY <1>7, <1>8, <1>13
  <2>2. PICK k \in 1..Len(signals) : k > 1 /\ signals[k] # StartFailed
    BY <1>2, <1>9, <2>1 DEF ZigbeeInv, SignalsOrdered
  <2> QED
    BY <1>9, <2>2 DEF Driven
<1> QED
  BY <1>1, <1>10, <1>11, <1>12, <1>13 DEF ZigbeeInv, Started, IsJoined

\* Every step of the service, the stack and the network keeps the invariant.
LEMMA ZigbeeInvStep == ZigbeeInv /\ ZigbeeNext => ZigbeeInv'
<1> SUFFICES ASSUME ZigbeeInv, ZigbeeNext PROVE ZigbeeInv'
  OBVIOUS
<1>1. CASE StartZigbee \/ StorageFails
  <2>1. /\ zigbeeTask \in {"none", "starting"} /\ zigbeeTask' \in {"starting", "ended"}
        /\ signals' = signals /\ joined' = joined /\ stack' = stack /\ member' = member
        /\ acState' = acState /\ shown' = shown
    BY <1>1 DEF StartZigbee, StorageFails, commissioningVars, attributeVars
  <2>2. ZigbeeTypeOK'
    BY <2>1 DEF ZigbeeInv, ZigbeeTypeOK
  <2> QED
    BY <2>1, <2>2 DEF ZigbeeInv, SignalsOrdered, ToldToLeave, Started, IsJoined
<1>2. CASE MainloopStarts
  <2>1. /\ zigbeeTask' = "running" /\ stack' = "idle" /\ joined' = joined /\ ~joined
        /\ member' = member /\ acState' = acState /\ shown' = shown
    BY <1>2 DEF MainloopStarts, attributeVars, ZigbeeInv
  <2>2. /\ signals' \in Seq(Signal) /\ Len(signals') = 1
        /\ signals'[1] = <<"SKIP_STARTUP", TRUE>>
    <3> DEFINE e == <<"SKIP_STARTUP", TRUE>>
    <3>1. e \in Signal
      BY DEF Signal
    <3>2. signals' = <<e>>
      BY <1>2 DEF MainloopStarts
    <3> HIDE DEF e
    <3>3. signals' \in Seq(Signal) /\ Len(signals') = 1 /\ signals'[1] = e
      BY <3>1, <3>2
    <3> QED
      BY <3>3 DEF e
  <2>3. ZigbeeTypeOK'
    BY <2>1, <2>2 DEF ZigbeeInv, ZigbeeTypeOK, StackStates, MaxSignals
  <2>4. \A i \in 1..Len(signals') : signals'[i] \notin {SteeringDone, StartFailed}
    <3>1. <<"SKIP_STARTUP", TRUE>> \notin {SteeringDone, StartFailed}
      BY DEF SteeringDone, StartFailed
    <3>2. \A i \in 1..Len(signals') : i = 1
      BY <2>2
    <3> QED
      BY <2>2, <3>1, <3>2
  <2>5. SignalsOrdered'
    BY <2>4 DEF SignalsOrdered
  <2>6. Driven'
    <3>1. 1 \in 1..Len(signals')
      BY <2>2
    <3> QED
      BY <2>4, <3>1 DEF Driven
  <2> QED
    BY <2>1, <2>3, <2>5, <2>6 DEF ZigbeeInv, IsJoined
<1>3. CASE SignalHandler
  BY <1>3, SignalHandlerKeepsInv
<1>4. CASE Initialised
  <2>1. <<"START", TRUE>> \in Signal /\ <<"START", TRUE>> \notin {LeaveSent, StartFailed, SteeringDone}
    BY DEF Signal, LeaveSent, StartFailed, SteeringDone
  <2> QED
    BY <1>4, <2>1, SignalsKeepsInv DEF Initialised, StackStates, ZigbeeInv, ZigbeeTypeOK
<1>5. CASE InitialisationFails
  <2>1. StartFailed \in Signal
    BY DEF Signal, StartFailed
  <2> QED
    BY <1>5, <2>1, SignalsKeepsInv DEF InitialisationFails, StackStates, StartFailed,
       ZigbeeInv, ZigbeeTypeOK
<1>6. CASE Steered
  <2>1. SteeringDone \in Signal
    BY DEF Signal, SteeringDone
  <2> QED
    BY <1>6, <2>1, SignalsKeepsInv DEF Steered, StackStates, SteeringDone, ZigbeeInv, ZigbeeTypeOK
<1>7. CASE SteeringFails
  <2>1. <<"STEERING", FALSE>> \in Signal /\ <<"STEERING", FALSE>> \notin {LeaveSent, StartFailed, SteeringDone}
    BY DEF Signal, LeaveSent, StartFailed, SteeringDone
  <2> QED
    BY <1>7, <2>1, SignalsKeepsInv DEF SteeringFails, StackStates, ZigbeeInv, ZigbeeTypeOK
<1>8. CASE Leave
  <2>1. LeaveSent \in Signal
    BY DEF Signal, LeaveSent
  <2> QED
    BY <1>8, <2>1, SignalsKeepsInv DEF Leave, StackStates, LeaveSent, ZigbeeInv, ZigbeeTypeOK
<1>9. CASE Report \/ AcStateChanges
  <2>1. /\ zigbeeTask' = zigbeeTask /\ signals' = signals /\ joined' = joined
        /\ stack' = stack /\ member' = member
        /\ acState' \in AcStates
        /\ shown' = shown \/ shown' = {acState}
    BY <1>9 DEF Report, ShowState, AcStateChanges, commissioningVars, ZigbeeInv, ZigbeeTypeOK
  <2>2. ZigbeeTypeOK'
    BY <2>1 DEF ZigbeeInv, ZigbeeTypeOK
  <2> QED
    BY <2>1, <2>2 DEF ZigbeeInv, SignalsOrdered, ToldToLeave, Started, Driven, IsJoined
<1>10. CASE MainloopReturns
  <2>1. /\ zigbeeTask' = "ended" /\ stack' = "off" /\ signals' = <<>> /\ joined' = joined
        /\ member' = member /\ acState' = acState /\ shown' = shown
    BY <1>10 DEF MainloopReturns, attributeVars
  <2>2. signals' \in Seq(Signal) /\ Len(signals') = 0
    BY <2>1
  <2>3. ZigbeeTypeOK'
    BY <2>1, <2>2 DEF ZigbeeInv, ZigbeeTypeOK, StackStates, MaxSignals
  <2>4. \A i \in 1..Len(signals') : FALSE
    BY <2>2
  <2> QED
    BY <2>1, <2>3, <2>4, Zenon DEF ZigbeeInv, SignalsOrdered, Started, IsJoined
<1> QED
  BY <1>1, <1>2, <1>3, <1>4, <1>5, <1>6, <1>7, <1>8, <1>9, <1>10 DEF ZigbeeNext

-----------------------------------------------------------------------------
(* The device *)

\* Both services.
RadioInv == WifiInv /\ ZigbeeInv /\ restarts \in 0..MaxRestarts

\* A service keeps its invariant while the other one works.
LEMMA Untouched ==
    /\ WifiInv /\ UNCHANGED wifiVars => WifiInv'
    /\ ZigbeeInv /\ UNCHANGED zigbeeVars => ZigbeeInv'
<1>1. WifiInv /\ UNCHANGED wifiVars => WifiInv'
  BY DEF WifiInv, WifiTypeOK, wifiVars, Last
<1>2. ZigbeeInv /\ UNCHANGED zigbeeVars => ZigbeeInv'
  BY DEF ZigbeeInv, ZigbeeTypeOK, zigbeeVars, commissioningVars, attributeVars,
         SignalsOrdered, ToldToLeave, Driven, Started, IsJoined
<1> QED
  BY <1>1, <1>2

\* A restart leaves neither service anything to wait for.
LEMMA RestartKeepsInv == RadioInv /\ Restart => RadioInv'
<1> SUFFICES ASSUME RadioInv, Restart PROVE RadioInv'
  OBVIOUS
<1>1. /\ wifiStart' = "none" /\ station' = "off" /\ ~connected' /\ connected' \in BOOLEAN
      /\ listening' \in BOOLEAN /\ wifiEvents' = <<>>
  BY DEF Restart
<1>2. WifiInv'
  <2>1. wifiEvents' \in Seq(WifiEvent) /\ Len(wifiEvents') = 0
    BY <1>1
  <2>2. WifiTypeOK'
    BY <1>1, <2>1 DEF WifiTypeOK, StationStates, MaxWifiEvents
  <2>3. \A i \in 1..Len(wifiEvents') : FALSE
    BY <2>1
  <2> QED
    BY <1>1, <2>2, <2>3, Zenon DEF WifiInv
<1>3. /\ zigbeeTask' = "none" /\ ~joined' /\ joined' \in BOOLEAN /\ stack' = "off"
      /\ signals' = <<>> /\ shown' = {} /\ acState' \in AcStates /\ member' = member
  BY DEF Restart
<1>4. ZigbeeInv'
  <2>1. signals' \in Seq(Signal) /\ Len(signals') = 0
    BY <1>3
  <2>2. member' \in BOOLEAN
    BY <1>3 DEF RadioInv, ZigbeeInv, ZigbeeTypeOK
  <2>3. ZigbeeTypeOK'
    BY <1>3, <2>1, <2>2 DEF ZigbeeTypeOK, StackStates, MaxSignals
  <2>4. \A i \in 1..Len(signals') : FALSE
    BY <2>1
  <2> QED
    BY <1>3, <2>3, <2>4, Zenon DEF ZigbeeInv, SignalsOrdered, Started, IsJoined
<1>5. restarts' \in 0..MaxRestarts
  BY RadioAssumption DEF Restart, RadioInv, RadioAssumption
<1> QED
  BY <1>2, <1>4, <1>5 DEF RadioInv

\* The invariant of both services holds throughout.
THEOREM RadioInvariant == RadioSpec => []RadioInv
<1>1. RadioInit => RadioInv
  BY WifiInvInit, ZigbeeInvInit, RadioAssumption DEF RadioInit, RadioInv, RadioAssumption
<1>2. RadioInv /\ [RadioNext]_radioVars => RadioInv'
  <2> SUFFICES ASSUME RadioInv, [RadioNext]_radioVars PROVE RadioInv'
    OBVIOUS
  <2>1. CASE WifiStep
    BY <2>1, WifiInvStep, Untouched DEF WifiStep, RadioInv
  <2>2. CASE ZigbeeStep
    BY <2>2, ZigbeeInvStep, Untouched DEF ZigbeeStep, RadioInv
  <2>3. CASE Restart
    BY <2>3, RestartKeepsInv
  <2>4. CASE UNCHANGED radioVars
    BY <2>4, Untouched DEF radioVars, RadioInv
  <2> QED
    BY <2>1, <2>2, <2>3, <2>4 DEF RadioNext
<1> QED
  BY <1>1, <1>2, PTL DEF RadioSpec

\* Every variable of both services keeps its type (wifi_service.c,
\* zigbee_service.c).
THEOREM RadioTypeCorrect == RadioSpec => []RadioTypeOK
<1>1. RadioInv => RadioTypeOK
  BY DEF RadioInv, WifiInv, ZigbeeInv, RadioTypeOK
<1> QED
  BY <1>1, RadioInvariant, PTL

\* With no event waiting the status shows the station, but for a lost lease
\* (network_event_handler).
THEOREM StatusAlwaysCurrent == RadioSpec => []StatusIsCurrent
<1>1. RadioInv => StatusIsCurrent
  BY DEF RadioInv, WifiInv, StatusIsCurrent
<1> QED
  BY <1>1, RadioInvariant, PTL

\* A device counts as joined while it is a member, or until it is told
\* otherwise (signal_handler).
THEOREM JoinedAlwaysMember == RadioSpec => []JoinedIsMember
<1>1. RadioInv => JoinedIsMember
  <2>1. ToldToLeave /\ signals \in Seq(Signal) =>
            LeaveSent \in {signals[i] : i \in DOMAIN signals}
    <3> SUFFICES ASSUME ToldToLeave, signals \in Seq(Signal)
                 PROVE  LeaveSent \in {signals[i] : i \in DOMAIN signals}
      OBVIOUS
    <3>1. DOMAIN signals = 1..Len(signals)
      BY LenProperties
    <3>2. PICK i \in 1..Len(signals) : signals[i] = LeaveSent
      BY DEF ToldToLeave
    <3> QED
      BY <3>1, <3>2
  <2> QED
    BY <2>1 DEF RadioInv, ZigbeeInv, ZigbeeTypeOK, JoinedIsMember, LeaveSent
<1> QED
  BY <1>1, RadioInvariant, PTL

\* A running device that is not joined is on its way, unless the stack has
\* refused (commissioning_start, signal_handler).
THEOREM NeverStrands == RadioSpec => []AlwaysCommissioning
<1>1. RadioInv => AlwaysCommissioning
  <2>1. Driven /\ signals \in Seq(Signal) => signals # <<>>
    BY DEF Driven
  <2> QED
    BY <2>1 DEF RadioInv, ZigbeeInv, ZigbeeTypeOK, AlwaysCommissioning
<1> QED
  BY <1>1, RadioInvariant, PTL
==============================================================================
