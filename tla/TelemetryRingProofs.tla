------------------------- MODULE TelemetryRingProofs -------------------------
(***************************************************************************)
(* Proofs about TelemetryRing, for every size of the ring, of a response   *)
(* and of the bounds.                                                      *)
(***************************************************************************)
EXTENDS TelemetryRing, TLAPS

-----------------------------------------------------------------------------
(* Slots *)

\* Division with remainder.
LEMMA Division ==
    ASSUME NEW n \in Nat \ {0}, NEW x \in Nat
    PROVE  /\ x \div n \in Int
           /\ x = n * (x \div n) + (x % n)
           /\ x % n \in 0..(n - 1)
BY SMT

\* Two multiples of n that are less than n apart are one.
LEMMA Multiples ==
    ASSUME NEW n \in Nat \ {0}, NEW p \in Int, NEW q \in Int,
           n * q < n * p + n, n * p <= n * q
    PROVE  p = q
<1>1. q < p + 1  BY SMT
<1>2. p <= q  BY SMT
<1>q. QED BY <1>1, <1>2

\* Two lines less than the size of the ring apart have different slots.
LEMMA SlotsDiffer ==
    ASSUME NEW n \in Nat \ {0}, NEW x \in Nat, NEW y \in Nat,
           x <= y, y < x + n, x % n = y % n
    PROVE  x = y
<1> DEFINE p == x \div n
           q == y \div n
<1>1. /\ p \in Int /\ x = n * p + (x % n) /\ x % n \in 0..(n - 1)
      /\ q \in Int /\ y = n * q + (y % n) /\ y % n \in 0..(n - 1)
  BY Division
<1> HIDE DEF p, q
<1>2. n * p \in Int /\ n * q \in Int
  BY <1>1
<1>3. n * q < n * p + n /\ n * p <= n * q
  BY <1>1, <1>2
<1>4. p = q
  BY <1>1, <1>3, Multiples
<1>q. QED BY <1>1, <1>4

\* Each line has a slot of the ring.
LEMMA SlotType == ASSUME NEW s \in Numbers PROVE RingSlot(s) \in RingSlots
<1>1. s - 1 \in Nat /\ Entries \in Nat \ {0}
  BY TelemetryAssumption DEF Numbers
<1>q. QED BY <1>1, Division DEF RingSlot, RingSlots

-----------------------------------------------------------------------------
(* The inductive invariant *)

\* Where the response ends.
End == IF response = <<>> THEN after ELSE response[Len(response)]

\* The lines of the response follow what the collector has, in order.
Ordered ==
    /\ \A i \in DOMAIN response : after < response[i] /\ response[i] <= latest
    /\ \A i, j \in DOMAIN response : i < j => response[i] < response[j]

\* Up to where the response ends, a line is in it or is jumped over.
Covered ==
    \A s \in Numbers :
        after < s /\ s <= End =>
            \E i \in DOMAIN response :
                s = response[i] \/ (AfterAt(i) < s /\ s < response[i])

\* What the response jumps over has been overwritten.
JumpedIsGone ==
    \A i \in DOMAIN response : \A s \in Numbers :
        AfterAt(i) < s /\ s < response[i] => s < Oldest

ResponseInv ==
    /\ handler = "reading" => cursor = End
    /\ handler # "idle" => Ordered /\ Covered /\ JumpedIsGone

\* The file's account, where it has begun, begins no later than behind what
\* the collector has.
Begun == (first = 0 <=> after = 0) /\ first <= after + 1

TelemetryInv ==
    /\ TelemetryTypeOK
    /\ RingHolds
    /\ MissedIsGone
    /\ Accounted
    /\ ResponseInv
    /\ Begun

LEMMA InvInit == TelemetryInit => TelemetryInv
<1> USE TelemetryAssumption
<1>1. ASSUME TelemetryInit PROVE TelemetryInv
  <2>1. TelemetryTypeOK
    BY <1>1 DEF TelemetryInit, TelemetryTypeOK, RingSlots, Numbers
  <2>2. RingHolds
    BY <1>1 DEF TelemetryInit, RingHolds, Numbers, Oldest
  <2>3. MissedIsGone /\ Accounted /\ Begun
    BY <1>1 DEF TelemetryInit, MissedIsGone, Accounted, Begun
  <2>4. ResponseInv
    BY <1>1 DEF TelemetryInit, ResponseInv
  <2>q. QED BY <2>1, <2>2, <2>3, <2>4 DEF TelemetryInv
<1>q. QED BY <1>1

\* A line is written over the oldest one and over no other that is held.
LEMMA InvPublish == TelemetryInv /\ Publish => TelemetryInv'
<1> SUFFICES ASSUME TelemetryInv, Publish PROVE TelemetryInv'
  OBVIOUS
<1> USE TelemetryAssumption
<1>0. /\ latest \in 0..MaxSequence /\ latest' = latest + 1 /\ latest' \in Numbers
      /\ Entries \in Nat \ {0} /\ MaxSequence \in Nat
  BY DEF TelemetryInv, TelemetryTypeOK, Publish, Numbers
<1>1. /\ handler' = handler /\ cursor' = cursor /\ response' = response
      /\ after' = after /\ recorded' = recorded /\ missed' = missed
      /\ first' = first /\ restarts' = restarts
      /\ ring' = [ring EXCEPT ![RingSlot(latest')] = latest']
  BY DEF Publish, readerVars, fileVars
<1>2. Oldest \in Int /\ Oldest' \in Int /\ Oldest <= Oldest'
  BY <1>0 DEF Oldest
<1>3. TelemetryTypeOK'
  <2>1. latest' \in 0..MaxSequence
    BY <1>0 DEF Numbers
  <2>2. ring \in [RingSlots -> 0..MaxSequence]
    BY DEF TelemetryInv, TelemetryTypeOK
  <2>3. ring' \in [RingSlots -> 0..MaxSequence]
    BY <1>1, <2>1, <2>2
  <2>q. QED BY <1>1, <2>1, <2>3 DEF TelemetryInv, TelemetryTypeOK, Numbers, RingSlots
<1>4. RingHolds'
  <2> SUFFICES ASSUME NEW s \in Numbers, Oldest' <= s, s <= latest'
               PROVE  ring'[RingSlot(s)] = s
    BY DEF RingHolds, RingSlot
  <2>0. s \in Nat /\ s > 0
    BY <1>0 DEF Numbers
  <2>1. CASE s = latest'
    <3>1. RingSlot(latest') \in DOMAIN ring
      BY <1>0, SlotType DEF TelemetryInv, TelemetryTypeOK
    <3>q. QED BY <1>1, <2>1, <3>1
  <2>2. CASE s # latest'
    <3>1. s <= latest
      BY <1>0, <2>0, <2>2
    <3>2. ring[RingSlot(s)] = s
      BY <1>2, <2>0, <3>1 DEF TelemetryInv, RingHolds
    <3>3. RingSlot(s) # RingSlot(latest')
      <4>1. s - 1 \in Nat /\ latest' - 1 \in Nat /\ s - 1 <= latest' - 1
        BY <1>0, <2>0
      <4>2. latest' - 1 < (s - 1) + Entries
        BY <1>0, <2>0 DEF Oldest
      <4>3. s - 1 # latest' - 1
        BY <1>0, <2>0, <2>2
      <4>4. (s - 1) % Entries # (latest' - 1) % Entries
        <5> DEFINE x == s - 1
                   y == latest' - 1
        <5>1. x \in Nat /\ y \in Nat /\ x <= y /\ y < x + Entries /\ x # y
          BY <4>1, <4>2, <4>3
        <5> HIDE DEF x, y
        <5>2. x % Entries # y % Entries
          BY <1>0, <5>1, SlotsDiffer
        <5>q. QED BY <5>2 DEF x, y
      <4>q. QED BY <4>4 DEF RingSlot
    <3>q. QED BY <1>1, <3>2, <3>3, SlotType DEF TelemetryInv, TelemetryTypeOK
  <2>q. QED BY <2>1, <2>2
<1>5. MissedIsGone'
  BY <1>1, <1>2, <1>3 DEF TelemetryInv, MissedIsGone, TelemetryTypeOK, Numbers
<1>6. Accounted' /\ Begun'
  BY <1>1 DEF TelemetryInv, Accounted, Begun
<1>7. ResponseInv'
  <2>1. End' = End /\ \A i : AfterAt(i)' = AfterAt(i)
    BY <1>1 DEF End, AfterAt
  <2>2. (handler = "reading" => cursor = End)'
    BY <1>1, <2>1 DEF TelemetryInv, ResponseInv
  <2>3. ASSUME handler # "idle" PROVE Ordered' /\ Covered' /\ JumpedIsGone'
    <3>1. Ordered /\ Covered /\ JumpedIsGone
      BY <2>3 DEF TelemetryInv, ResponseInv
    <3>2. \A i \in DOMAIN response : response[i] \in Numbers
      BY DEF TelemetryInv, TelemetryTypeOK
    <3>3. Ordered'
      BY <1>0, <1>1, <3>1, <3>2 DEF Ordered, Numbers
    <3>4. Covered'
      BY <1>1, <2>1, <3>1 DEF Covered
    <3>5. JumpedIsGone'
      BY <1>0, <1>1, <1>2, <2>1, <3>1 DEF JumpedIsGone, Numbers
    <3>q. QED BY <3>3, <3>4, <3>5
  <2>q. QED BY <1>1, <2>2, <2>3 DEF ResponseInv
<1>q. QED BY <1>3, <1>4, <1>5, <1>6, <1>7 DEF TelemetryInv

\* The line a reader is given is the one it wanted.
LEMMA InvReadLine == TelemetryInv /\ ReadLine => TelemetryInv'
<1> SUFFICES ASSUME TelemetryInv, ReadLine PROVE TelemetryInv'
  OBVIOUS
<1> USE TelemetryAssumption
<1> DEFINE l == cursor'
<1>0. /\ latest' = latest /\ ring' = ring /\ handler' = handler /\ handler = "reading"
      /\ after' = after /\ recorded' = recorded /\ missed' = missed
      /\ first' = first /\ restarts' = restarts
      /\ response' = Append(response, l)
      /\ latest \in 0..MaxSequence /\ cursor \in 0..MaxSequence /\ after \in 0..MaxSequence
      /\ response \in Seq(Numbers) /\ MaxSequence \in Nat /\ Entries \in Nat \ {0}
  BY DEF TelemetryInv, TelemetryTypeOK, ReadLine, fileVars
<1>1. /\ Oldest' = Oldest /\ Oldest \in Int
  BY <1>0 DEF Oldest
<1>2. /\ l \in Numbers /\ cursor < l /\ l <= latest
      /\ l > cursor + 1 => l = Oldest
  <2>1. /\ Wanted \in Numbers /\ Oldest <= Wanted /\ Wanted <= latest
        /\ cursor < Wanted
        /\ Wanted > cursor + 1 => Wanted = Oldest
    BY <1>0, <1>1 DEF ReadLine, Found, Wanted, Numbers
  <2>2. ring[RingSlot(Wanted)] = Wanted
    BY <2>1 DEF TelemetryInv, RingHolds
  <2>3. l = Wanted
    BY <2>2 DEF ReadLine
  <2>q. QED BY <2>1, <2>3
<1> HIDE DEF l
<1>3. cursor = End /\ Ordered /\ Covered /\ JumpedIsGone
  BY <1>0 DEF TelemetryInv, ResponseInv
<1>4. TelemetryTypeOK'
  <2>1. cursor' \in 0..MaxSequence
    BY <1>0, <1>2 DEF l, Numbers
  <2>2. response' \in Seq(Numbers)
    BY <1>0, <1>2
  <2>q. QED BY <1>0, <2>1, <2>2 DEF TelemetryInv, TelemetryTypeOK, Numbers, RingSlots
<1>5. RingHolds'
  BY <1>0, <1>1 DEF TelemetryInv, RingHolds, RingSlot, Numbers
<1>6. MissedIsGone' /\ Accounted' /\ Begun'
  BY <1>0, <1>1 DEF TelemetryInv, MissedIsGone, Accounted, Begun
<1>7. ResponseInv'
  <2>0. PICK n \in Nat : n = Len(response)
    BY <1>0
  <2>1. /\ n \in Nat /\ DOMAIN response = 1..n /\ DOMAIN response' = 1..(n + 1)
        /\ Len(response') = n + 1 /\ response' # <<>>
        /\ \A i \in 1..n : response'[i] = response[i] /\ response[i] \in Numbers
        /\ response'[n + 1] = l
    BY <1>0, <1>2, <2>0
  <2>2. /\ End' = l /\ End \in Int
        /\ \A i \in 1..n : AfterAt(i)' = AfterAt(i)
        /\ AfterAt(n + 1)' = End
    <3>1. End' = l
      BY <2>1 DEF End
    <3>2. (response = <<>> <=> n = 0) /\ End = IF n = 0 THEN after ELSE response[n]
      BY <1>0, <2>0 DEF End
    <3>3. AfterAt(n + 1)' = End
      <4>1. AfterAt(n + 1)' = IF n = 0 THEN after ELSE response'[n]
        BY <1>0, <2>1 DEF AfterAt
      <4>2. n # 0 => response'[n] = response[n]
        BY <2>1
      <4>q. QED BY <2>1, <3>2, <4>1, <4>2
    <3>4. \A i \in 1..n : AfterAt(i)' = AfterAt(i)
      BY <1>0, <2>1 DEF AfterAt
    <3>5. End \in Int
      BY <1>0, <1>3
    <3>q. QED BY <3>1, <3>3, <3>4, <3>5
  <2>3. after <= End /\ \A i \in 1..n : response[i] <= End
    <3>1. End = IF n = 0 THEN after ELSE response[n]
      BY <1>0, <2>0 DEF End
    <3>2. \A i \in 1..n : after < response[i] /\ response[i] \in Int
      BY <1>3, <2>1 DEF Ordered, Numbers
    <3>3. \A i \in 1..n : i < n => response[i] < response[n]
      BY <1>3, <2>1 DEF Ordered
    <3>q. QED BY <1>0, <2>1, <3>1, <3>2, <3>3
  <2>4. Ordered'
    BY <1>0, <1>2, <1>3, <2>1, <2>2, <2>3 DEF Ordered, Numbers
  <2>5. Covered'
    <3> SUFFICES ASSUME NEW s \in Numbers, after < s, s <= l
                 PROVE  \E i \in 1..(n + 1) :
                            s = response'[i] \/ (AfterAt(i)' < s /\ s < response'[i])
      BY <1>0, <2>1, <2>2 DEF Covered
    <3>0. s \in Int /\ l \in Int
      BY <1>0, <1>2 DEF Numbers
    <3>1. CASE s <= End
      <4>1. PICK i \in 1..n : s = response[i] \/ (AfterAt(i) < s /\ s < response[i])
        BY <1>3, <2>1, <3>1 DEF Covered
      <4>q. QED BY <2>1, <2>2, <4>1
    <3>2. CASE ~(s <= End)
      <4>1. s = response'[n + 1] \/ (AfterAt(n + 1)' < s /\ s < response'[n + 1])
        BY <2>1, <2>2, <3>0, <3>2
      <4>2. n + 1 \in 1..(n + 1)
        BY <2>1
      <4>q. QED BY <4>1, <4>2
    <3>q. QED BY <3>1, <3>2
  <2>6. JumpedIsGone'
    <3> SUFFICES ASSUME NEW i \in 1..(n + 1), NEW s \in Numbers,
                        AfterAt(i)' < s, s < response'[i]
                 PROVE  s < Oldest
      BY <1>1, <2>1 DEF JumpedIsGone
    <3>1. CASE i \in 1..n
      BY <1>3, <2>1, <2>2, <3>1 DEF JumpedIsGone
    <3>2. CASE i = n + 1
      BY <1>0, <1>1, <1>2, <1>3, <2>1, <2>2, <3>2 DEF Numbers
    <3>q. QED BY <2>1, <3>1, <3>2
  <2>q. QED BY <1>0, <2>2, <2>4, <2>5, <2>6 DEF ResponseInv, l
<1>q. QED BY <1>4, <1>5, <1>6, <1>7 DEF TelemetryInv

\* Steps that leave the log and the file alone and end or begin a response.
LEMMA InvHandler ==
    ASSUME TelemetryInv, Respond \/ RespondEarly \/ Ask \/ CollectNothing
    PROVE  TelemetryInv'
<1> USE TelemetryAssumption
<1>1. /\ latest' = latest /\ ring' = ring /\ after' = after /\ recorded' = recorded
      /\ missed' = missed /\ first' = first /\ restarts' = restarts
  BY DEF Respond, RespondEarly, Send, Ask, CollectNothing, fileVars
<1>2. Oldest' = Oldest
  BY <1>1 DEF Oldest
<1>3. RingHolds' /\ MissedIsGone' /\ Accounted' /\ Begun'
  BY <1>1, <1>2 DEF TelemetryInv, RingHolds, RingSlot, MissedIsGone, Accounted, Begun, Numbers
<1>4. CASE Ask
  <2>1. handler' = "reading" /\ cursor' = after /\ response' = <<>>
    BY <1>4 DEF Ask
  <2>2. TelemetryTypeOK'
    BY <1>1, <2>1 DEF TelemetryInv, TelemetryTypeOK, Numbers, RingSlots
  <2>3. ResponseInv'
    <3>1. End' = after /\ DOMAIN response' = {}
      BY <1>1, <2>1 DEF End
    <3>2. Ordered' /\ JumpedIsGone'
      BY <3>1 DEF Ordered, JumpedIsGone
    <3>3. Covered'
      BY <1>1, <3>1 DEF Covered, TelemetryInv, TelemetryTypeOK, Numbers
    <3>q. QED BY <2>1, <3>1, <3>2, <3>3 DEF ResponseInv
  <2>q. QED BY <1>3, <2>2, <2>3 DEF TelemetryInv
<1>5. CASE Respond \/ RespondEarly \/ CollectNothing
  <2>1. /\ cursor' = cursor /\ response' = response
        /\ \/ handler' = "sent" /\ handler = "reading"
           \/ handler' = "idle"
    BY <1>5 DEF Respond, RespondEarly, Send, CollectNothing
  <2>2. TelemetryTypeOK'
    BY <1>1, <2>1 DEF TelemetryInv, TelemetryTypeOK, Numbers, RingSlots
  <2>3. ResponseInv'
    <3>1. CASE handler' = "idle"
      BY <3>1 DEF ResponseInv
    <3>2. CASE handler' = "sent" /\ handler = "reading"
      <4>1. Ordered /\ Covered /\ JumpedIsGone
        BY <3>2 DEF TelemetryInv, ResponseInv
      <4>2. Ordered' /\ Covered' /\ JumpedIsGone'
        BY <1>1, <1>2, <2>1, <4>1 DEF Ordered, Covered, JumpedIsGone, End, AfterAt, Numbers
      <4>q. QED BY <3>2, <4>2 DEF ResponseInv
    <3>q. QED BY <2>1, <3>1, <3>2
  <2>q. QED BY <1>3, <2>2, <2>3 DEF TelemetryInv
<1>q. QED BY <1>4, <1>5

LEMMA InvRestart == TelemetryInv /\ Restart => TelemetryInv'
<1> SUFFICES ASSUME TelemetryInv, Restart PROVE TelemetryInv'
  OBVIOUS
<1> USE TelemetryAssumption
<1>1. /\ restarts < MaxRestarts /\ restarts' = restarts + 1
      /\ latest' = 0 /\ ring' = [s \in RingSlots |-> 0]
      /\ handler' = "idle" /\ cursor' = 0 /\ response' = <<>>
      /\ recorded' = {} /\ missed' = {} /\ after' = after
      /\ first' = IF after = 0 THEN 0 ELSE after + 1
      /\ after \in 0..MaxSequence
  BY DEF Restart, TelemetryInv, TelemetryTypeOK
<1>2. TelemetryTypeOK'
  BY <1>1 DEF TelemetryInv, TelemetryTypeOK, Numbers, RingSlots
<1>3. RingHolds'
  BY <1>1 DEF RingHolds, Numbers
<1>4. MissedIsGone' /\ Accounted' /\ Begun' /\ ResponseInv'
  BY <1>1 DEF MissedIsGone, Accounted, Begun, ResponseInv
<1>q. QED BY <1>2, <1>3, <1>4 DEF TelemetryInv

\* What the collector appends continues the account without a hole.
LEMMA InvCollect == TelemetryInv /\ Collect => TelemetryInv'
<1> SUFFICES ASSUME TelemetryInv, Collect PROVE TelemetryInv'
  OBVIOUS
<1> USE TelemetryAssumption
<1> DEFINE got  == {response[i] : i \in DOMAIN response}
           jump == UNION {(AfterAt(i) + 1)..(response[i] - 1) : i \in Jumps}
<1>0. /\ latest' = latest /\ ring' = ring /\ handler = "sent" /\ handler' = "idle"
      /\ cursor' = cursor /\ response' = response /\ restarts' = restarts
      /\ after' = response[Len(response)] /\ response # <<>>
      /\ recorded' = recorded \cup got /\ missed' = missed \cup jump
      /\ first' = IF first = 0 THEN response[1] ELSE first
      /\ after \in 0..MaxSequence /\ first \in 0..(MaxSequence + 1)
      /\ latest \in 0..MaxSequence
      /\ response \in Seq(Numbers) /\ MaxSequence \in Nat
      /\ recorded \subseteq Numbers /\ missed \subseteq Numbers
  BY DEF TelemetryInv, TelemetryTypeOK, Collect
<1>1. PICK n \in Nat \ {0} : n = Len(response)
  BY <1>0
<1>2. /\ DOMAIN response = 1..n /\ after' = response[n] /\ End = response[n]
      /\ \A i \in 1..n : response[i] \in Numbers /\ response[i] \in Int
  BY <1>0, <1>1 DEF End, Numbers
<1>3. Ordered /\ Covered /\ JumpedIsGone
  BY <1>0 DEF TelemetryInv, ResponseInv
<1>4. /\ \A i \in 1..n : after < response[i] /\ response[i] <= response[n]
      /\ \A i \in 1..n : response[1] <= response[i]
      /\ \A i, j \in 1..n : i < j => response[i] < response[j]
  BY <1>2, <1>3 DEF Ordered
<1>5. \A i \in 1..n : AfterAt(i) = IF i = 1 THEN after ELSE response[i - 1]
  BY DEF AfterAt
<1>6. \A i \in 1..n : AfterAt(i) \in Int /\ after <= AfterAt(i)
  BY <1>0, <1>2, <1>4, <1>5
<1>7. \A s : s \in got <=> \E i \in 1..n : s = response[i]
  BY <1>2
<1>8. \A s : s \in jump <=> /\ s \in Int
                          /\ \E i \in 1..n : /\ AfterAt(i) # 0
                                            /\ AfterAt(i) < s /\ s < response[i]
  <2>1. ASSUME NEW s, s \in jump
        PROVE  s \in Int /\ \E i \in 1..n : AfterAt(i) # 0 /\ AfterAt(i) < s /\ s < response[i]
    <3>1. PICK i \in Jumps : s \in (AfterAt(i) + 1)..(response[i] - 1)
      BY <2>1
    <3>2. i \in 1..n /\ AfterAt(i) # 0
      BY <1>2 DEF Jumps
    <3>3. AfterAt(i) \in Int /\ response[i] \in Int
      BY <1>2, <1>6, <3>2
    <3>4. s \in Int /\ AfterAt(i) < s /\ s < response[i]
      BY <3>1, <3>3
    <3>q. QED BY <3>2, <3>4
  <2>2. ASSUME NEW s \in Int, NEW i \in 1..n, AfterAt(i) # 0, AfterAt(i) < s, s < response[i]
        PROVE  s \in jump
    <3>1. i \in Jumps
      BY <1>2, <1>6, <2>2 DEF Jumps
    <3>2. s \in (AfterAt(i) + 1)..(response[i] - 1)
      BY <1>2, <1>6, <2>2
    <3>q. QED BY <3>1, <3>2
  <2>q. QED BY <2>1, <2>2
<1> HIDE DEF got, jump
<1>9. got \subseteq Numbers /\ jump \subseteq Numbers
  <2>1. got \subseteq Numbers
    BY <1>2, <1>7
  <2>2. ASSUME NEW s \in jump PROVE s \in Numbers
    <3>1. PICK i \in 1..n : s \in Int /\ AfterAt(i) < s /\ s < response[i]
      BY <1>8
    <3>q. QED BY <1>0, <1>2, <1>6, <3>1 DEF Numbers
  <2>q. QED BY <2>1, <2>2
<1>10. TelemetryTypeOK'
  <2>1. after' \in 0..MaxSequence /\ first' \in 0..(MaxSequence + 1)
    BY <1>0, <1>1, <1>2 DEF Numbers
  <2>2. recorded' \subseteq Numbers /\ missed' \subseteq Numbers
    BY <1>0, <1>9
  <2>q. QED BY <1>0, <2>1, <2>2 DEF TelemetryInv, TelemetryTypeOK, Numbers, RingSlots
<1>11. RingHolds' /\ Oldest' = Oldest
  BY <1>0 DEF TelemetryInv, RingHolds, RingSlot, Oldest, Numbers
<1>12. MissedIsGone'
  <2>1. ASSUME NEW s \in jump PROVE s < Oldest
    <3>1. PICK i \in 1..n : AfterAt(i) < s /\ s < response[i]
      BY <1>8
    <3>q. QED BY <1>2, <1>3, <1>9, <3>1 DEF JumpedIsGone
  <2>q. QED BY <1>0, <1>11, <2>1 DEF TelemetryInv, MissedIsGone
<1>13. Begun'
  <2>1. (first = 0 <=> after = 0) /\ first <= after + 1
    BY DEF TelemetryInv, Begun
  <2>2. response[1] \in Numbers /\ response[1] <= response[n] /\ after < response[n]
    BY <1>1, <1>2, <1>4
  <2>q. QED BY <1>0, <1>2, <2>1, <2>2 DEF Begun, Numbers
<1>14. ResponseInv'
  BY <1>0 DEF ResponseInv
<1>15. (recorded \cap missed = {})'
  <2>0. /\ recorded \cap missed = {}
        /\ \A s \in recorded \cup missed : s <= after
    BY <1>0 DEF TelemetryInv, Accounted, Begun
  <2>1. got \cap missed = {}
    BY <1>0, <1>2, <1>4, <1>7, <2>0 DEF Numbers
  <2>2. recorded \cap jump = {}
    BY <1>0, <1>6, <1>8, <2>0 DEF Numbers
  <2>3. got \cap jump = {}
    <3> SUFFICES ASSUME NEW j \in 1..n, NEW i \in 1..n,
                        AfterAt(i) < response[j], response[j] < response[i]
                 PROVE  FALSE
      BY <1>7, <1>8
    <3>1. j < i
      BY <1>2, <1>4
    <3>2. AfterAt(i) = response[i - 1] /\ i - 1 \in 1..n /\ j <= i - 1
      BY <1>5, <3>1
    <3>q. QED BY <1>2, <1>4, <3>2
  <2>q. QED BY <1>0, <2>0, <2>1, <2>2, <2>3
<1>16. (recorded \cup missed = IF first = 0 THEN {} ELSE first..after)'
  <2>0. /\ recorded \cup missed = IF first = 0 THEN {} ELSE first..after
        /\ first = 0 <=> after = 0
        /\ first <= after + 1
    BY DEF TelemetryInv, Accounted, Begun
  <2>1. 1 \in 1..n /\ n \in 1..n /\ response[1] # 0
    BY <1>1, <1>2 DEF Numbers
  <2>2. CASE first = 0
    <3>1. ASSUME NEW s \in got \cup jump PROVE s \in response[1]..response[n]
      <4>1. CASE s \in got
        BY <1>2, <1>4, <1>7, <2>1, <4>1
      <4>2. CASE s \in jump
        <5>1. PICK i \in 1..n : /\ AfterAt(i) # 0 /\ s \in Int
                               /\ AfterAt(i) < s /\ s < response[i]
          BY <1>8, <4>2
        <5>2. i # 1
          BY <1>5, <2>0, <2>2, <5>1
        <5>3. AfterAt(i) = response[i - 1] /\ i - 1 \in 1..n
          BY <1>5, <5>2
        <5>q. QED BY <1>2, <1>4, <2>1, <5>1, <5>3
      <4>q. QED BY <4>1, <4>2
    <3>2. ASSUME NEW s \in response[1]..response[n] PROVE s \in got \cup jump
      <4>1. s \in Numbers /\ s \in Int /\ after < s /\ s <= End
        BY <1>0, <1>2, <1>4, <2>1 DEF Numbers
      <4>2. PICK i \in 1..n : s = response[i] \/ (AfterAt(i) < s /\ s < response[i])
        BY <1>2, <1>3, <4>1 DEF Covered
      <4>3. CASE s = response[i]
        BY <1>7, <4>3
      <4>4. CASE AfterAt(i) < s /\ s < response[i]
        <5>1. i # 1
          BY <1>2, <2>1, <4>1, <4>4
        <5>2. AfterAt(i) = response[i - 1] /\ i - 1 \in 1..n
          BY <1>5, <5>1
        <5>3. AfterAt(i) # 0
          BY <1>2, <5>2 DEF Numbers
        <5>q. QED BY <1>8, <4>1, <4>4, <5>3
      <4>q. QED BY <4>2, <4>3, <4>4
    <3>3. got \cup jump = response[1]..response[n]
      BY <3>1, <3>2
    <3>q. QED BY <1>0, <1>2, <2>0, <2>1, <2>2, <3>3
  <2>3. CASE first # 0
    <3>1. ASSUME NEW s \in got \cup jump PROVE s \in (after + 1)..response[n]
      <4>1. CASE s \in got
        BY <1>0, <1>2, <1>4, <1>7, <2>1, <4>1
      <4>2. CASE s \in jump
        <5>1. PICK i \in 1..n : s \in Int /\ AfterAt(i) < s /\ s < response[i]
          BY <1>8, <4>2
        <5>q. QED BY <1>0, <1>2, <1>4, <1>6, <2>1, <5>1
      <4>q. QED BY <4>1, <4>2
    <3>2. ASSUME NEW s \in (after + 1)..response[n] PROVE s \in got \cup jump
      <4>1. s \in Numbers /\ s \in Int /\ after < s /\ s <= End
        BY <1>0, <1>2, <2>1 DEF Numbers
      <4>2. PICK i \in 1..n : s = response[i] \/ (AfterAt(i) < s /\ s < response[i])
        BY <1>2, <1>3, <4>1 DEF Covered
      <4>3. AfterAt(i) # 0
        BY <1>0, <1>6, <2>0, <2>3
      <4>q. QED BY <1>7, <1>8, <4>1, <4>2, <4>3
    <3>3. got \cup jump = (after + 1)..response[n]
      BY <3>1, <3>2
    <3>4. first..response[n] = (first..after) \cup ((after + 1)..response[n])
      BY <1>0, <1>2, <1>4, <2>0, <2>1
    <3>q. QED BY <1>0, <1>2, <2>0, <2>3, <3>3, <3>4
  <2>q. QED BY <2>2, <2>3
<1>q. QED BY <1>10, <1>11, <1>12, <1>13, <1>14, <1>15, <1>16 DEF TelemetryInv, Accounted

-----------------------------------------------------------------------------
(* Theorems *)

LEMMA InvNext == TelemetryInv /\ [TelemetryNext]_telemetryVars => TelemetryInv'
<1> SUFFICES ASSUME TelemetryInv, [TelemetryNext]_telemetryVars PROVE TelemetryInv'
  OBVIOUS
<1>1. CASE Publish  BY <1>1, InvPublish
<1>2. CASE ReadLine  BY <1>2, InvReadLine
<1>3. CASE Respond \/ RespondEarly \/ Ask \/ CollectNothing  BY <1>3, InvHandler
<1>4. CASE Restart  BY <1>4, InvRestart
<1>5. CASE Collect  BY <1>5, InvCollect
<1>6. CASE UNCHANGED telemetryVars
  BY <1>6 DEF telemetryVars, TelemetryInv, TelemetryTypeOK, RingHolds, RingSlot,
              MissedIsGone, Accounted, ResponseInv, Begun, Ordered, Covered,
              JumpedIsGone, End, AfterAt, Oldest, Numbers, RingSlots
<1>q. QED BY <1>1, <1>2, <1>3, <1>4, <1>5, <1>6 DEF TelemetryNext

LEMMA InvAlways == TelemetrySpec => []TelemetryInv
BY InvInit, InvNext, PTL DEF TelemetrySpec

\* The variables keep their types, for every size of the ring (telemetry.c).
THEOREM TelemetryTypeCorrect == TelemetrySpec => []TelemetryTypeOK
<1>1. TelemetryInv => TelemetryTypeOK  BY DEF TelemetryInv
<1>q. QED BY <1>1, InvAlways, PTL

\* Each of the last lines is where a reader looks for it: the index arithmetic
\* of telemetry_publishf and telemetry_get_after agree for every ring size.
THEOREM RingAlwaysHolds == TelemetrySpec => []RingHolds
<1>1. TelemetryInv => RingHolds  BY DEF TelemetryInv
<1>q. QED BY <1>1, InvAlways, PTL

\* No reader of /api/logs is made to skip a line the ring still holds.
THEOREM OnlyOverwrittenIsMissed == TelemetrySpec => []MissedIsGone
<1>1. TelemetryInv => MissedIsGone  BY DEF TelemetryInv
<1>q. QED BY <1>1, InvAlways, PTL

\* The collector's file accounts for each number of a start once, from where
\* its account begins, whatever is lost or overwritten meanwhile.
THEOREM EveryLineAccounted == TelemetrySpec => []Accounted
<1>1. TelemetryInv => Accounted  BY DEF TelemetryInv
<1>q. QED BY <1>1, InvAlways, PTL
=============================================================================
