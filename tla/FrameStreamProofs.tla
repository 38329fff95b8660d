-------------------------- MODULE FrameStreamProofs --------------------------
(***************************************************************************)
(* Proofs about FrameStream, for every set of bytes, every length of body, *)
(* every timing and any number of faults: types, the safety invariants,    *)
(* and that the stream implements FrameLink.                               *)
(*                                                                         *)
(* The invariants follow the bytes of the present frame through the        *)
(* buffer: as long as the line leaves the frame alone the buffer holds     *)
(* what was sent of it; after one hit it holds either that, or a frame     *)
(* with one wrong byte, which the check byte tells, or too little to       *)
(* become a frame before the next silence.                                 *)
(***************************************************************************)
EXTENDS FrameStream, SequenceTheorems, WellFoundedInduction, TLAPS

\* The first bytes of the frame on the line.
Sent(n) == SubSeq(line.frame, 1, n)

\* Every fault left its trace, and a fault is counted once.
FaultsInv ==
    /\ damage.hits <= faults /\ damage.added <= faults /\ damage.noise <= faults
    /\ damage.hits > 0 /\ ~damage.joined => line.sent > 0
    /\ damage.noise > 0 => Between

\* In a silence without noise the clock of the task is not behind the sender's.
SilenceInv ==
    /\ ~Between => line.silent = 0
    /\ Between /\ damage.noise = 0 /\ stream.bytes # <<>> => line.silent <= quiet

\* A frame that the line leaves alone is in the buffer as far as it was sent.
UnharmedInv ==
    /\ line.sent = 0 /\ ~damage.joined =>
            taken = NoFrame /\ stream.bytes \in {<<>>, <<HEADER_0>>}
    /\ ~Harmed =>
            /\ Within => stream.bytes = Sent(line.sent) /\ taken = NoFrame /\ quiet = 0
            /\ Between => /\ Len(stream.bytes) <= damage.noise
                          /\ ~LongNoise => taken = line.frame

\* Two sequences differ in one of their first n places.
DifferOnce(a, b, n) ==
    \E i \in 1..n : /\ a[i] # b[i]
                    /\ \A j \in 1..n : j # i => a[j] = b[j]

\* The buffer holds the frame so far with one byte changed.
OneOff ==
    /\ Len(stream.bytes) = line.sent
    /\ DifferOnce(stream.bytes, line.frame, line.sent)

\* What is left of a frame that was hit once: all of it, one byte off, too
\* little, or a header before the rest of it.
SingleHitInv ==
    damage.hits = 1 /\ ~Altered =>
        /\ taken \in {NoFrame, line.frame}
        /\ \/ stream.bytes = Sent(line.sent)
           \/ OneOff
           \/ Len(stream.bytes) < line.sent
           \/ line.sent = 1 /\ stream.bytes = <<HEADER_0, HEADER_1>>

\* A synchronized stream stays so, and what it hears leaves a trace.
LossInv ==
    /\ damage.counting => stream.synchronized
    /\ damage.heard /\ damage.counting =>
            errors \/ taken # NoFrame \/ stream.bytes # <<>>

\* What was carried of a frame the line left alone: the frame so far, or a burst
\* and what came after the mirror's return, which ends the withholding.
Voice ==
    /\ damage.back \in 0..line.sent
    /\ line.sent = 0 => carried = <<>>
    /\ line.sent > 0 =>
        \/ carried = Sent(line.sent) /\ (Within => ~stream.burstSent)
        \/ /\ carried = <<Burst>> \o AfterBurst
           /\ Within => stream.burstSent /\ (mirror <=> damage.back # 0)

\* A command is ready only while the mirror is off, so it leaves as one burst
\* with the first byte or not at all.
VoiceInv ==
    /\ ~stream.overlayValid
    /\ ready => ~mirror
    /\ side = "panel" /\ ~Harmed /\ damage.noise = 0 => Voice

StreamInv ==
    /\ TypeOK
    /\ FaultsInv
    /\ SilenceInv
    /\ UnharmedInv
    /\ SingleHitInv
    /\ LossInv
    /\ VoiceInv

-----------------------------------------------------------------------------
(* Shapes *)

\* The two lengths are told apart by the sizes they stand for.
LEMMA Sizes ==
    /\ SizeOf(PANEL_LENGTH) = PanelBody + 4
    /\ SizeOf(MAIN_LENGTH) = MainBody + 4
    /\ \A l : SizeOf(l) \in Nat /\ (SizeOf(l) = 0 \/ SizeOf(l) >= SizeOf(PANEL_LENGTH))
    /\ SizeOf(HEADER_1) = 0
    /\ SizeOf(PANEL_LENGTH) >= 4
    /\ \A s : /\ OwnSize(s) \in Nat /\ OwnSize(s) >= SizeOf(PANEL_LENGTH)
              /\ \A l : SizeOf(l) = OwnSize(s) => l = OwnLength(s)
BY BytesAssumption, GapAssumption DEF SizeOf, OwnSize, OwnLength

\* The bytes in a buffer: the beginning of a frame.
Beginning(bytes) ==
    /\ bytes \in Seq(Byte)
    /\ \A i \in DOMAIN bytes :
            /\ i = 1 => bytes[i] = HEADER_0
            /\ i = 2 => bytes[i] = HEADER_1
            /\ i >= 3 => i < Expected(bytes)

TaskType == [st : [bytes : Seq(Byte), synchronized : BOOLEAN,
                   overlayValid : BOOLEAN, burstSent : BOOLEAN],
             got : Seq(Byte), err : BOOLEAN, out : Seq(Byte \cup {Burst, Piece})]

\* Forwarding a byte touches nothing but what was forwarded.
LEMMA Forwarding ==
    ASSUME NEW t \in TaskType, NEW byte \in Byte, NEW index \in Nat, TypeOK
    PROVE  LET r == HybridForward(t, index, byte)
           IN  /\ r \in TaskType
               /\ r.st.bytes = t.st.bytes
               /\ r.st.synchronized = t.st.synchronized
               /\ r.got = t.got /\ r.err = t.err
<1> DEFINE outgoing(valid, starts) ==
              CASE starts -> Burst
                [] valid /\ ~starts /\ index < OwnSize("panel") -> Piece
                [] OTHER -> byte
<1>1. ASSUME NEW valid \in BOOLEAN, NEW starts \in BOOLEAN
      PROVE  Append(t.out, outgoing(valid, starts)) \in Seq(Byte \cup {Burst, Piece})
  BY <1>1, AppendProperties DEF TaskType
<1>2. CASE side # "panel"
  BY <1>2 DEF HybridForward
<1>3. CASE side = "panel"
  BY <1>1, <1>3 DEF HybridForward, Withheld, TaskType, TypeOK
<1> QED
  BY <1>2, <1>3

-----------------------------------------------------------------------------
(* What consuming one byte can do                                           *)

\* A byte that starts a frame or is garbage, with at most a header before it.
Restarts(t, byte, r) ==
    /\ Len(t.st.bytes) <= 1
    /\ Len(t.st.bytes) = 1 => byte # HEADER_1
    /\ r.st.bytes = IF byte = HEADER_0 THEN <<HEADER_0>> ELSE <<>>
    /\ r.got = t.got
    /\ t.st.synchronized => r.err \/ byte = HEADER_0

\* One more byte of a frame.
Grows(t, byte, r) ==
    /\ Len(t.st.bytes) >= 1
    /\ r.st.bytes = Append(t.st.bytes, byte)
    /\ r.got = t.got

\* A length that is none.
Drops(t, byte, r) ==
    /\ Len(t.st.bytes) = 2
    /\ SizeOf(byte) = 0
    /\ r.st.bytes = <<>>
    /\ r.got = t.got
    /\ t.st.synchronized => r.err

\* The last byte of a frame.
Completes(t, byte, r) ==
    LET all  == Append(t.st.bytes, byte)
        good == ChecksumValid(all) /\ Len(all) = OwnSize(side)
    IN  /\ Len(t.st.bytes) >= 2
        /\ Len(all) = Expected(all)
        /\ r.st.bytes = <<>>
        /\ r.got = IF good THEN all ELSE t.got
        /\ t.st.synchronized => r.err \/ good

\* Flushing empties the buffer, and is counted on a synchronized stream.
LEMMA Flushing ==
    ASSUME NEW t \in TaskType
    PROVE  LET r == Flush(t)
           IN  /\ r \in TaskType
               /\ r.st.bytes = <<>>
               /\ r.st.synchronized = t.st.synchronized
               /\ r.got = t.got
               /\ r.err = (t.err \/ t.st.synchronized)
               /\ r.out = t.out
               /\ r.st.overlayValid = t.st.overlayValid
               /\ r.st.burstSent = t.st.burstSent
BY EmptySeq DEF Flush, TaskType

\* A byte into an empty buffer.
LEMMA First ==
    ASSUME NEW t \in TaskType, NEW byte \in Byte, TypeOK, t.st.bytes = <<>>
    PROVE  LET r == FirstByte(t, byte)
           IN  /\ r \in TaskType
               /\ r.st.synchronized = t.st.synchronized
               /\ r.st.bytes = IF byte = HEADER_0 THEN <<HEADER_0>> ELSE <<>>
               /\ r.got = t.got
               /\ t.err => r.err
               /\ t.st.synchronized => r.err \/ byte = HEADER_0
<1>1. CASE byte = HEADER_0
  <2> DEFINE u == [t EXCEPT !.st.bytes = <<byte>>]
  <2>1. <<byte>> \in Seq(Byte)
    OBVIOUS
  <2>2. /\ u \in TaskType /\ u.st.bytes = <<HEADER_0>> /\ u.got = t.got /\ u.err = t.err
        /\ u.st.synchronized = t.st.synchronized
    BY <1>1, <2>1 DEF TaskType
  <2>3. FirstByte(t, byte) = HybridForward(u, 0, byte)
    BY <1>1 DEF FirstByte
  <2> HIDE DEF u
  <2> QED
    BY <1>1, <2>2, <2>3, Forwarding
<1>2. CASE byte # HEADER_0
  <2>1. Append(t.out, byte) \in Seq(Byte \cup {Burst, Piece})
    BY AppendProperties DEF TaskType
  <2> QED
    BY <1>2, <2>1 DEF FirstByte, TaskType
<1> QED
  BY <1>1, <1>2

\* A byte more in a buffer.
LEMMA Longer ==
    ASSUME NEW S, NEW bytes \in Seq(S), NEW byte \in S
    PROVE  LET all == Append(bytes, byte)
           IN  /\ all \in Seq(S) /\ all # <<>>
               /\ Len(bytes) \in Nat /\ Len(all) = Len(bytes) + 1
               /\ DOMAIN all = 1..(Len(bytes) + 1)
               /\ \A i \in 1..Len(bytes) : all[i] = bytes[i]
               /\ all[Len(bytes) + 1] = byte
BY AppendProperties, LenProperties

\* A byte into a buffer that holds a header.
LEMMA Following ==
    ASSUME NEW t \in TaskType, NEW byte \in Byte, TypeOK, Beginning(t.st.bytes),
           Len(t.st.bytes) >= 1, Len(t.st.bytes) = 1 => byte = HEADER_1,
           NEW r, r = NextByte(t, byte)
    PROVE  /\ r \in TaskType
           /\ Beginning(r.st.bytes)
           /\ t.st.synchronized => r.st.synchronized
           /\ t.err => r.err
           /\ Grows(t, byte, r) \/ Drops(t, byte, r) \/ Completes(t, byte, r)
<1> DEFINE all   == Append(t.st.bytes, byte)
           u     == [t EXCEPT !.st.bytes = all]
           added == HybridForward(u, Len(t.st.bytes), byte)
           valid == ChecksumValid(all)
           done  == IF Processed(added, valid)
                    THEN ProcessCompleteFrame(added) ELSE added
<1>1. /\ t.st.bytes \in Seq(Byte) /\ all \in Seq(Byte) /\ all # <<>>
      /\ Len(t.st.bytes) \in Nat /\ Len(all) = Len(t.st.bytes) + 1
      /\ DOMAIN all = 1..Len(all) /\ DOMAIN t.st.bytes = 1..Len(t.st.bytes)
      /\ \A i \in 1..Len(t.st.bytes) : all[i] = t.st.bytes[i]
      /\ Len(all) = 2 => all[2] = byte
      /\ Len(all) = 3 => all[3] = byte
  BY Longer, LenProperties DEF TaskType
<1> DEFINE size == Len(t.st.bytes)
<1>2. size \in Nat /\ size = Len(all) - 1 /\ size >= 1
  BY <1>1
<1>3. u \in TaskType /\ u.st.bytes = all /\ u.got = t.got /\ u.err = t.err
      /\ u.st.synchronized = t.st.synchronized
  BY <1>1 DEF TaskType
<1>4. /\ added \in TaskType /\ added.st.bytes = all /\ added.got = t.got
      /\ added.err = t.err /\ added.st.synchronized = t.st.synchronized
  <2> HIDE DEF u
  <2> QED BY <1>1, <1>3, Forwarding
<1>5. r = IF BadLength(all) THEN Flush(added)
          ELSE IF Len(all) >= 3 /\ Len(all) = Expected(all)
          THEN [done EXCEPT !.st.bytes = <<>>, !.st.synchronized = @ \/ valid]
          ELSE added
  BY <1>4 DEF NextByte, BadLength
<1> HIDE DEF added, u, all, size
<1>6. Beginning(<<>>)
  BY EmptySeq DEF Beginning
<1>7. Len(all) >= 3 => Expected(all) = SizeOf(all[3])
  BY DEF Expected
<1>8. CASE BadLength(all)
  <2>1. Len(t.st.bytes) = 2 /\ SizeOf(byte) = 0
    <3>1. Len(all) = 3 /\ Expected(all) = 0
      BY <1>8 DEF BadLength
    <3>2. all[3] = byte
      BY <1>1, <3>1
    <3>3. SizeOf(byte) = Expected(all)
      BY <1>7, <3>1, <3>2
    <3>4. Len(t.st.bytes) = 2
      <4>1. size = 2
        BY <1>2, <3>1
      <4> QED
        BY <4>1 DEF size
    <3> QED
      BY <3>1, <3>3, <3>4
  <2>2. r = Flush(added)
    BY <1>5, <1>8
  <2>3. /\ r \in TaskType /\ r.st.bytes = <<>> /\ r.got = t.got
        /\ r.st.synchronized = t.st.synchronized
        /\ r.err = (t.err \/ t.st.synchronized)
    <3> HIDE DEF valid, done
    <3> QED BY <1>4, <2>2, Flushing
  <2> QED
    BY <1>6, <2>1, <2>3 DEF Drops
<1>9. CASE ~BadLength(all) /\ Len(all) >= 3 /\ Len(all) = Expected(all)
  <2> DEFINE good == valid /\ Len(all) = OwnSize(side)
  <2>1. valid \in BOOLEAN
    BY DEF ChecksumValid
  <2>2. /\ done \in TaskType /\ done.st = added.st
        /\ done.got = IF good THEN all ELSE t.got
        /\ t.err => done.err
        /\ t.st.synchronized => done.err \/ good
    <3>1. ProcessCompleteFrame(added) =
            IF ~good THEN [added EXCEPT !.err = TRUE] ELSE [added EXCEPT !.got = all]
      BY <1>4 DEF ProcessCompleteFrame
    <3>2. good => Processed(added, valid)
      BY DEF Processed
    <3>3. t.st.synchronized => Processed(added, valid)
      BY <1>4 DEF Processed
    <3> HIDE DEF good, valid
    <3> QED
      BY <1>1, <1>4, <3>1, <3>2, <3>3 DEF TaskType
  <2>3. r = [done EXCEPT !.st.bytes = <<>>, !.st.synchronized = @ \/ valid]
    BY <1>5, <1>9
  <2> HIDE DEF done, valid
  <2>4. /\ r \in TaskType /\ r.st.bytes = <<>> /\ r.got = done.got /\ r.err = done.err
        /\ t.st.synchronized => r.st.synchronized
    <3>1. done.st \in Stream /\ done.got \in Seq(Byte) /\ done.err \in BOOLEAN
      BY <2>2 DEF TaskType, Stream
    <3>2. r.st = [done.st EXCEPT !.bytes = <<>>, !.synchronized = @ \/ valid]
      BY <2>2, <2>3 DEF TaskType
    <3>3. r.got = done.got /\ r.err = done.err /\ r.out = done.out
      BY <2>2, <2>3 DEF TaskType
    <3>4. r.st \in Stream /\ r.st.bytes = <<>>
          /\ (done.st.synchronized => r.st.synchronized)
      BY <2>1, <3>1, <3>2, EmptySeq DEF Stream
    <3>5. r = [done EXCEPT !.st = r.st]
      BY <2>2, <2>3, <3>2 DEF TaskType
    <3> QED
      BY <1>4, <2>2, <3>3, <3>4, <3>5 DEF TaskType, Stream
  <2>5. Completes(t, byte, r)
    BY <1>1, <1>9, <2>2, <2>4 DEF Completes, valid, all
  <2> QED
    BY <1>6, <2>2, <2>4, <2>5
<1>10. CASE ~BadLength(all) /\ ~(Len(all) >= 3 /\ Len(all) = Expected(all))
  <2>1. r = added
    BY <1>5, <1>10
  <2>2. Beginning(all)
    <3>1. Len(all) >= 3 => Len(all) < Expected(all)
      <4>1. Len(all) = 3 => Expected(all) >= 4
        BY <1>7, <1>10, Sizes DEF BadLength
      <4>2. Len(all) > 3 => Len(t.st.bytes) < Expected(t.st.bytes)
        BY <1>1 DEF Beginning
      <4>3. Len(all) > 3 => Expected(t.st.bytes) = Expected(all)
        BY <1>1, <1>7 DEF Expected
      <4>4. Expected(all) \in Nat
        BY Sizes DEF Expected
      <4> QED
        BY <1>1, <1>10, <4>1, <4>2, <4>3, <4>4
    <3>2. ASSUME NEW i \in 1..Len(all), i >= 3 PROVE i < Expected(all)
      BY <1>1, <3>1, <3>2, Sizes DEF Expected
    <3>3. all[1] = HEADER_0
      BY <1>1 DEF Beginning
    <3>4. Len(all) >= 2 => all[2] = HEADER_1
      <4>1. CASE size = 1
        BY <1>1, <1>2, <4>1 DEF size
      <4>2. CASE size >= 2
        BY <1>1, <4>2 DEF Beginning, size
      <4> QED
        BY <1>2, <4>1, <4>2
    <3> QED
      BY <1>1, <3>2, <3>3, <3>4 DEF Beginning
  <2>3. Grows(t, byte, r)
    BY <1>1, <1>4, <2>1 DEF Grows, all
  <2> QED
    BY <1>4, <2>1, <2>2, <2>3
<1> QED
  BY <1>8, <1>9, <1>10

\* consume_byte: the buffer stays the beginning of a frame, whatever the byte.
LEMMA Consuming ==
    ASSUME NEW t \in TaskType, NEW byte \in Byte, TypeOK, Beginning(t.st.bytes),
           NEW r, r = Consumed(t, byte)
    PROVE  /\ r \in TaskType
           /\ Beginning(r.st.bytes)
           /\ t.st.synchronized => r.st.synchronized
           /\ t.err => r.err
           /\ \/ Restarts(t, byte, r)
              \/ Grows(t, byte, r) /\ (Len(t.st.bytes) = 1 => byte = HEADER_1)
              \/ Drops(t, byte, r)
              \/ Completes(t, byte, r)
<1>1. t.st.bytes \in Seq(Byte) /\ Len(t.st.bytes) \in Nat
      /\ (t.st.bytes = <<>> <=> Len(t.st.bytes) = 0)
  BY EmptySeq, LenProperties DEF TaskType
<1>2. Beginning(<<>>) /\ Beginning(<<HEADER_0>>)
  BY BytesAssumption, EmptySeq DEF Beginning
<1>3. CASE t.st.bytes = <<>>
  BY <1>1, <1>2, <1>3, First DEF Consumed, Restarts
<1>4. CASE Len(t.st.bytes) = 1 /\ byte # HEADER_1
  <2>1. r = FirstByte(Flush(t), byte)
    BY <1>1, <1>4 DEF Consumed
  <2> DEFINE u == Flush(t)
  <2>2. /\ u \in TaskType /\ u.st.bytes = <<>>
        /\ u.got = t.got
        /\ u.st.synchronized = t.st.synchronized
        /\ t.err \/ t.st.synchronized => u.err
    BY Flushing
  <2> HIDE DEF u
  <2>3. /\ r \in TaskType
        /\ r.st.synchronized = t.st.synchronized
        /\ r.st.bytes = IF byte = HEADER_0 THEN <<HEADER_0>> ELSE <<>>
        /\ r.got = t.got
        /\ t.err \/ t.st.synchronized => r.err
    BY <2>1, <2>2, First DEF u
  <2> QED
    BY <1>2, <1>4, <2>3 DEF Restarts
<1>5. CASE Len(t.st.bytes) >= 1 /\ (Len(t.st.bytes) = 1 => byte = HEADER_1)
  <2>1. r = NextByte(t, byte)
    BY <1>1, <1>5 DEF Consumed
  <2> QED
    BY <1>5, <2>1, Following
<1> QED
  BY <1>1, <1>3, <1>4, <1>5
-----------------------------------------------------------------------------
(* The check byte                                                           *)

\* A set of numbers with zero and the successor of each of its members has all.
LEMMA AllNumbers ==
    ASSUME NEW T, 0 \in T, \A n \in Nat : n \in T => n + 1 \in T
    PROVE  Nat \subseteq T
<1> SUFFICES ASSUME ~(Nat \subseteq T) PROVE FALSE
  OBVIOUS
<1> DEFINE S == Nat \ T
<1>1. S \subseteq Nat /\ S # {}
  OBVIOUS
<1>2. PICK m \in S : \A y \in S : <<y, m>> \notin OpToRel(<, Nat)
  <2> HIDE DEF S
  <2> QED
    BY <1>1, NatLessThanWellFounded, WFMin
<1>3. m \in Nat /\ m # 0 /\ m - 1 \in Nat /\ m - 1 < m
  OBVIOUS
<1>4. <<m - 1, m>> \in OpToRel(<, Nat)
  BY <1>3 DEF OpToRel
<1>5. m - 1 \in T
  BY <1>2, <1>3, <1>4
<1>6. (m - 1) + 1 \in T
  BY <1>3, <1>5
<1> QED
  BY <1>3, <1>6

\* What the loop of ac_protocol_xor computes, after n bytes.
XorSteps(acc, bytes, n) ==
    acc = [i \in 0..n |-> IF i = 0 THEN {} ELSE Xor(acc[i - 1], bytes[i])]

\* Its value after each of them.
LEMMA XorStepsValues ==
    ASSUME NEW acc, NEW bytes, NEW n, XorSteps(acc, bytes, n), NEW i \in 0..n
    PROVE  acc[i] = IF i = 0 THEN {} ELSE Xor(acc[i - 1], bytes[i])
<1> DEFINE F(j) == IF j = 0 THEN {} ELSE Xor(acc[j - 1], bytes[j])
<1>1. acc = [j \in 0..n |-> F(j)]
  BY DEF XorSteps
<1> HIDE DEF F
<1>2. acc[i] = F(i)
  BY <1>1, Zenon
<1> QED
  BY <1>2 DEF F

\* The loop may run over any bytes.
LEMMA XorStepsExist ==
    ASSUME NEW bytes, NEW n \in Nat
    PROVE  \E acc : XorSteps(acc, bytes, n)
<1> DEFINE T == {k \in Nat : \E acc : XorSteps(acc, bytes, k)}
<1>1. 0 \in T
  <2>1. XorSteps([i \in 0..0 |-> {}], bytes, 0)
    BY DEF XorSteps
  <2> QED
    BY <2>1
<1>2. ASSUME NEW k \in Nat, k \in T PROVE k + 1 \in T
  <2>1. PICK acc : XorSteps(acc, bytes, k)
    BY <1>2
  <2> DEFINE longer == [i \in 0..(k + 1) |->
                            IF i = k + 1 THEN Xor(acc[k], bytes[k + 1]) ELSE acc[i]]
  <2>2. \A i \in 0..k : acc[i] = IF i = 0 THEN {} ELSE Xor(acc[i - 1], bytes[i])
    BY <2>1, XorStepsValues
  <2>3. /\ \A i \in 0..k : longer[i] = acc[i]
        /\ longer[k + 1] = Xor(acc[k], bytes[k + 1])
    OBVIOUS
  <2>4. longer = [i \in 0..(k + 1) |-> longer[i]]
    OBVIOUS
  <2> HIDE DEF longer
  <2>5. ASSUME NEW i \in 0..(k + 1)
        PROVE  longer[i] = IF i = 0 THEN {} ELSE Xor(longer[i - 1], bytes[i])
    <3>1. CASE i = 0
      BY <2>2, <2>3, <3>1
    <3>2. CASE i \in 1..k
      <4>1. i \in 0..k /\ i - 1 \in 0..k /\ i # 0
        BY <3>2
      <4> QED
        BY <2>2, <2>3, <4>1
    <3>3. CASE i = k + 1
      <4>1. k \in 0..k /\ i - 1 = k /\ i # 0
        BY <3>3
      <4> QED
        BY <2>3, <3>3, <4>1
    <3> QED
      BY <3>1, <3>2, <3>3
  <2>6. XorSteps(longer, bytes, k + 1)
    BY <2>4, <2>5, Zenon DEF XorSteps
  <2> QED
    BY <2>6
<1> HIDE DEF T
<1>3. n \in T
  BY <1>1, <1>2, AllNumbers
<1> QED
  BY <1>3 DEF T

\* The loop takes the bytes one by one.
LEMMA XorLoop ==
    ASSUME NEW bytes, Len(bytes) \in Nat
    PROVE  /\ XorAfter(bytes)[0] = {}
           /\ \A i \in 1..Len(bytes) :
                XorAfter(bytes)[i] = Xor(XorAfter(bytes)[i - 1], bytes[i])
<1> DEFINE acc == CHOOSE acc : XorSteps(acc, bytes, Len(bytes))
<1>1. XorAfter(bytes) = acc
  BY DEF XorAfter, XorSteps
<1>2. XorSteps(acc, bytes, Len(bytes))
  BY XorStepsExist
<1> HIDE DEF acc
<1>3. \A i \in 0..Len(bytes) :
        acc[i] = IF i = 0 THEN {} ELSE Xor(acc[i - 1], bytes[i])
  BY <1>2, XorStepsValues
<1> QED
  BY <1>1, <1>3

\* Taking the same byte in keeps two values apart, and two equal ones equal.
LEMMA XorCancels ==
    ASSUME NEW a, NEW b, NEW x, NEW y
    PROVE  /\ Xor(a, x) = Xor(b, x) => a = b
           /\ Xor(a, x) = Xor(a, y) => x = y
           /\ Xor(a, Xor(a, x)) = x
BY DEF Xor

\* Sequences that begin alike have the same values as far as they do.
LEMMA XorAgrees ==
    ASSUME NEW a, NEW b, Len(a) \in Nat, Len(b) \in Nat,
           NEW n \in Nat, n <= Len(a), n <= Len(b), \A i \in 1..n : a[i] = b[i]
    PROVE  XorAfter(a)[n] = XorAfter(b)[n]
<1> DEFINE T == {k \in Nat : k <= n => XorAfter(a)[k] = XorAfter(b)[k]}
<1>1. 0 \in T
  BY XorLoop
<1>2. ASSUME NEW k \in Nat, k \in T PROVE k + 1 \in T
  <2> SUFFICES ASSUME k + 1 <= n PROVE XorAfter(a)[k + 1] = XorAfter(b)[k + 1]
    OBVIOUS
  <2>1. k + 1 \in 1..Len(a) /\ k + 1 \in 1..Len(b) /\ (k + 1) - 1 = k
    OBVIOUS
  <2>2. /\ XorAfter(a)[k + 1] = Xor(XorAfter(a)[k], a[k + 1])
        /\ XorAfter(b)[k + 1] = Xor(XorAfter(b)[k], b[k + 1])
    BY <2>1, XorLoop
  <2> QED
    BY <1>2, <2>2
<1> HIDE DEF T
<1>3. n \in T
  BY <1>1, <1>2, AllNumbers
<1> QED
  BY <1>3 DEF T

\* One byte more.
LEMMA XorOfAppend ==
    ASSUME NEW S, NEW bytes \in Seq(S), NEW byte \in S
    PROVE  XorOf(Append(bytes, byte)) = Xor(XorOf(bytes), byte)
<1> DEFINE all  == Append(bytes, byte)
           size == Len(bytes)
<1>1. /\ size \in Nat /\ size + 1 = Len(all)
      /\ \A i \in 1..size : all[i] = bytes[i]
      /\ all[size + 1] = byte
  BY Longer
<1> HIDE DEF all, size
<1>2. XorAfter(all)[size] = XorAfter(bytes)[size]
  BY <1>1, XorAgrees DEF size
<1>3. size + 1 \in 1..Len(all) /\ (size + 1) - 1 = size
  BY <1>1
<1>4. XorAfter(all)[size + 1] = Xor(XorAfter(all)[size], all[size + 1])
  BY <1>1, <1>3, XorLoop
<1>5. XorOf(all) = XorAfter(all)[size + 1] /\ XorOf(bytes) = XorAfter(bytes)[size]
  BY <1>1 DEF XorOf, size
<1> QED
  BY <1>1, <1>2, <1>4, <1>5 DEF all

\* One changed byte changes the value.
LEMMA OneByteTells ==
    ASSUME NEW a, NEW b, NEW n \in Nat, n <= Len(a), n <= Len(b),
           Len(a) \in Nat, Len(b) \in Nat,
           NEW i \in 1..n, a[i] # b[i], \A j \in 1..n : j # i => a[j] = b[j]
    PROVE  XorAfter(a)[n] # XorAfter(b)[n]
<1> DEFINE T == {k \in Nat : i <= k /\ k <= n => XorAfter(a)[k] # XorAfter(b)[k]}
<1>1. 0 \in T
  OBVIOUS
<1>2. ASSUME NEW k \in Nat, k \in T PROVE k + 1 \in T
  <2> SUFFICES ASSUME i <= k + 1, k + 1 <= n
               PROVE  XorAfter(a)[k + 1] # XorAfter(b)[k + 1]
    OBVIOUS
  <2>1. k + 1 \in 1..Len(a) /\ k + 1 \in 1..Len(b) /\ (k + 1) - 1 = k
    OBVIOUS
  <2>2. /\ XorAfter(a)[k + 1] = Xor(XorAfter(a)[k], a[k + 1])
        /\ XorAfter(b)[k + 1] = Xor(XorAfter(b)[k], b[k + 1])
    BY <2>1, XorLoop
  <2>3. CASE i = k + 1
    <3>1. XorAfter(a)[k] = XorAfter(b)[k]
      BY <2>1, <2>3, XorAgrees
    <3> QED
      BY <2>2, <2>3, <3>1, XorCancels
  <2>4. CASE i # k + 1
    <3>1. XorAfter(a)[k] # XorAfter(b)[k] /\ a[k + 1] = b[k + 1]
      BY <1>2, <2>4
    <3> QED
      BY <2>2, <3>1, XorCancels
  <2> QED
    BY <2>3, <2>4
<1> HIDE DEF T
<1>3. n \in T
  BY <1>1, <1>2, AllNumbers
<1> QED
  BY <1>3 DEF T

\* A frame of a side: headers, length, and a check byte that closes it.
LEMMA Frames ==
    ASSUME NEW s, NEW f \in FramesOf(s)
    PROVE  /\ f \in Seq(Byte)
           /\ OwnSize(s) = Len(f)
           /\ f[1] = HEADER_0 /\ f[2] = HEADER_1 /\ f[3] = OwnLength(s)
           /\ XorOf(f) = XOR_TARGET
<1> DEFINE size == OwnSize(s) - 4
           head == <<HEADER_0, HEADER_1, OwnLength(s)>>
<1>1. size \in Nat /\ OwnLength(s) \in Byte
  BY Sizes, BytesAssumption DEF OwnLength
<1>2. PICK body \in [1..size -> Data] : f = FrameOf(s, body)
  BY DEF FramesOf
<1>3. body \in Seq(Byte) /\ size = Len(body)
  BY <1>1, <1>2, BytesAssumption
<1>4. head \in Seq(Byte) /\ Len(head) = 3
      /\ head[1] = HEADER_0 /\ head[2] = HEADER_1 /\ head[3] = OwnLength(s)
  BY <1>1, BytesAssumption
<1> DEFINE all == head \o body
<1> HIDE DEF head, size
<1>5. /\ all \in Seq(Byte) /\ 3 + size = Len(all)
      /\ all[1] = HEADER_0 /\ all[2] = HEADER_1 /\ all[3] = OwnLength(s)
  <2> DEFINE m == Len(head)
             k == Len(body)
  <2>1. m \in Nat /\ m = 3 /\ k \in Nat /\ k = size
    BY <1>1, <1>3, <1>4
  <2>2. /\ all \in Seq(Byte)
        /\ m + k = Len(all)
        /\ \A i \in 1..(m + k) : all[i] = IF i <= m THEN head[i] ELSE body[i - m]
    BY <1>3, <1>4, ConcatProperties
  <2> HIDE DEF all, m, k
  <2> QED
    BY <1>1, <1>4, <2>1, <2>2
<1> HIDE DEF all
<1> DEFINE check == Xor(XorOf(all), XOR_TARGET)
<1>6. check \in Byte
  <2> DEFINE T == {k \in Nat : k <= Len(all) => XorAfter(all)[k] \in Byte}
  <2>1. 0 \in T
    BY <1>1, <1>5, XorLoop DEF Byte
  <2>2. ASSUME NEW k \in Nat, k \in T PROVE k + 1 \in T
    <3> SUFFICES ASSUME k + 1 <= Len(all) PROVE XorAfter(all)[k + 1] \in Byte
      OBVIOUS
    <3>1. k + 1 \in 1..Len(all) /\ (k + 1) - 1 = k
      BY <1>1, <1>5
    <3>2. XorAfter(all)[k + 1] = Xor(XorAfter(all)[k], all[k + 1])
      BY <1>1, <1>5, <3>1, XorLoop
    <3>3. all[k + 1] \in Byte /\ XorAfter(all)[k] \in Byte
      BY <1>1, <1>5, <2>2, <3>1, ElementOfSeq
    <3> QED
      BY <3>2, <3>3 DEF Xor, Byte
  <2> HIDE DEF T
  <2>3. Len(all) \in T
    BY <1>1, <1>5, <2>1, <2>2, AllNumbers
  <2>4. XorOf(all) \in Byte
    BY <1>1, <1>5, <2>3 DEF T, XorOf
  <2> QED
    BY <2>4, BytesAssumption DEF Xor, Byte
<1>7. f = Append(all, check)
  BY <1>2 DEF FrameOf, all, head
<1> HIDE DEF check
<1>8. XorOf(f) = Xor(XorOf(all), check)
  BY <1>5, <1>6, <1>7, XorOfAppend
<1>9. XorOf(f) = XOR_TARGET
  BY <1>8, XorCancels DEF check
<1>10. /\ f \in Seq(Byte) /\ 4 + size = Len(f)
       /\ f[1] = HEADER_0 /\ f[2] = HEADER_1 /\ f[3] = OwnLength(s)
  BY <1>1, <1>5, <1>6, <1>7, Longer
<1> QED
  BY <1>9, <1>10, <1>1, Sizes DEF size

\* The beginnings of a sequence, one byte after the other.
LEMMA Beginnings ==
    ASSUME NEW S, NEW f \in Seq(S), NEW n \in 0..Len(f)
    PROVE  /\ SubSeq(f, 1, n) \in Seq(S)
           /\ n = Len(SubSeq(f, 1, n))
           /\ \A i \in 1..n : SubSeq(f, 1, n)[i] = f[i]
           /\ n = 0 => SubSeq(f, 1, n) = <<>>
           /\ n = Len(f) => SubSeq(f, 1, n) = f
           /\ n < Len(f) => Append(SubSeq(f, 1, n), f[n + 1]) = SubSeq(f, 1, n + 1)
<1>1. Len(f) \in Nat
  BY LenProperties
<1>2. \A i \in 1..n : f[i] \in S
  BY <1>1, ElementOfSeq
<1>3. /\ SubSeq(f, 1, n) \in Seq(S) /\ n = Len(SubSeq(f, 1, n))
      /\ \A i \in 1..n : SubSeq(f, 1, n)[i] = f[i]
  BY <1>1, <1>2, SubSeqProperties
<1>4. n = 0 => SubSeq(f, 1, n) = <<>>
  BY <1>1, SubSeqEmpty
<1>5. n = Len(f) => SubSeq(f, 1, n) = f
  BY SubSeqFull
<1>6. ASSUME n < Len(f)
      PROVE  Append(SubSeq(f, 1, n), f[n + 1]) = SubSeq(f, 1, n + 1)
  <2> DEFINE p == SubSeq(f, 1, n)
             q == SubSeq(f, 1, n + 1)
             a == Append(p, f[n + 1])
  <2>1. \A i \in 1..(n + 1) : f[i] \in S
    BY <1>1, <1>6, ElementOfSeq
  <2>2. /\ q \in Seq(S) /\ n + 1 = Len(q)
        /\ \A i \in 1..(n + 1) : q[i] = f[i]
    BY <1>1, <2>1, SubSeqProperties
  <2> HIDE DEF p, q
  <2>3. f[n + 1] \in S
    BY <1>1, <1>6, ElementOfSeq
  <2>4. /\ a \in Seq(S) /\ n + 1 = Len(a)
        /\ \A i \in 1..n : a[i] = f[i]
        /\ a[n + 1] = f[n + 1]
    BY <1>3, <2>3, Longer DEF p
  <2> HIDE DEF a
  <2>5. \A i \in 1..Len(a) : a[i] = q[i]
    BY <2>2, <2>4
  <2>6. Len(a) = Len(q)
    BY <2>2, <2>4
  <2>7. a = q
    BY <2>2, <2>4, <2>5, <2>6, SeqEqual
  <2> QED
    BY <2>7 DEF a, p, q
<1> QED
  BY <1>3, <1>4, <1>5, <1>6

-----------------------------------------------------------------------------
(* A byte at the task                                                       *)

Fate(t, byte, r) ==
    \/ Restarts(t, byte, r)
    \/ Grows(t, byte, r) /\ (Len(t.st.bytes) = 1 => byte = HEADER_1)
    \/ Drops(t, byte, r)
    \/ Completes(t, byte, r)

\* The task's variables when it reads a byte, which the mirror has carried by
\* then if it is on.
Heard(byte) == [Task EXCEPT !.out = Mirrored(byte)]

\* What the mirror carries is no other variable of the task.
LEMMA Mirroring ==
    ASSUME TypeOK, NEW byte \in Byte
    PROVE  /\ Task \in TaskType /\ Task.st = stream /\ Task.out = carried
           /\ Heard(byte) \in TaskType /\ Heard(byte).out = Mirrored(byte)
           /\ Heard(byte).st = stream /\ Heard(byte).got = Task.got
           /\ Heard(byte).err = Task.err
<1>1. Mirrored(byte) \in Seq(Byte \cup {Burst, Piece})
  BY AppendProperties DEF Mirrored, TypeOK
<1> QED
  BY <1>1 DEF Heard, Task, TaskType, TypeOK, Stream

\* What a step that consumes a byte makes of the task's variables.
LEMMA Hearing ==
    ASSUME TypeOK, NEW byte \in Byte, Consume(byte)
    PROVE  /\ Task \in TaskType /\ Task' \in TaskType
           /\ Beginning(stream.bytes) /\ Beginning(stream'.bytes)
           /\ stream.synchronized => stream'.synchronized
           /\ Fate(Task, byte, Task')
           /\ quiet' = 0
<1> DEFINE t == Heard(byte)
           r == Consumed(t, byte)
<1>1. /\ t \in TaskType /\ t.st = stream
      /\ Task \in TaskType /\ t.st = Task.st /\ t.got = Task.got /\ t.err = Task.err
  BY Mirroring
<1>2. Beginning(stream.bytes)
  BY DEF TypeOK, Beginning, Stream
<1>3. /\ stream' = r.st /\ taken' = r.got /\ errors' = r.err /\ carried' = r.out
      /\ quiet' = 0
  BY DEF Consume, Heard
<1> HIDE DEF r, t
<1>4. /\ r \in TaskType /\ Beginning(r.st.bytes)
      /\ stream.synchronized => r.st.synchronized
      /\ Fate(t, byte, r)
  BY <1>1, <1>2, Consuming DEF r, Fate
<1>5. r = [st |-> r.st, got |-> r.got, err |-> r.err, out |-> r.out]
  BY <1>4 DEF TaskType
<1>6. Task' = r
  BY <1>3, <1>5 DEF Task
<1>7. Fate(Task, byte, r)
  BY <1>1, <1>4 DEF Fate, Restarts, Grows, Drops, Completes
<1> QED
  BY <1>1, <1>2, <1>3, <1>4, <1>6, <1>7

\* A byte more at most is in the buffer; a frame handed on was in it, whole.
LEMMA Outcome ==
    ASSUME NEW t \in TaskType, NEW r \in TaskType, NEW byte \in Byte,
           Fate(t, byte, r), TypeOK
    PROVE  /\ Len(t.st.bytes) \in Nat /\ Len(r.st.bytes) \in Nat
           /\ Len(r.st.bytes) <= Len(t.st.bytes) + 1
           /\ r.got # t.got =>
                /\ r.st.bytes = <<>>
                /\ r.got = Append(t.st.bytes, byte)
                /\ Len(t.st.bytes) + 1 >= SizeOf(PANEL_LENGTH)
                /\ OwnSize(side) = Len(r.got)
                /\ XorOf(r.got) = XOR_TARGET
<1>1. /\ t.st.bytes \in Seq(Byte) /\ r.st.bytes \in Seq(Byte)
      /\ Len(t.st.bytes) \in Nat /\ Len(r.st.bytes) \in Nat
  BY LenProperties DEF TaskType
<1>2. CASE Restarts(t, byte, r)
  BY <1>1, <1>2, EmptySeq DEF Restarts
<1>3. CASE Grows(t, byte, r)
  BY <1>1, <1>3, Longer DEF Grows
<1>4. CASE Drops(t, byte, r)
  BY <1>1, <1>4, EmptySeq DEF Drops
<1>5. CASE Completes(t, byte, r)
  <2> DEFINE all == Append(t.st.bytes, byte)
  <2>1. Len(t.st.bytes) + 1 = Len(all)
    BY <1>1, Longer
  <2>2. /\ r.st.bytes = <<>>
        /\ r.got = IF ChecksumValid(all) /\ Len(all) = OwnSize(side)
                   THEN all ELSE t.got
    BY <1>5 DEF Completes
  <2> HIDE DEF all
  <2>3. OwnSize(side) >= SizeOf(PANEL_LENGTH) /\ OwnSize(side) \in Nat
    BY Sizes
  <2>4. ASSUME r.got # t.got
        PROVE  r.got = all /\ XorOf(all) = XOR_TARGET /\ OwnSize(side) = Len(all)
    BY <2>2, <2>4 DEF ChecksumValid
  <2>5. Len(r.st.bytes) = 0
    BY <2>2, EmptySeq
  <2> QED
    BY <1>1, <2>1, <2>2, <2>3, <2>4, <2>5, Sizes DEF all
<1> QED
  BY <1>2, <1>3, <1>4, <1>5 DEF Fate

\* The next byte of a frame, in a buffer that has the frame so far.
LEMMA NextOfFrame ==
    ASSUME TypeOK, NEW t \in TaskType, NEW r \in TaskType, NEW f \in FramesOf(side),
           NEW n \in 0..(OwnSize(side) - 1), Fate(t, f[n + 1], r),
           Beginning(r.st.bytes),
           n = 0 => t.st.bytes \in {<<>>, <<HEADER_0>>},
           n > 0 => t.st.bytes = SubSeq(f, 1, n)
    PROVE  /\ n + 1 < OwnSize(side) =>
                r.st.bytes = SubSeq(f, 1, n + 1) /\ r.got = t.got
           /\ n + 1 = OwnSize(side) => r.st.bytes = <<>> /\ r.got = f
<1> DEFINE all == Append(t.st.bytes, f[n + 1])
           own == OwnSize(side)
           m   == Len(t.st.bytes)
<1>1. /\ f \in Seq(Byte) /\ own = Len(f) /\ XorOf(f) = XOR_TARGET
      /\ f[1] = HEADER_0 /\ f[2] = HEADER_1 /\ f[3] = OwnLength(side)
  BY Frames
<1>2. own \in Nat /\ own >= 4 /\ HEADER_0 # HEADER_1 /\ SizeOf(f[3]) = own
  BY <1>1, Sizes, BytesAssumption DEF OwnSize
<1>3. n \in 0..Len(f) /\ n < Len(f) /\ n \in Nat
  BY <1>1, <1>2
<1>4. n = 0 => f[n + 1] = HEADER_0 /\ SubSeq(f, 1, n + 1) = <<HEADER_0>>
  <2> SUFFICES ASSUME n = 0 PROVE SubSeq(f, 1, 1) = <<f[1]>>
    BY <1>1
  <2>1. 1 \in 0..Len(f) /\ f[1] \in Byte
    BY <1>1, <1>2, BytesAssumption
  <2> DEFINE p == SubSeq(f, 1, 1)
  <2>2. p \in Seq(Byte) /\ 1 = Len(p) /\ p[1] = f[1]
    BY <1>1, <2>1, Beginnings
  <2> HIDE DEF p
  <2>3. p = <<f[1]>>
    BY <2>1, <2>2
  <2> QED
    BY <2>3 DEF p
<1>5. n > 0 => all = SubSeq(f, 1, n + 1) /\ m = n
  BY <1>1, <1>3, Beginnings
<1>6. n > 0 => n + 1 = Len(all) /\ (n >= 2 => all[3] = f[3])
  <2> SUFFICES ASSUME n > 0 PROVE n + 1 = Len(all) /\ (n >= 2 => all[3] = f[3])
    OBVIOUS
  <2>1. n + 1 \in 0..Len(f)
    BY <1>1, <1>3
  <2> QED
    BY <1>1, <1>3, <1>5, <2>1, Beginnings
<1>7. n >= 2 => Expected(all) = own
  <2> HIDE DEF all, own
  <2> QED
    BY <1>2, <1>3, <1>6 DEF Expected
<1>8. n = 0 => m <= 1
  <2>1. Len(<<>>) <= 1
    OBVIOUS
  <2>2. Len(<<HEADER_0>>) <= 1
    OBVIOUS
  <2> QED
    BY <2>1, <2>2
<1> HIDE DEF all, own, m
<1>9. CASE Restarts(t, f[n + 1], r)
  <2>1. m <= 1 /\ (m = 1 => f[n + 1] # HEADER_1)
    BY <1>9 DEF Restarts, m
  <2>2. n = 0
    BY <1>1, <1>3, <1>5, <2>1
  <2> QED
    BY <1>2, <1>4, <1>9, <2>2 DEF Restarts, own
<1>10. CASE Grows(t, f[n + 1], r) /\ (Len(t.st.bytes) = 1 => f[n + 1] = HEADER_1)
  <2>1. m >= 1 /\ (m = 1 => f[n + 1] = HEADER_1) /\ r.st.bytes = all /\ r.got = t.got
    BY <1>10 DEF Grows, m, all
  <2>2. n # 0
    <3>1. n = 0 => m = 1
      BY <1>8, <2>1, LenProperties DEF m, TaskType
    <3> QED
      BY <1>2, <1>4, <2>1, <3>1
  <2>3. n + 1 # own
    <3> SUFFICES ASSUME n + 1 = own PROVE FALSE
      OBVIOUS
    <3>1. n + 1 \in DOMAIN all /\ n + 1 >= 3
      BY <1>2, <1>3, <1>6, <2>1, <2>2, LenProperties DEF Beginning
    <3>2. n + 1 < Expected(all)
      BY <2>1, <3>1 DEF Beginning
    <3> QED
      BY <1>2, <1>3, <1>7, <3>1, <3>2
  <2> QED
    BY <1>3, <1>5, <2>1, <2>2, <2>3 DEF own
<1>11. CASE Drops(t, f[n + 1], r)
  <2>1. m = 2 /\ SizeOf(f[n + 1]) = 0
    BY <1>11 DEF Drops, m
  <2>2. n = 2
    BY <1>3, <1>5, <1>8, <2>1
  <2> QED
    BY <1>2, <2>1, <2>2
<1>12. CASE Completes(t, f[n + 1], r)
  <2>1. /\ m >= 2 /\ Len(all) = Expected(all) /\ r.st.bytes = <<>>
        /\ r.got = IF ChecksumValid(all) /\ Len(all) = OwnSize(side)
                   THEN all ELSE t.got
    BY <1>12 DEF Completes, m, all
  <2>2. n >= 2
    <3>1. n # 0
      BY <1>8, <2>1, LenProperties DEF m, TaskType
    <3> QED
      BY <1>3, <1>5, <2>1, <3>1
  <2>3. own = n + 1
    BY <1>3, <1>6, <1>7, <2>1, <2>2
  <2>4. all = f
    <3>1. SubSeq(f, 1, own) = f
      BY <1>1, SubSeqFull
    <3>2. n > 0
      BY <1>3, <2>2
    <3> QED
      BY <1>5, <2>3, <3>1, <3>2
  <2>5. ChecksumValid(all) /\ Len(all) = OwnSize(side)
    BY <1>1, <2>1, <2>4 DEF ChecksumValid, own
  <2> QED
    BY <1>2, <1>3, <2>1, <2>3, <2>4, <2>5 DEF own
<1> QED
  BY <1>9, <1>10, <1>11, <1>12 DEF Fate

-----------------------------------------------------------------------------
(* Types *)

\* The numbers of the present state.
LEMMA Numbers ==
    ASSUME TypeOK
    PROVE  /\ side \in {"panel", "main"}
           /\ OwnSize(side) \in Nat /\ OwnSize(side) >= SizeOf(PANEL_LENGTH)
           /\ SizeOf(PANEL_LENGTH) \in Nat /\ SizeOf(PANEL_LENGTH) >= 4
           /\ line.frame \in FramesOf(side)
           /\ line.sent \in 0..OwnSize(side) /\ line.silent \in 0..Gap
           /\ line = [frame |-> line.frame, sent |-> line.sent, silent |-> line.silent]
           /\ quiet \in 0..(Timeout + Late)
           /\ faults \in 0..MaxFaults /\ damage \in Damage
           /\ {Timeout, Late, Gap, MaxFaults} \subseteq Nat
           /\ Timeout > 0 /\ Late > 0 /\ Gap > Timeout + Late
           /\ Beginning(stream.bytes) /\ Len(stream.bytes) \in Nat
           /\ (stream.bytes = <<>> <=> Len(stream.bytes) = 0)
<1>1. Beginning(stream.bytes)
  BY DEF TypeOK, Beginning, Stream
<1>2. Len(stream.bytes) \in Nat /\ (stream.bytes = <<>> <=> Len(stream.bytes) = 0)
  BY <1>1, LenProperties, EmptySeq DEF Beginning
<1> QED
  BY <1>1, <1>2, Sizes, GapAssumption DEF TypeOK

\* The bytes on the line are bytes.
LEMMA FrameBytes ==
    ASSUME TypeOK, ~Between
    PROVE  line.frame[line.sent + 1] \in Byte /\ line.sent \in 0..(OwnSize(side) - 1)
<1>1. line.frame \in Seq(Byte) /\ OwnSize(side) = Len(line.frame)
  BY Numbers, Frames
<1>2. line.sent + 1 \in 1..Len(line.frame) /\ line.sent \in 0..(OwnSize(side) - 1)
  BY <1>1, Numbers DEF Between
<1> QED
  BY <1>1, <1>2, ElementOfSeq

\* The task's variables keep their types when it consumes a byte.
LEMMA ConsumeTypes ==
    ASSUME TypeOK, NEW byte \in Byte, Consume(byte)
    PROVE  /\ stream' \in Stream /\ Beginning(stream'.bytes)
           /\ taken' \in Seq(Byte) /\ errors' \in BOOLEAN /\ quiet' = 0
           /\ carried' \in Seq(Byte \cup {Burst, Piece})
BY Hearing DEF Task, TaskType, Stream

Line(s) == [frame : FramesOf(s), sent : 0..OwnSize(s), silent : 0..Gap]

\* The sender's next byte.
LEMMA Advancing ==
    ASSUME TypeOK, ~Between, Advance
    PROVE  /\ line' \in Line(side)
           /\ line'.frame = line.frame /\ line'.sent = line.sent + 1
           /\ line'.silent = 0
<1>1. line \in Line(side) /\ OwnSize(side) \in Nat /\ Gap \in Nat
  BY Numbers DEF TypeOK, Line
<1>2. line.sent + 1 \in 0..OwnSize(side)
  BY Numbers DEF Between
<1>3. line' = [line EXCEPT !.sent = line.sent + 1, !.silent = 0]
  BY DEF Advance
<1> DEFINE N    == 0..OwnSize(side)
           R    == FramesOf(side)
           next == line.sent + 1
<1>4. /\ line \in [frame : R, sent : N, silent : 0..Gap] /\ next \in N /\ 0 \in 0..Gap
      /\ line' = [line EXCEPT !.sent = next, !.silent = 0]
  BY <1>1, <1>2, <1>3 DEF Line
<1> HIDE DEF N, R, next
<1>5. line' \in [frame : R, sent : N, silent : 0..Gap]
  BY <1>4
<1>6. line'.frame = line.frame /\ line'.sent = next /\ line'.silent = 0
  BY <1>4
<1> QED
  BY <1>5, <1>6 DEF N, R, next, Line

\* Every step keeps the types.
LEMMA TypesStay == TypeOK /\ FaultsInv /\ [Next]_vars => TypeOK'
<1> SUFFICES ASSUME TypeOK, FaultsInv, [Next]_vars PROVE TypeOK'
  OBVIOUS
<1>0. /\ OwnSize(side) \in Nat /\ OwnSize(side) >= 4
      /\ line.frame \in FramesOf(side)
      /\ line.sent \in 0..OwnSize(side) /\ line.silent \in 0..Gap
      /\ quiet \in 0..(Timeout + Late) /\ faults \in 0..MaxFaults
      /\ Timeout \in Nat /\ Late \in Nat /\ Gap \in Nat /\ MaxFaults \in Nat
      /\ Late > 0
      /\ line \in Line(side)
  BY Numbers DEF TypeOK, Line
<1>1. /\ damage.hits \in Nat /\ damage.hits <= faults
      /\ damage.added \in Nat /\ damage.added <= faults
      /\ damage.noise \in Nat /\ damage.noise <= faults
      /\ damage \in Damage
  BY <1>0 DEF FaultsInv, TypeOK, Damage
<1>2. /\ <<>> \in Seq(Byte) /\ <<>> \in Seq(Byte \cup {Burst, Piece})
      /\ DOMAIN <<>> = {}
  BY EmptySeq
<1>3. ASSUME NEW byte \in Byte, Consume(byte), Advance \/ UNCHANGED line,
             ~Between \/ UNCHANGED line, UNCHANGED <<side, mirror, ready>>,
             faults' \in 0..MaxFaults, damage' \in Damage
      PROVE  TypeOK'
  <2>1. /\ stream' \in Stream /\ Beginning(stream'.bytes)
        /\ taken' \in Seq(Byte) /\ errors' \in BOOLEAN /\ quiet' = 0
        /\ carried' \in Seq(Byte \cup {Burst, Piece})
    BY <1>3, ConsumeTypes
  <2>2. line' \in Line(side)
    BY <1>0, <1>3, Advancing
  <2> QED
    <3>1. \A i \in DOMAIN stream'.bytes :
            /\ i = 1 => stream'.bytes[i] = HEADER_0
            /\ i = 2 => stream'.bytes[i] = HEADER_1
            /\ i >= 3 => i < Expected(stream'.bytes)
      BY <2>1 DEF Beginning
    <3>2. side' = side /\ mirror' = mirror /\ ready' = ready /\ quiet' \in 0..(Timeout + Late)
      BY <1>0, <1>3, <2>1
    <3> QED
      BY <1>3, <2>1, <2>2, <3>1, <3>2 DEF TypeOK, Line
<1>4. ASSUME NEW frame \in FramesOf(side), FrameBegins(frame) PROVE TypeOK'
  <2>1. damage' \in Damage
    BY <1>0, <1>4, <1>1 DEF FrameBegins, Damage, TypeOK, Stream
  <2>2. line' \in Line(side)
    BY <1>0, <1>4 DEF FrameBegins, Line
  <2> QED
    BY <1>2, <1>4, <2>1, <2>2 DEF FrameBegins, TypeOK, Line, NoFrame
<1>5. CASE ByteArrives
  <2>1. damage' \in Damage
    BY <1>5, <1>1 DEF ByteArrives, Damage
  <2> QED
    BY <1>3, <1>5, <2>1, FrameBytes DEF ByteArrives, TypeOK
<1>6. faults < MaxFaults => Hit \in Damage
  BY <1>0, <1>1 DEF Hit, Damage
<1>7. CASE ByteLost
  <2>1. damage' \in Damage /\ faults' \in 0..MaxFaults
    BY <1>0, <1>6, <1>7 DEF ByteLost, Fault
  <2>2. line' \in Line(side)
    BY <1>7, Advancing DEF ByteLost
  <2> QED
    BY <1>7, <2>1, <2>2 DEF ByteLost, Fault, taskVars, TypeOK, Line
<1>8. ASSUME NEW byte \in Byte, ByteChanged(byte) PROVE TypeOK'
  <2>1. damage' \in Damage /\ faults' \in 0..MaxFaults
    <3>1. faults < MaxFaults /\ faults' = faults + 1
          /\ damage' = [Hit EXCEPT !.heard = TRUE]
      BY <1>8 DEF ByteChanged, Fault
    <3>2. faults' \in 0..MaxFaults
      BY <1>0, <3>1
    <3>3. Hit \in Damage
      BY <1>6, <3>1
    <3>4. damage' \in Damage
      BY <3>1, <3>3 DEF Damage
    <3> QED
      BY <3>2, <3>4
  <2> QED
    BY <1>3, <1>8, <2>1 DEF ByteChanged, Fault
<1>9. ASSUME NEW byte \in Byte, ByteAdded(byte) PROVE TypeOK'
  <2>1. faults' \in 0..MaxFaults
    BY <1>0, <1>9 DEF ByteAdded, Fault
  <2>2. damage' \in Damage
    BY <1>0, <1>9, <1>1 DEF ByteAdded, Fault, Damage
  <2> QED
    BY <1>3, <1>9, <2>1, <2>2 DEF ByteAdded, Fault
<1>10. CASE Pause
  <2>1. damage' \in Damage /\ faults' \in 0..MaxFaults
    BY <1>0, <1>6, <1>10 DEF Pause, Fault
  <2> QED
    BY <1>0, <1>10, <2>1 DEF Pause, Fault, taskVars, TypeOK
<1>11. CASE Tick
  <2>1. line' \in Line(side)
    BY <1>0, <1>11 DEF Tick, Line
  <2>2. quiet' \in 0..(Timeout + Late)
    BY <1>0, <1>11 DEF Tick
  <2> QED
    BY <1>11, <2>1, <2>2 DEF Tick, taskVars, TypeOK, Line
<1>12. CASE TimedOut
  <2>1. /\ Task \in TaskType /\ Task.st = stream
    BY DEF Task, TaskType, TypeOK, Stream
  <2>2. stream' \in Stream /\ stream'.bytes = <<>> /\ errors' \in BOOLEAN
    BY <1>12, <2>1, Flushing DEF TimedOut, TaskType, Stream
  <2> QED
    BY <1>2, <1>12, <2>2 DEF TimedOut, TypeOK
<1>13. CASE TakeoverGate \/ TakeoverCommit \/ CommandEnds \/ MirrorReturns
  <2>1. damage' \in Damage
    <3>1. \/ damage' = damage
          \/ damage' = [damage EXCEPT !.back = line.sent]
          \/ damage' = [damage EXCEPT !.back = damage.back]
      BY <1>13 DEF TakeoverGate, TakeoverCommit, CommandEnds, MirrorReturns
    <3>2. line.sent \in Nat /\ damage.back \in Nat
      BY <1>0, <1>1 DEF Damage
    <3> QED
      BY <1>1, <3>1, <3>2 DEF Damage
  <2> QED
    BY <1>13, <2>1 DEF TakeoverGate, TakeoverCommit, CommandEnds, MirrorReturns,
                       SetTakeover, taskVars, TypeOK
<1>14. CASE UNCHANGED vars
  BY <1>14 DEF vars, TypeOK
<1> QED
  BY <1>4, <1>5, <1>7, <1>8, <1>9, <1>10, <1>11, <1>12, <1>13, <1>14 DEF Next

\* A stream starts empty, and the sender anywhere in a frame.
LEMMA TypesHold == Init => TypeOK
<1> SUFFICES ASSUME Init PROVE TypeOK
  OBVIOUS
<1>1. <<>> \in Seq(Byte) /\ <<>> \in Seq(Byte \cup {Burst, Piece}) /\ DOMAIN <<>> = {}
  BY EmptySeq
<1>2. stream \in Stream /\ stream.bytes = <<>>
  BY <1>1 DEF Init, Stream
<1>3. PICK frame \in FramesOf(side), sent \in 0..OwnSize(side) :
        /\ line = [frame |-> frame, sent |-> sent, silent |-> 0]
        /\ damage = [hits |-> 0, added |-> 0, noise |-> 0, joined |-> sent > 0,
                     heard |-> FALSE, counting |-> FALSE, back |-> 0]
  BY DEF Init
<1>4. damage \in Damage
  BY <1>3, GapAssumption DEF Damage
<1>5. line \in Line(side)
  BY <1>3, GapAssumption DEF Line
<1>6. side \in {"panel", "main"} /\ taken \in Seq(Byte) /\ carried = <<>>
      /\ quiet \in 0..(Timeout + Late) /\ faults \in 0..MaxFaults
      /\ errors \in BOOLEAN /\ mirror \in BOOLEAN /\ ready \in BOOLEAN
  <2>1. 0 \in 0..(Timeout + Late) /\ 0 \in 0..MaxFaults
    BY GapAssumption
  <2> QED
    BY <1>1, <2>1 DEF Init, NoFrame
<1> QED
  BY <1>1, <1>2, <1>4, <1>5, <1>6 DEF TypeOK, Line

-----------------------------------------------------------------------------
(* The steps, field by field                                                *)

\* A fault inside a frame.
LEMMA Hitting ==
    ASSUME TypeOK, damage' \in {Hit, [Hit EXCEPT !.heard = TRUE]}
    PROVE  /\ damage'.hits = damage.hits + 1
           /\ damage'.added = damage.added /\ damage'.noise = damage.noise
           /\ damage'.joined = damage.joined
           /\ damage'.counting = damage.counting /\ damage'.back = damage.back
           /\ damage' = Hit => damage'.heard = damage.heard
           /\ damage.hits \in Nat /\ damage'.hits > 0
<1>1. damage \in Damage /\ damage.hits \in Nat
  BY Numbers DEF Damage
<1>2. damage' = [damage EXCEPT !.hits = damage.hits + 1]
      \/ damage' = [damage EXCEPT !.hits = damage.hits + 1, !.heard = TRUE]
  BY <1>1 DEF Hit, Damage
<1>3. /\ damage'.hits = damage.hits + 1
      /\ damage'.added = damage.added /\ damage'.noise = damage.noise
      /\ damage'.joined = damage.joined
      /\ damage'.counting = damage.counting /\ damage'.back = damage.back
  BY <1>1, <1>2 DEF Damage
<1>4. damage' = Hit => damage'.heard = damage.heard
  BY <1>1 DEF Hit, Damage
<1> QED
  BY <1>1, <1>3, <1>4

\* What a frame beginning changes.
LEMMA Begins ==
    ASSUME TypeOK, NEW frame \in FramesOf(side), FrameBegins(frame)
    PROVE  /\ Between /\ line.silent = Gap
           /\ line'.frame = frame /\ line'.sent = 0 /\ line'.silent = 0
           /\ ~Between' /\ ~Within' /\ OwnSize(side)' = OwnSize(side)
           /\ damage'.hits = 0 /\ damage'.added = 0 /\ damage'.noise = 0
           /\ ~damage'.joined => damage.noise = 0 \/ (damage.noise = 1 /\ ~Harmed)
           /\ ~damage'.heard
           /\ damage'.counting = stream.synchronized /\ damage'.back = 0
           /\ taken' = NoFrame /\ errors' = FALSE /\ carried' = <<>>
           /\ UNCHANGED <<side, stream, quiet, mirror, ready, faults>>
<1>1. side' = side
  BY DEF FrameBegins
<1>2. OwnSize(side)' = OwnSize(side)
  BY <1>1
<1>3. damage.noise \in Nat
  BY Numbers DEF Damage
<1>4. /\ Between /\ line.silent = Gap
      /\ line'.frame = frame /\ line'.sent = 0 /\ line'.silent = 0
      /\ taken' = NoFrame /\ errors' = FALSE /\ carried' = <<>>
      /\ UNCHANGED <<side, stream, quiet, mirror, ready, faults>>
  BY DEF FrameBegins
<1>5. ~Between' /\ ~Within'
  BY <1>2, <1>4, Numbers DEF Between, Within
<1>6. /\ damage'.hits = 0 /\ damage'.added = 0 /\ damage'.noise = 0
      /\ damage'.joined = (damage.noise > 1 \/ (damage.noise = 1 /\ Harmed))
      /\ ~damage'.heard
      /\ damage'.counting = stream.synchronized /\ damage'.back = 0
  BY DEF FrameBegins
<1>7. ~damage'.joined => damage.noise = 0 \/ (damage.noise = 1 /\ ~Harmed)
  <2>1. ~damage'.joined => ~(damage.noise > 1) /\ ~(damage.noise = 1 /\ Harmed)
    BY <1>6, Zenon
  <2> HIDE DEF Harmed
  <2> QED
    BY <1>3, <2>1
<1> QED
  BY <1>2, <1>4, <1>5, <1>6, <1>7

\* A byte of the frame reaches the task.
LEMMA Arrives ==
    ASSUME TypeOK, ByteArrives
    PROVE  /\ ~Between /\ Consume(line.frame[line.sent + 1])
           /\ line.frame[line.sent + 1] \in Byte /\ line.sent \in 0..(OwnSize(side) - 1)
           /\ line'.frame = line.frame /\ line'.sent = line.sent + 1 /\ line'.silent = 0
           /\ damage' = [damage EXCEPT !.heard = TRUE]
           /\ damage'.hits = damage.hits /\ damage'.added = damage.added
           /\ damage'.noise = damage.noise /\ damage'.joined = damage.joined
           /\ damage'.counting = damage.counting /\ damage'.back = damage.back
           /\ UNCHANGED <<side, mirror, ready, faults>>
<1>1. /\ ~Between /\ Consume(line.frame[line.sent + 1]) /\ Advance
      /\ damage' = [damage EXCEPT !.heard = TRUE]
      /\ UNCHANGED <<side, mirror, ready, faults>>
  BY DEF ByteArrives
<1>2. line'.frame = line.frame /\ line'.sent = line.sent + 1 /\ line'.silent = 0
  BY <1>1, Advancing
<1>3. /\ damage'.hits = damage.hits /\ damage'.added = damage.added
      /\ damage'.noise = damage.noise /\ damage'.joined = damage.joined
      /\ damage'.counting = damage.counting /\ damage'.back = damage.back
  BY <1>1, Numbers DEF Damage
<1> QED
  BY <1>1, <1>2, <1>3, FrameBytes

\* A byte of the frame is lost, or another one takes its place.
LEMMA LostOrChanged ==
    ASSUME TypeOK, NEW byte \in Byte, ByteLost \/ ByteChanged(byte)
    PROVE  /\ ~Between /\ line.sent \in 0..(OwnSize(side) - 1)
           /\ line'.frame = line.frame /\ line'.sent = line.sent + 1 /\ line'.silent = 0
           /\ damage'.hits = damage.hits + 1 /\ damage.hits \in Nat /\ damage'.hits > 0
           /\ damage'.added = damage.added /\ damage'.noise = damage.noise
           /\ damage'.joined = damage.joined
           /\ damage'.counting = damage.counting /\ damage'.back = damage.back
           /\ ByteLost => UNCHANGED <<stream, taken, errors, carried, quiet>>
                          /\ damage'.heard = damage.heard
           /\ ByteChanged(byte) => Consume(byte) /\ byte # line.frame[line.sent + 1]
           /\ UNCHANGED <<side, mirror, ready>> /\ faults' = faults + 1
<1>1. /\ ~Between /\ Advance /\ damage' \in {Hit, [Hit EXCEPT !.heard = TRUE]}
      /\ ByteLost => damage' = Hit
      /\ UNCHANGED <<side, mirror, ready>> /\ faults' = faults + 1
  BY DEF ByteLost, ByteChanged, Fault
<1>2. line'.frame = line.frame /\ line'.sent = line.sent + 1 /\ line'.silent = 0
  BY <1>1, Advancing
<1>3. /\ damage'.hits = damage.hits + 1
      /\ damage'.added = damage.added /\ damage'.noise = damage.noise
      /\ damage'.joined = damage.joined
      /\ damage'.counting = damage.counting /\ damage'.back = damage.back
      /\ damage' = Hit => damage'.heard = damage.heard
      /\ damage.hits \in Nat /\ damage'.hits > 0
  BY <1>1, Hitting
<1>4. ByteLost => UNCHANGED <<stream, taken, errors, carried, quiet>>
  BY DEF ByteLost, taskVars
<1>5. ByteChanged(byte) => Consume(byte) /\ byte # line.frame[line.sent + 1]
  BY DEF ByteChanged
<1> QED
  BY <1>1, <1>2, <1>3, <1>4, <1>5, FrameBytes

\* A byte is added.
LEMMA Adds ==
    ASSUME TypeOK, NEW byte \in Byte, ByteAdded(byte)
    PROVE  /\ Within \/ Between
           /\ Consume(byte)
           /\ damage' = IF Within THEN [damage EXCEPT !.added = @ + 1]
                        ELSE [damage EXCEPT !.noise = @ + 1]
           /\ damage.added \in Nat /\ damage.noise \in Nat
           /\ Within => ~Between /\ damage'.added = damage.added + 1
                        /\ damage'.noise = damage.noise
           /\ Between => ~Within /\ damage'.noise = damage.noise + 1
                         /\ damage'.added = damage.added
           /\ damage'.hits = damage.hits /\ damage'.joined = damage.joined
           /\ damage'.heard = damage.heard
           /\ damage'.counting = damage.counting /\ damage'.back = damage.back
           /\ UNCHANGED <<side, line, mirror, ready>> /\ faults' = faults + 1
<1>1. /\ Within \/ Between
      /\ Consume(byte)
      /\ UNCHANGED <<side, line, mirror, ready>> /\ faults' = faults + 1
      /\ damage' = IF Within THEN [damage EXCEPT !.added = damage.added + 1]
                   ELSE [damage EXCEPT !.noise = damage.noise + 1]
  BY DEF ByteAdded, Fault
<1>2. Within => ~Between
  BY Numbers DEF Within, Between
<1>3. damage \in Damage /\ damage.added \in Nat /\ damage.noise \in Nat
  BY Numbers DEF Damage
<1>4. CASE Within
  <2>1. damage' = [damage EXCEPT !.added = damage.added + 1]
    BY <1>1, <1>4
  <2> QED
    BY <1>1, <1>2, <1>3, <1>4, <2>1 DEF Damage
<1>5. CASE ~Within
  <2>1. damage' = [damage EXCEPT !.noise = damage.noise + 1]
    BY <1>1, <1>5
  <2> QED
    BY <1>1, <1>2, <1>3, <1>5, <2>1 DEF Damage
<1> QED
  BY <1>4, <1>5

\* The sender pauses.
LEMMA Pauses ==
    ASSUME TypeOK, Pause
    PROVE  /\ Within /\ ~Between
           /\ damage'.hits = damage.hits + 1 /\ damage.hits \in Nat /\ damage'.hits > 0
           /\ damage'.added = damage.added /\ damage'.noise = damage.noise
           /\ damage'.joined = damage.joined /\ damage'.heard = damage.heard
           /\ damage'.counting = damage.counting /\ damage'.back = damage.back
           /\ UNCHANGED <<side, stream, taken, errors, carried, line, mirror, ready>>
           /\ faults' = faults + 1
<1>1. /\ Within /\ damage' = Hit /\ faults' = faults + 1
      /\ UNCHANGED <<side, stream, taken, errors, carried, line, mirror, ready>>
  BY DEF Pause, Fault, taskVars
<1>2. ~Between
  BY <1>1, Numbers DEF Within, Between
<1> QED
  BY <1>1, <1>2, Hitting

\* The clock.
LEMMA Ticks ==
    ASSUME TypeOK, Tick
    PROVE  /\ Between /\ ~Within
           /\ stream.bytes # <<>> => quiet' = quiet + 1
           /\ quiet' >= quiet
           /\ line'.frame = line.frame /\ line'.sent = line.sent
           /\ line'.silent <= line.silent + 1
           /\ UNCHANGED <<side, stream, taken, errors, carried, mirror, ready,
                          faults, damage>>
<1>1. /\ Between /\ (stream.bytes # <<>> => quiet < Timeout + Late)
      /\ quiet' = IF quiet < Timeout + Late THEN quiet + 1 ELSE quiet
      /\ line' = [line EXCEPT !.silent = IF line.silent < Gap THEN line.silent + 1
                                         ELSE line.silent]
      /\ UNCHANGED <<side, stream, taken, errors, carried, mirror, ready, faults, damage>>
  BY DEF Tick, taskVars
<1>2. ~Within
  BY <1>1, Numbers DEF Within, Between
<1>3. line \in Line(side)
  BY DEF TypeOK, Line
<1>4. line'.frame = line.frame /\ line'.sent = line.sent
      /\ line'.silent = IF line.silent < Gap THEN line.silent + 1 ELSE line.silent
  BY <1>1, <1>3 DEF Line
<1>5. line.silent \in Nat
  BY Numbers
<1> QED
  BY <1>1, <1>2, <1>4, <1>5, Numbers

\* The task ends what a silence has cut off.
LEMMA TimesOut ==
    ASSUME TypeOK, TimedOut
    PROVE  /\ stream.bytes # <<>> /\ quiet > Timeout
           /\ stream' \in Stream /\ stream'.bytes = <<>>
           /\ stream'.synchronized = stream.synchronized
           /\ stream'.overlayValid = stream.overlayValid
           /\ stream'.burstSent = stream.burstSent
           /\ errors' = (errors \/ stream.synchronized)
           /\ UNCHANGED <<side, taken, carried, quiet, mirror, ready, line, faults, damage>>
<1>1. Task \in TaskType /\ Task.st = stream /\ Task.err = errors
  BY DEF Task, TaskType, TypeOK, Stream
<1>2. stream' = Flush(Task).st /\ errors' = Flush(Task).err
  BY DEF TimedOut
<1>3. /\ stream' \in Stream /\ stream'.bytes = <<>>
      /\ stream'.synchronized = stream.synchronized
      /\ stream'.overlayValid = stream.overlayValid
      /\ stream'.burstSent = stream.burstSent
      /\ errors' = (errors \/ stream.synchronized)
  BY <1>1, <1>2, Flushing DEF TaskType, Stream
<1> QED
  BY <1>3 DEF TimedOut

\* The command path, as the stream sees it.
Commands == TakeoverGate \/ TakeoverCommit \/ CommandEnds \/ MirrorReturns

\* The command path leaves the line and what the task heard alone.
LEMMA CommandSteps ==
    ASSUME TypeOK, Commands
    PROVE  /\ UNCHANGED <<side, stream, taken, errors, carried, quiet, line, faults>>
           /\ damage'.hits = damage.hits /\ damage'.added = damage.added
           /\ damage'.noise = damage.noise /\ damage'.joined = damage.joined
           /\ damage'.heard = damage.heard /\ damage'.counting = damage.counting
<1>1. /\ UNCHANGED <<side, stream, taken, errors, carried, quiet, line, faults>>
      /\ damage' = damage
         \/ damage' = [damage EXCEPT !.back = IF Within THEN line.sent ELSE damage.back]
  BY DEF Commands, TakeoverGate, TakeoverCommit, CommandEnds, MirrorReturns,
         SetTakeover, taskVars
<1> QED
  BY <1>1, Numbers DEF Damage

-----------------------------------------------------------------------------
(* Faults and silence *)

\* A step does what one of the lemmas above says.
LEMMA Cases ==
    ASSUME [Next]_vars
    PROVE  \/ \E frame \in FramesOf(side) : FrameBegins(frame)
           \/ ByteArrives
           \/ \E byte \in Byte : ByteLost \/ ByteChanged(byte)
           \/ \E byte \in Byte : ByteAdded(byte)
           \/ Pause \/ Tick \/ TimedOut \/ Commands
           \/ UNCHANGED vars
<1>1. HEADER_0 \in Byte
  BY BytesAssumption
<1> QED
  BY <1>1 DEF Next, Commands

\* Every step keeps count of the faults.
LEMMA FaultsStay == TypeOK /\ FaultsInv /\ [Next]_vars => FaultsInv'
<1> SUFFICES ASSUME TypeOK, FaultsInv, [Next]_vars PROVE FaultsInv'
  OBVIOUS
<1>0. /\ damage.hits \in Nat /\ damage.added \in Nat /\ damage.noise \in Nat
      /\ faults \in Nat /\ line.sent \in Nat
      /\ damage.hits <= faults /\ damage.added <= faults /\ damage.noise <= faults
      /\ damage.hits > 0 /\ ~damage.joined => line.sent > 0
      /\ damage.noise > 0 => Between
  BY Numbers DEF FaultsInv, Damage
<1>1. ASSUME NEW frame \in FramesOf(side), FrameBegins(frame) PROVE FaultsInv'
  <2>1. damage'.hits = 0 /\ damage'.added = 0 /\ damage'.noise = 0 /\ faults' = faults
    BY <1>1, Begins
  <2> QED
    BY <1>0, <2>1 DEF FaultsInv
<1>2. CASE ByteArrives
  <2>1. /\ ~Between /\ line'.sent = line.sent + 1 /\ faults' = faults
        /\ damage'.hits = damage.hits /\ damage'.added = damage.added
        /\ damage'.noise = damage.noise
    BY <1>2, Arrives
  <2> QED
    BY <1>0, <2>1 DEF FaultsInv
<1>3. ASSUME NEW byte \in Byte, ByteLost \/ ByteChanged(byte) PROVE FaultsInv'
  <2>1. /\ ~Between /\ line'.sent = line.sent + 1 /\ faults' = faults + 1
        /\ damage'.hits = damage.hits + 1 /\ damage'.added = damage.added
        /\ damage'.noise = damage.noise
    BY <1>3, LostOrChanged
  <2> QED
    BY <1>0, <2>1 DEF FaultsInv
<1>4. ASSUME NEW byte \in Byte, ByteAdded(byte) PROVE FaultsInv'
  <2>1. /\ Within \/ Between
        /\ Within => damage'.added = damage.added + 1 /\ damage'.noise = damage.noise
        /\ Between => damage'.noise = damage.noise + 1 /\ damage'.added = damage.added
        /\ Within => ~Between
        /\ damage'.hits = damage.hits /\ damage'.joined = damage.joined
        /\ UNCHANGED <<side, line>> /\ faults' = faults + 1
    BY <1>4, Adds
  <2>2. Between' = Between
    BY <2>1 DEF Between
  <2> QED
    BY <1>0, <2>1, <2>2 DEF FaultsInv
<1>5. CASE Pause
  <2>1. /\ Within /\ ~Between /\ line' = line /\ faults' = faults + 1
        /\ damage'.hits = damage.hits + 1 /\ damage'.added = damage.added
        /\ damage'.noise = damage.noise
    BY <1>5, Pauses
  <2> QED
    BY <1>0, <2>1 DEF FaultsInv, Within
<1>6. CASE Tick
  <2>1. /\ Between /\ line'.sent = line.sent /\ UNCHANGED <<side, faults, damage>>
    BY <1>6, Ticks
  <2> QED
    BY <1>0, <2>1 DEF FaultsInv, Between
<1>7. CASE TimedOut \/ UNCHANGED vars
  <2>1. UNCHANGED <<side, line, faults, damage>>
    BY <1>7, TimesOut DEF vars
  <2> QED
    BY <1>0, <2>1 DEF FaultsInv, Between
<1>8. CASE Commands
  <2>1. /\ UNCHANGED <<side, line, faults>>
        /\ damage'.hits = damage.hits /\ damage'.added = damage.added
        /\ damage'.noise = damage.noise /\ damage'.joined = damage.joined
    BY <1>8, CommandSteps
  <2> QED
    BY <1>0, <2>1 DEF FaultsInv, Between
<1> QED
  BY <1>1, <1>2, <1>3, <1>4, <1>5, <1>6, <1>7, <1>8, Cases

\* Every step keeps the task's clock with the sender's.
LEMMA SilenceStays == TypeOK /\ FaultsInv /\ SilenceInv /\ [Next]_vars => SilenceInv'
<1> SUFFICES ASSUME TypeOK, FaultsInv, SilenceInv, [Next]_vars PROVE SilenceInv'
  OBVIOUS
<1>0. /\ ~Between => line.silent = 0
      /\ Between /\ damage.noise = 0 /\ stream.bytes # <<>> => line.silent <= quiet
      /\ quiet \in Nat /\ line.silent \in Nat /\ damage.noise \in Nat
      /\ damage.noise > 0 => Between
  BY Numbers DEF SilenceInv, FaultsInv, Damage
<1>1. ASSUME line'.silent = 0, quiet' \in Nat PROVE SilenceInv'
  BY <1>1 DEF SilenceInv
<1>2. ASSUME NEW frame \in FramesOf(side), FrameBegins(frame) PROVE SilenceInv'
  BY <1>0, <1>1, <1>2, Begins
<1>3. CASE ByteArrives
  <2>1. line'.silent = 0 /\ quiet' = 0
    BY <1>3, Arrives, ConsumeTypes
  <2> QED
    BY <1>1, <2>1
<1>4. ASSUME NEW byte \in Byte, ByteLost \/ ByteChanged(byte) PROVE SilenceInv'
  <2>1. line'.silent = 0
    BY <1>4, LostOrChanged
  <2>2. quiet' \in {quiet, 0}
    BY <1>4, LostOrChanged, ConsumeTypes
  <2> QED
    BY <1>0, <1>1, <2>1, <2>2
<1>5. ASSUME NEW byte \in Byte, ByteAdded(byte) PROVE SilenceInv'
  <2>1. /\ Within \/ Between
        /\ UNCHANGED <<side, line>> /\ quiet' = 0
        /\ Within => ~Between
        /\ Between => damage'.noise = damage.noise + 1
    BY <1>5, Adds, ConsumeTypes
  <2>2. Between' = Between
    BY <2>1 DEF Between
  <2> QED
    BY <1>0, <2>1, <2>2 DEF SilenceInv
<1>6. CASE Pause
  <2>1. UNCHANGED <<side, line>> /\ ~Between
    BY <1>6, Pauses
  <2> QED
    BY <1>0, <2>1 DEF SilenceInv, Between
<1>7. CASE Tick
  <2>1. /\ Between /\ line'.sent = line.sent
        /\ stream.bytes # <<>> => quiet' = quiet + 1
        /\ line'.silent <= line.silent + 1
        /\ UNCHANGED <<side, stream, damage>>
    BY <1>7, Ticks
  <2>2. Between'
    BY <2>1 DEF Between
  <2>3. line'.silent \in Nat
    BY TypesStay DEF TypeOK
  <2> QED
    BY <1>0, <2>1, <2>2, <2>3 DEF SilenceInv
<1>8. CASE TimedOut
  <2>1. stream'.bytes = <<>> /\ UNCHANGED <<side, line, damage>>
    BY <1>8, TimesOut
  <2> QED
    BY <1>0, <2>1 DEF SilenceInv, Between
<1>9. CASE Commands
  <2>1. UNCHANGED <<side, stream, quiet, line>> /\ damage'.noise = damage.noise
    BY <1>9, CommandSteps
  <2> QED
    BY <1>0, <2>1 DEF SilenceInv, Between
<1>10. CASE UNCHANGED vars
  BY <1>10 DEF vars, SilenceInv, Between
<1> QED
  BY <1>2, <1>3, <1>4, <1>5, <1>6, <1>7, <1>8, <1>9, <1>10, Cases

\* A byte that reaches a synchronized task leaves a trace.
LEMMA Traces ==
    ASSUME TypeOK, NEW byte \in Byte, Consume(byte)
    PROVE  /\ stream.synchronized => stream'.synchronized
           /\ stream.synchronized => errors' \/ taken' # NoFrame \/ stream'.bytes # <<>>
<1>1. /\ Task \in TaskType /\ Task' \in TaskType
      /\ stream.synchronized => stream'.synchronized
      /\ Fate(Task, byte, Task')
  BY Hearing
<1>2. /\ Task.st = stream /\ Task'.st = stream' /\ Task'.got = taken'
      /\ Task'.err = errors' /\ stream.bytes \in Seq(Byte)
  BY <1>1 DEF Task, TaskType
<1> SUFFICES ASSUME stream.synchronized
             PROVE  errors' \/ taken' # NoFrame \/ stream'.bytes # <<>>
  BY <1>1
<1> HIDE DEF Task
<1>3. Append(stream.bytes, byte) # <<>>
  BY <1>2, AppendProperties
<1>4. <<HEADER_0>> # <<>>
  OBVIOUS
<1>5. CASE Restarts(Task, byte, Task')
  BY <1>2, <1>4, <1>5 DEF Restarts
<1>6. CASE Grows(Task, byte, Task')
  BY <1>2, <1>3, <1>6 DEF Grows
<1>7. CASE Drops(Task, byte, Task')
  BY <1>2, <1>7 DEF Drops
<1>8. CASE Completes(Task, byte, Task')
  BY <1>2, <1>3, <1>8 DEF Completes, NoFrame
<1> QED
  BY <1>1, <1>5, <1>6, <1>7, <1>8 DEF Fate

\* Every step keeps the traces.
LEMMA LossStays == TypeOK /\ LossInv /\ [Next]_vars => LossInv'
<1> SUFFICES ASSUME TypeOK, LossInv, [Next]_vars PROVE LossInv'
  OBVIOUS
<1>0. /\ damage.counting => stream.synchronized
      /\ damage.heard /\ damage.counting =>
            errors \/ taken # NoFrame \/ stream.bytes # <<>>
  BY DEF LossInv
<1>1. ASSUME NEW byte \in Byte, Consume(byte), damage'.counting = damage.counting
      PROVE  LossInv'
  BY <1>0, <1>1, Traces DEF LossInv, NoFrame
<1>2. ASSUME damage'.counting = damage.counting, damage'.heard = damage.heard,
             UNCHANGED <<stream, taken, errors>>
      PROVE  LossInv'
  BY <1>0, <1>2 DEF LossInv, NoFrame
<1>3. ASSUME NEW frame \in FramesOf(side), FrameBegins(frame) PROVE LossInv'
  <2>1. ~damage'.heard /\ damage'.counting = stream.synchronized /\ stream' = stream
    BY <1>3, Begins
  <2> QED
    BY <2>1 DEF LossInv
<1>4. CASE ByteArrives
  BY <1>1, <1>4, Arrives
<1>5. ASSUME NEW byte \in Byte, ByteLost \/ ByteChanged(byte) PROVE LossInv'
  BY <1>1, <1>2, <1>5, LostOrChanged
<1>6. ASSUME NEW byte \in Byte, ByteAdded(byte) PROVE LossInv'
  BY <1>1, <1>6, Adds
<1>7. CASE Pause
  BY <1>2, <1>7, Pauses
<1>8. CASE Tick
  BY <1>2, <1>8, Ticks
<1>9. CASE TimedOut
  <2>1. /\ stream'.synchronized = stream.synchronized
        /\ errors' = (errors \/ stream.synchronized)
        /\ UNCHANGED <<taken, damage>>
    BY <1>9, TimesOut
  <2> QED
    BY <1>0, <2>1 DEF LossInv
<1>10. CASE Commands
  BY <1>2, <1>10, CommandSteps
<1>11. CASE UNCHANGED vars
  BY <1>2, <1>11 DEF vars
<1> QED
  BY <1>3, <1>4, <1>5, <1>6, <1>7, <1>8, <1>9, <1>10, <1>11, Cases

-----------------------------------------------------------------------------
(* The frame the line leaves alone *)

\* A silence that ends without noise leaves nothing in the buffer.
LEMMA SilenceEmpties ==
    ASSUME TypeOK, SilenceInv, line.silent = Gap, damage.noise = 0
    PROVE  stream.bytes = <<>>
<1>1. Between
  BY Numbers DEF SilenceInv
<1>2. stream.bytes # <<>> => Gap <= quiet
  BY <1>1 DEF SilenceInv
<1> QED
  BY <1>2, Numbers

\* A buffer of one byte at most holds nothing or a header.
LEMMA AtMostHeader ==
    ASSUME TypeOK, Len(stream.bytes) <= 1
    PROVE  stream.bytes \in {<<>>, <<HEADER_0>>}
<1> DEFINE b == stream.bytes
<1>1. b \in Seq(Byte) /\ Len(b) \in Nat /\ (b = <<>> <=> Len(b) = 0)
      /\ (1 \in DOMAIN b => b[1] = HEADER_0) /\ DOMAIN b = 1..Len(b)
  BY Numbers, LenProperties DEF Beginning
<1> HIDE DEF b
<1>2. ASSUME b # <<>> PROVE b = <<HEADER_0>>
  <2> DEFINE h == <<HEADER_0>>
  <2>1. Len(b) = 1
    <3>1. Len(b) <= 1 /\ Len(b) # 0
      BY <1>1, <1>2 DEF b
    <3> QED
      BY <1>1, <3>1
  <2>2. b[1] = HEADER_0
    BY <1>1, <2>1
  <2>3. h \in Seq(Byte) /\ Len(h) = 1 /\ h[1] = HEADER_0
    BY BytesAssumption
  <2> HIDE DEF h
  <2>4. \A i \in 1..Len(b) : b[i] = h[i]
    BY <2>1, <2>2, <2>3
  <2>5. b = h
    BY <1>1, <2>1, <2>3, <2>4, SeqEqual
  <2> QED
    BY <2>5 DEF h
<1> QED
  BY <1>2 DEF b

\* The next byte of a frame the line left alone so far.
LEMMA NextUnharmed ==
    ASSUME TypeOK, UnharmedInv, ~Harmed, ~Between,
           Consume(line.frame[line.sent + 1])
    PROVE  /\ line.sent + 1 < OwnSize(side) =>
                stream'.bytes = Sent(line.sent + 1) /\ taken' = NoFrame
           /\ line.sent + 1 = OwnSize(side) =>
                stream'.bytes = <<>> /\ taken' = line.frame
<1> DEFINE f == line.frame
           n == line.sent
<1>1. f[n + 1] \in Byte /\ n \in 0..(OwnSize(side) - 1) /\ f \in FramesOf(side)
  BY FrameBytes, Numbers
<1>2. /\ Task \in TaskType /\ Task' \in TaskType
      /\ Beginning(stream'.bytes) /\ Fate(Task, f[n + 1], Task')
  BY <1>1, Hearing
<1>3. /\ Task.st = stream /\ Task.got = taken
      /\ Task'.st = stream' /\ Task'.got = taken'
  BY DEF Task
<1>4. n = 0 => Task.st.bytes \in {<<>>, <<HEADER_0>>} /\ taken = NoFrame
  BY <1>3 DEF UnharmedInv, Harmed
<1>5. n > 0 => Task.st.bytes = SubSeq(f, 1, n) /\ taken = NoFrame
  <2>1. n > 0 => Within
    BY <1>1, Numbers DEF Within
  <2> QED
    BY <1>3, <2>1 DEF UnharmedInv, Sent
<1>6. taken = NoFrame
  BY <1>1, <1>4, <1>5, Numbers
<1> HIDE DEF f, n, Task
<1>7. /\ n + 1 < OwnSize(side) =>
            Task'.st.bytes = SubSeq(f, 1, n + 1) /\ Task'.got = Task.got
      /\ n + 1 = OwnSize(side) => Task'.st.bytes = <<>> /\ Task'.got = f
  <2>1. /\ Beginning(Task'.st.bytes)
        /\ n = 0 => Task.st.bytes \in {<<>>, <<HEADER_0>>}
        /\ n > 0 => Task.st.bytes = SubSeq(f, 1, n)
    BY <1>2, <1>3, <1>4, <1>5
  <2> DEFINE r == Task'
  <2>2. r \in TaskType /\ Fate(Task, f[n + 1], r) /\ Beginning(r.st.bytes)
    BY <1>2, <2>1
  <2> HIDE DEF r
  <2> QED
    BY <1>1, <1>2, <2>1, <2>2, NextOfFrame DEF r
<1> QED
  BY <1>3, <1>6, <1>7 DEF f, n, Sent

\* Every step keeps an unharmed frame.
LEMMA UnharmedStays ==
    TypeOK /\ FaultsInv /\ SilenceInv /\ UnharmedInv /\ [Next]_vars => UnharmedInv'
<1> SUFFICES ASSUME TypeOK, FaultsInv, SilenceInv, UnharmedInv, [Next]_vars
             PROVE  UnharmedInv'
  OBVIOUS
<1>0. /\ damage.hits \in Nat /\ damage.added \in Nat /\ damage.noise \in Nat
      /\ line.sent \in Nat /\ OwnSize(side) \in Nat /\ OwnSize(side) >= 4
      /\ damage.noise > 0 => Between
      /\ Len(stream.bytes) \in Nat
  BY Numbers DEF FaultsInv, Damage
<1>1. ASSUME line'.sent > 0, Harmed' PROVE UnharmedInv'
  BY <1>1 DEF UnharmedInv
<1>2. ASSUME NEW frame \in FramesOf(side), FrameBegins(frame) PROVE UnharmedInv'
  <2>1. /\ Between /\ line.silent = Gap /\ stream' = stream /\ taken' = NoFrame
        /\ ~Between' /\ ~Within'
        /\ ~damage'.joined => damage.noise = 0 \/ (damage.noise = 1 /\ ~Harmed)
    BY <1>2, Begins
  <2>2. ASSUME ~damage'.joined PROVE stream.bytes \in {<<>>, <<HEADER_0>>}
    <3>1. CASE damage.noise = 0
      BY <2>1, <3>1, SilenceEmpties
    <3>2. CASE damage.noise = 1 /\ ~Harmed
      <4>1. Len(stream.bytes) <= 1
        BY <2>1, <3>2 DEF UnharmedInv
      <4> QED
        BY <4>1, AtMostHeader
    <3> QED
      BY <2>1, <2>2, <3>1, <3>2
  <2> QED
    BY <2>1, <2>2 DEF UnharmedInv
<1>3. CASE ByteArrives
  <2>1. /\ ~Between /\ Consume(line.frame[line.sent + 1])
        /\ line.sent \in 0..(OwnSize(side) - 1)
        /\ line.frame[line.sent + 1] \in Byte
        /\ line'.frame = line.frame /\ line'.sent = line.sent + 1
        /\ damage'.hits = damage.hits /\ damage'.added = damage.added
        /\ damage'.noise = damage.noise /\ damage'.joined = damage.joined
        /\ side' = side
    BY <1>3, Arrives
  <2>2. quiet' = 0
    BY <2>1, ConsumeTypes
  <2>3. Harmed' = Harmed /\ line'.sent > 0
    BY <1>0, <2>1 DEF Harmed
  <2>4. CASE Harmed
    BY <1>1, <2>3, <2>4
  <2>5. CASE ~Harmed
    <3>1. /\ line.sent + 1 < OwnSize(side) =>
                stream'.bytes = Sent(line.sent + 1) /\ taken' = NoFrame
          /\ line.sent + 1 = OwnSize(side) =>
                stream'.bytes = <<>> /\ taken' = line.frame
      BY <2>1, <2>5, NextUnharmed
    <3>2. Within' => stream'.bytes = Sent(line.sent)' /\ taken' = NoFrame
      BY <2>1, <3>1 DEF Within, Sent
    <3>3. Between' => stream'.bytes = <<>> /\ taken' = line'.frame
      BY <2>1, <3>1 DEF Between
    <3>4. Len(<<>>) <= damage'.noise
      BY <1>0, <2>1, EmptySeq
    <3> QED
      BY <2>2, <2>3, <3>2, <3>3, <3>4 DEF UnharmedInv
  <2> QED
    BY <2>4, <2>5
<1>4. ASSUME NEW byte \in Byte, ByteLost \/ ByteChanged(byte) PROVE UnharmedInv'
  <2>1. line'.sent = line.sent + 1 /\ damage'.hits > 0
    BY <1>4, LostOrChanged
  <2> QED
    BY <1>0, <1>1, <2>1 DEF Harmed
<1>5. ASSUME NEW byte \in Byte, ByteAdded(byte) PROVE UnharmedInv'
  <2>1. /\ (Within \/ Between) /\ Consume(byte)
        /\ Within => damage'.added = damage.added + 1
        /\ Between => ~Within /\ damage'.noise = damage.noise + 1
                      /\ damage'.added = damage.added
        /\ damage'.hits = damage.hits /\ damage'.joined = damage.joined
        /\ UNCHANGED <<side, line>>
    BY <1>5, Adds
  <2>2. line.sent > 0 /\ line'.sent > 0 /\ Between' = Between /\ Within' = Within
    BY <1>0, <2>1 DEF Within, Between
  <2>3. CASE Within
    BY <1>0, <1>1, <2>1, <2>2, <2>3 DEF Harmed
  <2>4. CASE Between
    <3>1. SUFFICES ASSUME ~Harmed'
                   PROVE  /\ Len(stream'.bytes) <= damage'.noise
                          /\ ~LongNoise' => taken' = line'.frame
      BY <2>1, <2>2, <2>4 DEF UnharmedInv
    <3>2. ~Harmed
      BY <2>1, <2>4, <3>1 DEF Harmed
    <3>3. /\ Len(stream.bytes) <= damage.noise
          /\ ~LongNoise => taken = line.frame
      BY <2>4, <3>2 DEF UnharmedInv
    <3>4. /\ Task \in TaskType /\ Task' \in TaskType /\ Fate(Task, byte, Task')
      BY <2>1, Hearing
    <3>5. /\ Task.st = stream /\ Task.got = taken
          /\ Task'.st = stream' /\ Task'.got = taken'
      BY DEF Task
    <3> HIDE DEF Task
    <3>6. /\ Len(stream'.bytes) \in Nat
          /\ Len(stream'.bytes) <= Len(stream.bytes) + 1
          /\ taken' # taken => Len(stream.bytes) + 1 >= SizeOf(PANEL_LENGTH)
      BY <3>4, <3>5, Outcome
    <3>7. Len(stream'.bytes) <= damage'.noise
      BY <1>0, <2>1, <2>4, <3>3, <3>6
    <3>8. ASSUME ~LongNoise' PROVE taken' = line'.frame
      <4>1. damage.noise + 1 < SizeOf(PANEL_LENGTH) - 1
        BY <1>0, <2>1, <2>4, <3>8, Numbers DEF LongNoise
      <4>2. taken' = taken
        BY <1>0, <3>3, <3>6, <4>1, Numbers
      <4>3. ~LongNoise
        BY <1>0, <4>1, Numbers DEF LongNoise
      <4> QED
        BY <2>1, <3>3, <4>2, <4>3
    <3> QED
      BY <3>7, <3>8
  <2> QED
    BY <2>1, <2>3, <2>4
<1>6. CASE Pause
  <2>1. Within /\ line' = line /\ damage'.hits > 0
    BY <1>6, Pauses
  <2> QED
    BY <1>1, <2>1 DEF Harmed, Within
<1>7. CASE Tick
  <2>1. /\ Between /\ ~Within
        /\ line'.frame = line.frame /\ line'.sent = line.sent
        /\ UNCHANGED <<side, stream, taken, damage>>
    BY <1>7, Ticks
  <2>2. line.sent > 0 /\ Between' /\ ~Within' /\ Harmed' = Harmed /\ LongNoise' = LongNoise
    BY <1>0, <2>1 DEF Between, Within, Harmed, LongNoise
  <2> QED
    BY <2>1, <2>2 DEF UnharmedInv
<1>8. CASE TimedOut
  <2>1. /\ quiet > Timeout /\ stream'.bytes = <<>>
        /\ UNCHANGED <<side, taken, quiet, line, damage>>
    BY <1>8, TimesOut
  <2>2. /\ Between' = Between /\ Within' = Within /\ Harmed' = Harmed
        /\ LongNoise' = LongNoise
    BY <2>1 DEF Between, Within, Harmed, LongNoise
  <2>3. Within => Harmed
    BY <2>1, Numbers DEF UnharmedInv
  <2>4. Len(<<>>) <= damage.noise
    BY <1>0, EmptySeq
  <2> QED
    BY <2>1, <2>2, <2>3, <2>4 DEF UnharmedInv
<1>9. CASE Commands \/ UNCHANGED vars
  <2>1. /\ UNCHANGED <<side, stream, taken, quiet, line>>
        /\ damage'.hits = damage.hits /\ damage'.added = damage.added
        /\ damage'.noise = damage.noise /\ damage'.joined = damage.joined
    BY <1>9, CommandSteps DEF vars
  <2>2. /\ Between' = Between /\ Within' = Within /\ Harmed' = Harmed
        /\ LongNoise' = LongNoise /\ Sent(line.sent)' = Sent(line.sent)
    BY <2>1 DEF Between, Within, Harmed, LongNoise, Sent
  <2> QED
    BY <2>1, <2>2 DEF UnharmedInv
<1> QED
  BY <1>2, <1>3, <1>4, <1>5, <1>6, <1>7, <1>8, <1>9, Cases

-----------------------------------------------------------------------------
(* A frame that is hit once *)

\* A frame with one wrong byte is not handed on: the check byte tells.
LEMMA WrongByte ==
    ASSUME TypeOK, NEW t \in TaskType, NEW r \in TaskType, NEW byte \in Byte,
           Fate(t, byte, r), NEW f \in FramesOf(side),
           Len(t.st.bytes) < OwnSize(side),
           DifferOnce(Append(t.st.bytes, byte), f, Len(t.st.bytes) + 1)
    PROVE  /\ r.got = t.got
           /\ \/ r.st.bytes = Append(t.st.bytes, byte)
              \/ Len(r.st.bytes) <= Len(t.st.bytes)
<1> DEFINE own == OwnSize(side)
           n   == Len(t.st.bytes)
           all == Append(t.st.bytes, byte)
<1>0. PICK i \in 1..(n + 1) : /\ all[i] # f[i]
                              /\ \A j \in 1..(n + 1) : j # i => all[j] = f[j]
  BY DEF DifferOnce
<1>1. /\ t.st.bytes \in Seq(Byte) /\ n \in Nat
      /\ all \in Seq(Byte) /\ n + 1 = Len(all) /\ all[n + 1] = byte
  BY Longer, LenProperties DEF TaskType
<1>2. f \in Seq(Byte) /\ own = Len(f) /\ f[1] = HEADER_0 /\ XorOf(f) = XOR_TARGET
  BY Frames
<1>3. own \in Nat /\ n \in Nat /\ n < own
  BY <1>1, Numbers
<1> SUFFICES r.got = t.got /\ (r.st.bytes = all \/ Len(r.st.bytes) < n + 1)
  <2>1. Len(r.st.bytes) \in Nat
    BY LenProperties DEF TaskType
  <2> QED
    BY <1>1, <2>1 DEF n, all
<1> HIDE DEF own, n, all
<1>4. CASE Restarts(t, byte, r)
  <2>1. /\ n <= 1 /\ r.st.bytes = IF byte = HEADER_0 THEN <<HEADER_0>> ELSE <<>>
        /\ r.got = t.got
    BY <1>4 DEF Restarts, n
  <2>2. Len(<<>>) < n + 1
    BY <1>1, <1>3, EmptySeq
  <2>3. ASSUME byte = HEADER_0 PROVE Len(<<HEADER_0>>) < n + 1
    <3>1. n # 0
      BY <1>0, <1>1, <1>2, <2>3
    <3>2. Len(<<HEADER_0>>) <= 1
      OBVIOUS
    <3> QED
      BY <1>3, <3>1, <3>2
  <2> QED
    BY <2>1, <2>2, <2>3
<1>5. CASE Grows(t, byte, r)
  BY <1>5 DEF Grows, all
<1>6. CASE Drops(t, byte, r)
  <2>1. Len(<<>>) < n + 1
    BY <1>1, <1>3, EmptySeq
  <2> QED
    BY <1>6, <2>1 DEF Drops
<1>7. CASE Completes(t, byte, r)
  <2>1. Len(<<>>) < n + 1
    BY <1>1, <1>3, EmptySeq
  <2>2. /\ r.st.bytes = <<>>
        /\ r.got # t.got => ChecksumValid(all) /\ Len(all) = OwnSize(side)
    BY <1>7 DEF Completes, all
  <2>3. ASSUME r.got # t.got PROVE FALSE
    <3>1. XorOf(all) = XorOf(f)
      BY <1>2, <2>2, <2>3 DEF ChecksumValid
    <3>2. n + 1 = own
      BY <1>1, <1>3, <2>2, <2>3 DEF own
    <3>3. own = Len(all)
      BY <1>1, <1>3, <3>2
    <3>4. XorAfter(all)[own] # XorAfter(f)[own]
      <4>1. /\ own <= Len(all) /\ own <= Len(f) /\ Len(all) \in Nat /\ Len(f) \in Nat
            /\ i \in 1..own /\ \A j \in 1..own : j # i => all[j] = f[j]
        BY <1>0, <1>2, <1>3, <3>2, <3>3
      <4> QED
        BY <1>0, <1>3, <4>1, OneByteTells
    <3> QED
      BY <1>2, <3>1, <3>3, <3>4 DEF XorOf
  <2> QED
    BY <2>1, <2>2, <2>3
<1> QED
  BY <1>4, <1>5, <1>6, <1>7 DEF Fate

\* A buffer that is behind the sender stays behind in this frame.
LEMMA Behind ==
    ASSUME TypeOK, NEW t \in TaskType, NEW r \in TaskType, NEW byte \in Byte,
           Fate(t, byte, r), NEW n \in 0..(OwnSize(side) - 1), Len(t.st.bytes) < n
    PROVE  r.got = t.got /\ Len(r.st.bytes) < n + 1
<1> DEFINE own == OwnSize(side)
           m   == Len(t.st.bytes)
<1>1. /\ m \in Nat /\ Len(r.st.bytes) \in Nat /\ Len(r.st.bytes) <= m + 1
      /\ r.got # t.got => r.got = Append(t.st.bytes, byte) /\ own = Len(r.got)
  BY Outcome
<1>2. t.st.bytes \in Seq(Byte) /\ m + 1 = Len(Append(t.st.bytes, byte))
  BY Longer DEF TaskType
<1>3. own \in Nat /\ n < own /\ n \in Nat /\ m < n
  BY Numbers
<1> HIDE DEF own, m
<1> QED
  BY <1>1, <1>2, <1>3

\* Two headers and the second of them again: a length that is none.
LEMMA HeaderTwice ==
    ASSUME NEW t \in TaskType, NEW r \in TaskType, TypeOK,
           Fate(t, HEADER_1, r), Beginning(r.st.bytes),
           t.st.bytes = <<HEADER_0, HEADER_1>>
    PROVE  r.got = t.got /\ r.st.bytes = <<>>
<1> DEFINE b   == <<HEADER_0, HEADER_1>>
           all == Append(b, HEADER_1)
<1>1. b \in Seq(Byte) /\ Len(b) = 2 /\ HEADER_1 \in Byte
  BY BytesAssumption
<1>2. /\ all \in Seq(Byte) /\ 3 = Len(all) /\ all[3] = HEADER_1 /\ 3 \in DOMAIN all
  BY <1>1, AppendProperties, LenProperties
<1> HIDE DEF b, all
<1>3. Expected(all) = 0
  BY <1>2, Sizes DEF Expected
<1>4. ~Restarts(t, HEADER_1, r)
  BY <1>1 DEF Restarts, b
<1>5. ~Grows(t, HEADER_1, r)
  <2> SUFFICES ASSUME Grows(t, HEADER_1, r) PROVE FALSE
    OBVIOUS
  <2>1. r.st.bytes = all
    BY DEF Grows, all, b
  <2>2. 3 < Expected(all)
    BY <1>2, <2>1 DEF Beginning
  <2> QED
    BY <1>3, <2>2
<1>6. ~Completes(t, HEADER_1, r)
  <2> SUFFICES ASSUME Completes(t, HEADER_1, r) PROVE FALSE
    OBVIOUS
  <2>1. Len(all) = Expected(all)
    BY DEF Completes, all, b
  <2> QED
    BY <1>2, <1>3, <2>1
<1>7. Drops(t, HEADER_1, r)
  BY <1>4, <1>5, <1>6 DEF Fate
<1> QED
  BY <1>7 DEF Drops

\* What the buffer may hold of a frame that was hit once.
Remains ==
    \/ stream.bytes = Sent(line.sent)
    \/ OneOff
    \/ Len(stream.bytes) < line.sent
    \/ line.sent = 1 /\ stream.bytes = <<HEADER_0, HEADER_1>>

\* A good byte after the hit.
LEMMA RemainsAfter ==
    ASSUME TypeOK, Remains, line.sent > 0, ~Between, ByteArrives
    PROVE  Remains' /\ taken' \in {taken, line.frame}
<1> DEFINE f == line.frame
           n == line.sent
<1>1. /\ f[n + 1] \in Byte /\ n \in 0..(OwnSize(side) - 1) /\ f \in FramesOf(side)
      /\ Consume(f[n + 1]) /\ line'.frame = f /\ line'.sent = n + 1
      /\ OwnSize(side) \in Nat
  BY Arrives, Numbers
<1>2. /\ Task \in TaskType /\ Task' \in TaskType
      /\ Beginning(stream'.bytes) /\ Fate(Task, f[n + 1], Task')
  BY <1>1, Hearing
<1>3. /\ Task.st = stream /\ Task.got = taken
      /\ Task'.st = stream' /\ Task'.got = taken'
  BY DEF Task
<1> DEFINE r == Task'
<1>4. r \in TaskType /\ Fate(Task, f[n + 1], r) /\ Beginning(r.st.bytes)
      /\ r.st = stream' /\ r.got = taken'
  BY <1>2, <1>3
<1>5. Sent(line.sent)' = SubSeq(f, 1, n + 1)
  BY <1>1 DEF Sent
<1>6. n \in Nat /\ n > 0
  BY <1>1
<1> HIDE DEF r
<1>7. CASE stream.bytes = Sent(n)
  <2>1. /\ n + 1 < OwnSize(side) =>
                r.st.bytes = SubSeq(f, 1, n + 1) /\ r.got = Task.got
        /\ n + 1 = OwnSize(side) => r.st.bytes = <<>> /\ r.got = f
    <3>1. n > 0 /\ Task.st.bytes = SubSeq(f, 1, n)
      BY <1>3, <1>7 DEF Sent
    <3> HIDE DEF f, n, Task
    <3> QED
      BY <1>1, <1>2, <1>4, <3>1, NextOfFrame
  <2>2. Len(<<>>) < n + 1
    BY <1>6, EmptySeq
  <2>3. n + 1 < OwnSize(side) \/ n + 1 = OwnSize(side)
    BY <1>1
  <2> QED
    BY <1>1, <1>3, <1>4, <1>5, <2>1, <2>2, <2>3 DEF Remains
<1>8. CASE OneOff
  <2> DEFINE all == Append(stream.bytes, f[n + 1])
  <2>1. PICK i \in 1..n : /\ stream.bytes[i] # f[i]
                          /\ \A j \in 1..n : j # i => stream.bytes[j] = f[j]
    BY <1>8 DEF OneOff, DifferOnce
  <2>2. stream.bytes \in Seq(Byte) /\ n = Len(stream.bytes)
    BY <1>2, <1>3, <1>8 DEF OneOff, TaskType
  <2>3. /\ all \in Seq(Byte) /\ n + 1 = Len(all) /\ all[n + 1] = f[n + 1]
        /\ \A j \in 1..n : all[j] = stream.bytes[j]
    BY <1>1, <2>2, Longer
  <2> HIDE DEF all
  <2>4. DifferOnce(all, f, n + 1)
    <3>1. i \in 1..(n + 1) /\ all[i] # f[i]
      BY <1>6, <2>1, <2>3
    <3>2. \A j \in 1..(n + 1) : j # i => all[j] = f[j]
      BY <1>6, <2>1, <2>3
    <3> QED
      BY <3>1, <3>2 DEF DifferOnce
  <2>5. r.got = taken /\ (r.st.bytes = all \/ Len(r.st.bytes) <= n)
    <3> DEFINE b == f[n + 1]
    <3>1. /\ Len(Task.st.bytes) < OwnSize(side) /\ n = Len(Task.st.bytes)
          /\ all = Append(Task.st.bytes, b)
      BY <1>1, <1>3, <2>2 DEF all
    <3>2. /\ b \in Byte /\ Fate(Task, b, r) /\ f \in FramesOf(side)
          /\ Task \in TaskType /\ r \in TaskType /\ Task.got = taken
      BY <1>1, <1>2, <1>3, <1>4
    <3> HIDE DEF f, n, Task, b
    <3>3. DifferOnce(Append(Task.st.bytes, b), f, Len(Task.st.bytes) + 1)
      BY <2>4, <3>1
    <3> QED
      BY <3>1, <3>2, <3>3, WrongByte
  <2>6. r.st.bytes = all => OneOff'
    BY <1>1, <1>4, <2>3, <2>4 DEF OneOff
  <2>7. Len(r.st.bytes) <= n => Len(r.st.bytes) < n + 1
    BY <1>4, <1>6, LenProperties DEF TaskType
  <2> QED
    BY <1>1, <1>4, <2>5, <2>6, <2>7 DEF Remains
<1>9. CASE Len(stream.bytes) < n
  <2>1. r.got = taken /\ Len(r.st.bytes) < n + 1
    <3>1. Len(Task.st.bytes) < n
      BY <1>3, <1>9
    <3> HIDE DEF f, n, Task
    <3> QED
      BY <1>1, <1>2, <1>3, <1>4, <3>1, Behind
  <2> QED
    BY <1>1, <1>4, <2>1 DEF Remains
<1>10. CASE n = 1 /\ stream.bytes = <<HEADER_0, HEADER_1>>
  <2>1. f[n + 1] = HEADER_1
    BY <1>1, <1>10, Frames
  <2>2. r.got = taken /\ r.st.bytes = <<>>
    <3>1. Task.st.bytes = <<HEADER_0, HEADER_1>> /\ Fate(Task, HEADER_1, r)
      BY <1>3, <1>4, <1>10, <2>1
    <3> HIDE DEF f, n, Task
    <3> QED
      BY <1>2, <1>3, <1>4, <3>1, HeaderTwice
  <2>3. Len(<<>>) < n + 1
    BY <1>6, EmptySeq
  <2> QED
    BY <1>1, <1>4, <2>2, <2>3 DEF Remains
<1> QED
  BY <1>7, <1>8, <1>9, <1>10 DEF Remains

\* Both headers.
LEMMA AppendHeader == Append(<<HEADER_0>>, HEADER_1) = <<HEADER_0, HEADER_1>>
<1> DEFINE x == Append(<<HEADER_0>>, HEADER_1)
           y == <<HEADER_0, HEADER_1>>
<1>1. /\ HEADER_0 \in Byte /\ HEADER_1 \in Byte
      /\ <<HEADER_0>> \in Seq(Byte) /\ Len(<<HEADER_0>>) = 1 /\ <<HEADER_0>>[1] = HEADER_0
  BY BytesAssumption
<1>2. x \in Seq(Byte) /\ Len(x) = 2 /\ x[1] = HEADER_0 /\ x[2] = HEADER_1
  BY <1>1, AppendProperties
<1>3. y \in Seq(Byte) /\ Len(y) = 2 /\ y[1] = HEADER_0 /\ y[2] = HEADER_1
  BY <1>1
<1> HIDE DEF x, y
<1>4. Len(x) = Len(y) /\ \A i \in 1..Len(x) : x[i] = y[i]
  BY <1>2, <1>3
<1>5. x = y
  BY <1>2, <1>3, <1>4, SeqEqual
<1> QED
  BY <1>5 DEF x, y

\* The first byte of a frame.
LEMMA FirstSent ==
    ASSUME NEW s, NEW f \in FramesOf(s)
    PROVE  SubSeq(f, 1, 1) = <<HEADER_0>>
<1> DEFINE p == SubSeq(f, 1, 1)
           h == <<HEADER_0>>
<1>1. f \in Seq(Byte) /\ f[1] = HEADER_0 /\ 1 \in 0..Len(f)
  BY Frames, Sizes
<1>2. p \in Seq(Byte) /\ 1 = Len(p) /\ p[1] = HEADER_0
  BY <1>1, Beginnings
<1>3. h \in Seq(Byte) /\ 1 = Len(h) /\ h[1] = HEADER_0
  BY BytesAssumption
<1> HIDE DEF p, h
<1>4. Len(p) = Len(h) /\ \A i \in 1..Len(p) : p[i] = h[i]
  BY <1>2, <1>3
<1>5. p = h
  BY <1>2, <1>3, <1>4, SeqEqual
<1> QED
  BY <1>5 DEF p, h

\* The buffer follows a frame up to the hit.
LEMMA BeforeHit ==
    ASSUME TypeOK, UnharmedInv, ~Harmed, ~Between
    PROVE  /\ taken = NoFrame
           /\ stream.bytes = Sent(line.sent)
              \/ (line.sent = 0 /\ stream.bytes = <<HEADER_0>>)
           /\ Sent(line.sent) \in Seq(Byte) /\ line.sent = Len(Sent(line.sent))
           /\ \A i \in 1..line.sent : Sent(line.sent)[i] = line.frame[i]
<1>1. line.frame \in Seq(Byte) /\ line.sent \in 0..Len(line.frame)
  BY Numbers, Frames
<1>2. /\ Sent(line.sent) \in Seq(Byte) /\ line.sent = Len(Sent(line.sent))
      /\ \A i \in 1..line.sent : Sent(line.sent)[i] = line.frame[i]
      /\ line.sent = 0 => Sent(line.sent) = <<>>
  BY <1>1, Beginnings DEF Sent
<1>3. line.sent > 0 => Within
  BY Numbers DEF Between, Within
<1>4. line.sent = 0 => taken = NoFrame /\ stream.bytes \in {<<>>, <<HEADER_0>>}
  BY DEF UnharmedInv, Harmed
<1>5. line.sent > 0 => taken = NoFrame /\ stream.bytes = Sent(line.sent)
  BY <1>3 DEF UnharmedInv
<1>6. line.sent = 0 \/ line.sent > 0
  BY Numbers
<1> QED
  BY <1>2, <1>4, <1>5, <1>6

\* The byte that was lost.
LEMMA RemainsOfLost ==
    ASSUME TypeOK, UnharmedInv, ~Harmed, ByteLost
    PROVE  Remains' /\ taken' = NoFrame
<1>1. /\ ~Between /\ stream' = stream /\ taken' = taken
      /\ line'.frame = line.frame /\ line'.sent = line.sent + 1
  BY BytesAssumption, LostOrChanged
<1>2. /\ taken = NoFrame
      /\ stream.bytes = Sent(line.sent)
         \/ (line.sent = 0 /\ stream.bytes = <<HEADER_0>>)
      /\ line.sent = Len(Sent(line.sent))
  BY <1>1, BeforeHit
<1>3. CASE stream.bytes = Sent(line.sent)
  <2>1. Len(stream'.bytes) < line'.sent
    BY <1>1, <1>2, <1>3, Numbers
  <2> QED
    BY <1>1, <1>2, <2>1 DEF Remains
<1>4. CASE line.sent = 0 /\ stream.bytes = <<HEADER_0>>
  <2>1. Sent(line.sent)' = SubSeq(line.frame, 1, 1)
    BY <1>1, <1>4 DEF Sent
  <2>2. stream'.bytes = Sent(line.sent)'
    BY <1>1, <1>4, <2>1, FirstSent, Numbers
  <2> QED
    BY <1>1, <1>2, <2>2 DEF Remains
<1> QED
  BY <1>2, <1>3, <1>4

\* The byte that was changed.
LEMMA RemainsOfChanged ==
    ASSUME TypeOK, UnharmedInv, ~Harmed, NEW byte \in Byte, ByteChanged(byte)
    PROVE  Remains' /\ taken' = NoFrame
<1> DEFINE f == line.frame
           n == line.sent
           r == Task'
<1>1. /\ ~Between /\ Consume(byte) /\ byte # f[n + 1]
      /\ line'.frame = f /\ line'.sent = n + 1
      /\ n \in 0..(OwnSize(side) - 1) /\ f \in FramesOf(side) /\ n \in Nat
  BY LostOrChanged, Numbers
<1>2. /\ Task \in TaskType /\ r \in TaskType /\ Fate(Task, byte, r)
      /\ Task.st = stream /\ Task.got = taken
      /\ r.st = stream' /\ r.got = taken'
  BY <1>1, Hearing DEF Task
<1>3. /\ taken = NoFrame
      /\ stream.bytes = Sent(n) \/ (n = 0 /\ stream.bytes = <<HEADER_0>>)
      /\ Sent(n) \in Seq(Byte) /\ n = Len(Sent(n))
      /\ \A i \in 1..n : Sent(n)[i] = f[i]
  BY <1>1, BeforeHit
<1>4. CASE stream.bytes = Sent(n)
  <2> DEFINE all == Append(stream.bytes, byte)
  <2>1. /\ n + 1 = Len(all) /\ all[n + 1] = byte
        /\ \A j \in 1..n : all[j] = f[j]
    BY <1>3, <1>4, Longer
  <2> HIDE DEF all
  <2>2. DifferOnce(all, f, n + 1)
    <3>1. n + 1 \in 1..(n + 1) /\ all[n + 1] # f[n + 1]
      BY <1>1, <2>1
    <3>2. \A j \in 1..(n + 1) : j # n + 1 => all[j] = f[j]
      BY <1>1, <2>1
    <3> QED
      BY <3>1, <3>2 DEF DifferOnce
  <2>3. r.got = taken /\ (r.st.bytes = all \/ Len(r.st.bytes) <= n)
    <3>1. /\ Len(Task.st.bytes) < OwnSize(side) /\ n = Len(Task.st.bytes)
          /\ all = Append(Task.st.bytes, byte)
      <4>1. Task.st.bytes = stream.bytes
        BY <1>2
      <4>2. n = Len(Task.st.bytes)
        BY <1>3, <1>4, <4>1
      <4>3. n < OwnSize(side)
        BY <1>1, Numbers
      <4> QED
        BY <4>1, <4>2, <4>3 DEF all
    <3>2. /\ f \in FramesOf(side) /\ Fate(Task, byte, r)
          /\ Task \in TaskType /\ r \in TaskType /\ Task.got = taken
      BY <1>1, <1>2
    <3> HIDE DEF f, n, Task, r
    <3>3. DifferOnce(Append(Task.st.bytes, byte), f, Len(Task.st.bytes) + 1)
      BY <2>2, <3>1
    <3> QED
      BY <3>1, <3>2, <3>3, WrongByte
  <2>4. r.st.bytes = all => OneOff'
    BY <1>1, <1>2, <2>1, <2>2 DEF OneOff
  <2>5. Len(r.st.bytes) <= n => Len(r.st.bytes) < n + 1
    BY <1>1, <1>2, LenProperties DEF TaskType
  <2> QED
    BY <1>1, <1>2, <1>3, <2>3, <2>4, <2>5 DEF Remains
<1>5. CASE n = 0 /\ stream.bytes = <<HEADER_0>>
  <2>1. byte # HEADER_0
    BY <1>1, <1>5, Frames
  <2> DEFINE h == <<HEADER_0>>
  <2>2. Append(h, HEADER_1) = <<HEADER_0, HEADER_1>>
    BY AppendHeader
  <2>3. ~(Len(h) = 2) /\ ~(Len(h) >= 2)
    OBVIOUS
  <2>4. Len(<<>>) < n + 1
    BY <1>5, EmptySeq
  <2>5. Task.st.bytes = h
    BY <1>2, <1>5
  <2>6. Len(h) = 1
    OBVIOUS
  <2> HIDE DEF h, Task, r
  <2>7. /\ r.got = taken
        /\ r.st.bytes = <<>> \/ r.st.bytes = <<HEADER_0, HEADER_1>>
    <3>1. CASE Restarts(Task, byte, r)
      BY <1>2, <2>1, <3>1 DEF Restarts
    <3>2. CASE Grows(Task, byte, r) /\ (Len(Task.st.bytes) = 1 => byte = HEADER_1)
      BY <1>2, <2>2, <2>5, <2>6, <3>2 DEF Grows
    <3>3. ~Drops(Task, byte, r) /\ ~Completes(Task, byte, r)
      BY <2>5, <2>3 DEF Drops, Completes
    <3> QED
      BY <1>2, <3>1, <3>2, <3>3 DEF Fate
  <2> QED
    BY <1>1, <1>2, <1>3, <1>5, <2>4, <2>7 DEF Remains
<1> QED
  BY <1>3, <1>4, <1>5

\* Every step keeps what may be left of a frame that is hit once.
LEMMA SingleHitStays ==
    TypeOK /\ FaultsInv /\ UnharmedInv /\ SingleHitInv /\ [Next]_vars => SingleHitInv'
<1> SUFFICES ASSUME TypeOK, FaultsInv, UnharmedInv, SingleHitInv, [Next]_vars,
                    damage'.hits = 1, ~Altered'
             PROVE  taken' \in {NoFrame, line'.frame} /\ Remains'
  BY DEF SingleHitInv, Remains, NoFrame
<1>0. /\ damage.hits \in Nat /\ damage.added \in Nat /\ damage.noise \in Nat
      /\ damage.hits > 0 /\ ~damage.joined => line.sent > 0
      /\ damage.hits = 1 /\ ~Altered => taken \in {NoFrame, line.frame} /\ Remains
      /\ damage.hits = 0 /\ ~Altered => ~Harmed
  BY Numbers DEF FaultsInv, Damage, SingleHitInv, Remains, Altered, Harmed
<1>1. ASSUME NEW frame \in FramesOf(side), FrameBegins(frame) PROVE FALSE
  BY <1>1, Begins
<1>2. CASE ByteArrives
  <2>1. /\ ~Between
        /\ damage'.hits = damage.hits /\ damage'.added = damage.added
        /\ damage'.noise = damage.noise /\ damage'.joined = damage.joined
        /\ line'.frame = line.frame
    BY <1>2, Arrives
  <2>2. damage.hits = 1 /\ ~Altered /\ ~damage.joined
    BY <2>1 DEF Altered
  <2>3. Remains' /\ taken' \in {taken, line.frame}
    BY <1>0, <1>2, <2>1, <2>2, RemainsAfter
  <2> QED
    BY <1>0, <2>1, <2>2, <2>3
<1>3. ASSUME NEW byte \in Byte, ByteLost \/ ByteChanged(byte)
      PROVE  taken' \in {NoFrame, line'.frame} /\ Remains'
  <2>1. /\ damage'.hits = damage.hits + 1 /\ damage'.added = damage.added
        /\ damage'.noise = damage.noise /\ damage'.joined = damage.joined
    BY <1>3, LostOrChanged
  <2>2. ~Harmed
    BY <1>0, <2>1 DEF Altered
  <2> QED
    BY <1>3, <2>2, RemainsOfLost, RemainsOfChanged
<1>4. ASSUME NEW byte \in Byte, ByteAdded(byte) PROVE FALSE
  <2>1. damage'.added > 0 \/ damage'.noise > 0
    BY <1>4, Adds
  <2> QED
    BY <2>1 DEF Altered
<1>5. CASE Pause
  <2>1. /\ Within /\ ~Between /\ UNCHANGED <<side, stream, taken, line>>
        /\ damage'.hits = damage.hits + 1 /\ damage'.added = damage.added
        /\ damage'.noise = damage.noise /\ damage'.joined = damage.joined
    BY <1>5, Pauses
  <2>2. ~Harmed
    BY <1>0, <2>1 DEF Altered
  <2>3. stream.bytes = Sent(line.sent) /\ taken = NoFrame
    BY <2>1, <2>2 DEF UnharmedInv
  <2> QED
    BY <2>1, <2>3 DEF Remains, Sent
<1>6. CASE Tick
  <2>1. /\ line'.frame = line.frame /\ line'.sent = line.sent
        /\ UNCHANGED <<side, stream, taken, damage>>
    BY <1>6, Ticks
  <2>2. Remains /\ taken \in {NoFrame, line.frame}
    BY <1>0, <2>1 DEF Altered
  <2>3. Remains'
    BY <2>1, <2>2 DEF Remains, OneOff, Sent
  <2> QED
    BY <2>1, <2>2, <2>3
<1>7. CASE TimedOut
  <2>1. stream'.bytes = <<>> /\ UNCHANGED <<taken, line, damage>>
    BY <1>7, TimesOut
  <2>2. line.sent > 0 /\ taken \in {NoFrame, line.frame}
    BY <1>0, <2>1 DEF Altered
  <2>3. Len(stream'.bytes) < line'.sent
    BY <2>1, <2>2, EmptySeq
  <2> QED
    BY <2>1, <2>2, <2>3 DEF Remains
<1>8. CASE Commands \/ UNCHANGED vars
  <2>1. /\ UNCHANGED <<side, stream, taken, line>>
        /\ damage'.hits = damage.hits /\ damage'.added = damage.added
        /\ damage'.noise = damage.noise /\ damage'.joined = damage.joined
    BY <1>8, CommandSteps DEF vars
  <2>2. Remains /\ taken \in {NoFrame, line.frame}
    BY <1>0, <2>1 DEF Altered
  <2>3. Remains'
    BY <2>1, <2>2 DEF Remains, OneOff, Sent
  <2> QED
    BY <2>1, <2>2, <2>3
<1> QED
  BY <1>1, <1>2, <1>3, <1>4, <1>5, <1>6, <1>7, <1>8, Cases

-----------------------------------------------------------------------------
(* What goes out *)

\* What forwarding a byte writes, with no command half sent.
LEMMA ForwardingWrites ==
    ASSUME TypeOK, ready => ~mirror, NEW t \in TaskType, NEW byte \in Byte,
           NEW index \in Nat, ~t.st.overlayValid,
           NEW r, r = HybridForward(t, index, byte)
    PROVE  /\ ~r.st.overlayValid
           /\ side = "panel" /\ index = 0 =>
                /\ r.st.burstSent <=> ready
                /\ mirror => r.out = t.out
                /\ ~mirror /\ ready => r.out = Append(t.out, Burst)
                /\ ~mirror /\ ~ready => r.out = Append(t.out, byte)
           /\ side = "panel" /\ index > 0 =>
                /\ r.st.burstSent <=> t.st.burstSent
                /\ mirror \/ t.st.burstSent => r.out = t.out
                /\ ~mirror /\ ~t.st.burstSent => r.out = Append(t.out, byte)
<1> DEFINE withheld == Withheld(t, index)
           valid    == IF index = 0 THEN ready ELSE t.st.overlayValid
           starts   == ~mirror /\ index = 0 /\ valid
           outgoing == CASE starts -> Burst
                         [] valid /\ ~starts /\ index < OwnSize("panel") -> Piece
                         [] OTHER -> byte
           A == valid /\ ~starts
           B == starts \/ (index > 0 /\ t.st.burstSent)
           C == IF mirror \/ withheld THEN t.out ELSE Append(t.out, outgoing)
<1>1. CASE side # "panel"
  BY <1>1 DEF HybridForward
<1>2. CASE side = "panel"
  <2>1. r = [t EXCEPT !.st.overlayValid = A, !.st.burstSent = B, !.out = C]
    BY <1>2 DEF HybridForward, TaskType
  <2> HIDE DEF A, B, C
  <2>2. r.st.overlayValid = A /\ r.st.burstSent = B /\ r.out = C
    BY <2>1 DEF TaskType
  <2> USE DEF A, B, C
  <2>3. ~A
    <3>1. index = 0 => (A <=> ready /\ ~(~mirror /\ ready))
      BY Zenon
    <3>2. index # 0 => ~A
      BY Zenon
    <3> QED
      BY <3>1, <3>2, Zenon
  <2>4. ASSUME index = 0
        PROVE  /\ B <=> ready
               /\ mirror => C = t.out
               /\ ~mirror /\ ready => C = Append(t.out, Burst)
               /\ ~mirror /\ ~ready => C = Append(t.out, byte)
    <3>1. ~(index > 0)
      BY <2>4
    <3>2. starts <=> ready
      BY <2>4, Zenon
    <3>3. ~withheld
      BY <3>1, Zenon DEF Withheld
    <3>4. ~ready => outgoing = byte
      BY <2>4, <3>2, Zenon
    <3>5. ready => outgoing = Burst
      BY <3>2, Zenon
    <3> HIDE DEF starts, withheld, outgoing
    <3> QED
      BY <3>1, <3>2, <3>3, <3>4, <3>5, Zenon
  <2>5. ASSUME index > 0
        PROVE  /\ B <=> t.st.burstSent
               /\ mirror \/ t.st.burstSent => C = t.out
               /\ ~mirror /\ ~t.st.burstSent => C = Append(t.out, byte)
    <3>1. index # 0
      BY <2>5
    <3>2. ~valid /\ ~starts
      BY <3>1, Zenon
    <3>3. withheld <=> t.st.burstSent
      BY <2>5, Zenon DEF Withheld
    <3>4. outgoing = byte
      BY <3>2, Zenon
    <3> HIDE DEF starts, withheld, outgoing
    <3> QED
      BY <2>5, <3>2, <3>3, <3>4, Zenon
  <2> HIDE DEF A, B, C
  <2> QED
    BY <1>2, <2>2, <2>3, <2>4, <2>5, Zenon
<1> QED
  BY <1>1, <1>2

\* What a byte that starts a frame makes the task write ...
SpeaksFirst(t, r) ==
    /\ r.st.burstSent <=> ready
    /\ mirror => r.out = t.out
    /\ ~mirror /\ ready => r.out = Append(t.out, Burst)
    /\ ~mirror /\ ~ready => r.out = Append(t.out, HEADER_0)

\* ... and any other byte of a frame.
SpeaksOn(t, byte, r) ==
    /\ r.st.burstSent <=> t.st.burstSent
    /\ mirror \/ t.st.burstSent => r.out = t.out
    /\ ~mirror /\ ~t.st.burstSent => r.out = Append(t.out, byte)

\* The first byte in an empty buffer.
LEMMA FirstSpeaks ==
    ASSUME TypeOK, ready => ~mirror, NEW t \in TaskType, NEW byte \in Byte,
           ~t.st.overlayValid, NEW r, r = FirstByte(t, byte)
    PROVE  /\ ~r.st.overlayValid
           /\ side = "panel" /\ byte = HEADER_0 => SpeaksFirst(t, r)
<1>1. CASE byte = HEADER_0
  <2> DEFINE u == [t EXCEPT !.st.bytes = <<byte>>]
  <2>1. <<byte>> \in Seq(Byte)
    OBVIOUS
  <2>2. u \in TaskType /\ ~u.st.overlayValid /\ u.out = t.out
    BY <2>1 DEF TaskType
  <2>3. r = HybridForward(u, 0, byte)
    BY <1>1 DEF FirstByte
  <2> HIDE DEF u
  <2>4. /\ ~r.st.overlayValid
        /\ side = "panel" =>
                /\ r.st.burstSent <=> ready
                /\ mirror => r.out = u.out
                /\ ~mirror /\ ready => r.out = Append(u.out, Burst)
                /\ ~mirror /\ ~ready => r.out = Append(u.out, byte)
    BY <2>2, <2>3, ForwardingWrites
  <2> QED
    BY <1>1, <2>2, <2>4 DEF SpeaksFirst
<1>2. CASE byte # HEADER_0
  <2>1. r.st = t.st
    BY <1>2 DEF FirstByte, TaskType
  <2> QED
    BY <1>2, <2>1
<1> QED
  BY <1>1, <1>2

\* A byte in a buffer that holds a header.
LEMMA NextSpeaks ==
    ASSUME TypeOK, ready => ~mirror, NEW t \in TaskType, NEW byte \in Byte,
           ~t.st.overlayValid, Len(t.st.bytes) >= 1, NEW r, r = NextByte(t, byte)
    PROVE  /\ ~r.st.overlayValid
           /\ side = "panel" => SpeaksOn(t, byte, r)
<1> DEFINE all   == Append(t.st.bytes, byte)
           u     == [t EXCEPT !.st.bytes = all]
           index == Len(t.st.bytes)
           added == HybridForward(u, index, byte)
           bytes == added.st.bytes
           valid == ChecksumValid(bytes)
           done  == IF Processed(added, valid)
                    THEN ProcessCompleteFrame(added) ELSE added
<1>1. all \in Seq(Byte) /\ index \in Nat /\ index > 0
  BY Longer DEF TaskType
<1>2. u \in TaskType /\ ~u.st.overlayValid /\ u.out = t.out
      /\ u.st.burstSent = t.st.burstSent
  BY <1>1 DEF TaskType
<1>3. \/ r = Flush(added)
      \/ r = [done EXCEPT !.st.bytes = <<>>, !.st.synchronized = @ \/ valid]
      \/ r = added
  BY DEF NextByte
<1> HIDE DEF all, u, index
<1>4. /\ ~added.st.overlayValid
      /\ side = "panel" => SpeaksOn(t, byte, added)
  <2>1. /\ ~added.st.overlayValid
        /\ side = "panel" =>
                /\ added.st.burstSent <=> u.st.burstSent
                /\ mirror \/ u.st.burstSent => added.out = u.out
                /\ ~mirror /\ ~u.st.burstSent => added.out = Append(u.out, byte)
    BY <1>1, <1>2, ForwardingWrites
  <2> QED
    BY <1>2, <2>1 DEF SpeaksOn
<1>5. added \in TaskType
  BY <1>1, <1>2, Forwarding
<1> HIDE DEF added
<1>6. /\ done.st.overlayValid = added.st.overlayValid
      /\ done.st.burstSent = added.st.burstSent /\ done.out = added.out
  BY <1>5 DEF ProcessCompleteFrame, TaskType
<1>7. done \in [st : Stream, got : {done.got}, err : {done.err}, out : {done.out}]
  BY <1>5 DEF ProcessCompleteFrame, TaskType, Stream
<1> HIDE DEF done, valid
<1>8. /\ r.st.overlayValid = added.st.overlayValid
      /\ r.st.burstSent = added.st.burstSent /\ r.out = added.out
  <2>1. CASE r = Flush(added)
    BY <1>5, <2>1, Flushing
  <2>2. CASE r = [done EXCEPT !.st.bytes = <<>>, !.st.synchronized = @ \/ valid]
    BY <1>6, <1>7, <2>2 DEF Stream
  <2>3. CASE r = added
    BY <2>3
  <2> QED
    BY <1>3, <2>1, <2>2, <2>3
<1> QED
  BY <1>4, <1>8 DEF SpeaksOn

\* What a byte that starts a frame makes the task carry, and any other byte of
\* one: the panel's bytes by the mirror, or by the UART if they are not withheld.
Starts(byte) ==
    /\ ~stream'.overlayValid
    /\ stream'.burstSent <=> ready
    /\ carried' = Append(carried, IF ready THEN Burst ELSE byte)

Continues(byte) ==
    /\ ~stream'.overlayValid
    /\ stream'.burstSent <=> stream.burstSent
    /\ carried' = IF ~mirror /\ stream.burstSent THEN carried
                  ELSE Append(carried, byte)

\* consume_byte: what a byte makes the task write.
LEMMA Speaking ==
    ASSUME TypeOK, ready => ~mirror, NEW byte \in Byte, Consume(byte),
           ~stream.overlayValid
    PROVE  /\ ~stream'.overlayValid
           /\ side = "panel" /\ byte = HEADER_0 /\ stream.bytes \in {<<>>, <<HEADER_0>>} =>
                Starts(byte)
           /\ side = "panel" /\ Len(stream.bytes) >= 1
              /\ (Len(stream.bytes) = 1 => byte = HEADER_1) => Continues(byte)
<1> DEFINE t == Heard(byte)
           r == Consumed(t, byte)
<1>1. /\ t \in TaskType /\ t.st = stream /\ t.out = Mirrored(byte)
      /\ Beginning(stream.bytes) /\ Len(stream.bytes) \in Nat
      /\ (stream.bytes = <<>> <=> Len(stream.bytes) = 0)
  BY Mirroring, Numbers
<1>2. stream' = r.st /\ carried' = r.out
  BY DEF Consume, Heard
<1> HIDE DEF r, t
<1>3. side = "panel" /\ byte = HEADER_0 /\ ~r.st.overlayValid /\ SpeaksFirst(t, r) => Starts(byte)
  BY <1>1, <1>2 DEF SpeaksFirst, Starts, Mirrored
<1>4. side = "panel" /\ ~r.st.overlayValid /\ SpeaksOn(t, byte, r) => Continues(byte)
  BY <1>1, <1>2 DEF SpeaksOn, Continues, Mirrored
<1>5. CASE stream.bytes = <<>>
  <2>1. r = FirstByte(t, byte)
    BY <1>1, <1>5 DEF Consumed, r
  <2>2. /\ ~r.st.overlayValid
        /\ side = "panel" /\ byte = HEADER_0 => SpeaksFirst(t, r)
    BY <1>1, <2>1, FirstSpeaks
  <2>3. ~(Len(stream.bytes) >= 1)
    BY <1>1, <1>5
  <2> QED
    BY <1>2, <1>3, <2>2, <2>3
<1>6. CASE Len(stream.bytes) = 1 /\ byte # HEADER_1
  <2> DEFINE u == Flush(t)
  <2>1. r = FirstByte(u, byte)
    BY <1>1, <1>6 DEF Consumed, r
  <2>2. u \in TaskType /\ u.out = t.out /\ u.st.overlayValid = stream.overlayValid
    BY <1>1, Flushing
  <2> HIDE DEF u
  <2>3. /\ ~r.st.overlayValid
        /\ side = "panel" /\ byte = HEADER_0 => SpeaksFirst(u, r)
    BY <1>1, <2>1, <2>2, FirstSpeaks
  <2>4. SpeaksFirst(u, r) => SpeaksFirst(t, r)
    BY <2>2 DEF SpeaksFirst
  <2> QED
    BY <1>2, <1>3, <1>6, <2>3, <2>4
<1>7. CASE Len(stream.bytes) >= 1 /\ (Len(stream.bytes) = 1 => byte = HEADER_1)
  <2>1. r = NextByte(t, byte)
    BY <1>1, <1>7 DEF Consumed, r
  <2>2. /\ ~r.st.overlayValid
        /\ side = "panel" => SpeaksOn(t, byte, r)
    BY <1>1, <1>7, <2>1, NextSpeaks
  <2>3. ~(byte = HEADER_0 /\ stream.bytes \in {<<>>, <<HEADER_0>>})
    <3>1. Len(<<HEADER_0>>) = 1 /\ HEADER_0 # HEADER_1
      BY BytesAssumption
    <3>2. stream.bytes # <<>>
      BY <1>1, <1>7
    <3> QED
      BY <1>7, <3>1, <3>2
  <2> QED
    BY <1>2, <1>4, <2>2, <2>3
<1> QED
  BY <1>1, <1>5, <1>6, <1>7

\* One byte more of a frame, behind a burst.
LEMMA TailGrows ==
    ASSUME NEW f \in Seq(Byte), NEW b \in Nat, NEW n \in Nat, b <= n, n < Len(f)
    PROVE  Append(<<Burst>> \o SubSeq(f, b + 1, n), f[n + 1])
                = <<Burst>> \o SubSeq(f, b + 1, n + 1)
<1> DEFINE S    == Byte \cup {Burst, Piece}
           tail == SubSeq(f, b + 1, n)
           next == f[n + 1]
<1>1. Len(f) \in Nat /\ b + 1 \in 1..Len(f) /\ n + 1 \in (b + 1)..Len(f) /\ (n + 1) - 1 = n
  BY LenProperties
<1>2. \A i \in (b + 1)..(n + 1) : f[i] \in Byte
  BY <1>1, ElementOfSeq
<1>3. tail \in Seq(Byte) /\ next \in Byte
  BY <1>1, <1>2, SubSeqProperties
<1>4. SubSeq(f, b + 1, n + 1) = tail \o <<next>>
  BY <1>1, SubSeqRecursiveSecond
<1> HIDE DEF tail, next
<1>5. tail \in Seq(S) /\ <<Burst>> \in Seq(S) /\ next \in S /\ <<next>> \in Seq(S)
  BY <1>3
<1> HIDE DEF S
<1>6. <<Burst>> \o tail \in Seq(S)
  BY <1>5, ConcatProperties
<1>7. Append(<<Burst>> \o tail, next) = (<<Burst>> \o tail) \o <<next>>
  BY <1>5, <1>6, AppendIsConcat
<1>8. (<<Burst>> \o tail) \o <<next>> = <<Burst>> \o (tail \o <<next>>)
  BY <1>5, ConcatAssociative
<1> QED
  BY <1>4, <1>7, <1>8 DEF tail, next

\* A burst with nothing behind it.
LEMMA BurstAlone == <<Burst>> \o <<>> = <<Burst>> /\ Append(<<>>, Burst) = <<Burst>>
<1>1. <<Burst>> \in Seq({Burst})
  OBVIOUS
<1> QED
  BY <1>1, ConcatEmptySeq

\* The next byte of an unharmed frame.
LEMMA VoiceAfter ==
    ASSUME TypeOK, UnharmedInv, ready => ~mirror,
           ~stream.overlayValid, Voice, ByteArrives, ~Harmed, side = "panel"
    PROVE  Voice'
<1> DEFINE f == line.frame
           n == line.sent
           b == damage.back
<1>1. /\ ~Between /\ f[n + 1] \in Byte /\ n \in 0..(OwnSize(side) - 1)
      /\ f \in FramesOf(side) /\ Consume(f[n + 1])
      /\ line'.frame = f /\ line'.sent = n + 1 /\ n \in Nat
      /\ damage'.back = b /\ UNCHANGED <<mirror, ready, side>>
  BY Arrives, Numbers
<1>2. /\ f \in Seq(Byte) /\ OwnSize(side) = Len(f) /\ n \in 0..Len(f) /\ n < Len(f)
      /\ f[1] = HEADER_0 /\ f[2] = HEADER_1
  BY <1>1, Frames, Numbers
<1>3. b \in 0..n
  BY DEF Voice
<1>4. /\ f[n + 1] = HEADER_0 /\ stream.bytes \in {<<>>, <<HEADER_0>>} => Starts(f[n + 1])
      /\ Len(stream.bytes) >= 1 /\ (Len(stream.bytes) = 1 => f[n + 1] = HEADER_1) =>
            Continues(f[n + 1])
  BY <1>1, Speaking
<1>5. /\ Sent(line.sent)' = SubSeq(f, 1, n + 1)
      /\ Sent(line.sent) = SubSeq(f, 1, n)
      /\ Append(SubSeq(f, 1, n), f[n + 1]) = SubSeq(f, 1, n + 1)
  BY <1>1, <1>2, Beginnings DEF Sent
<1>6. damage'.back \in 0..line'.sent /\ line'.sent > 0
  BY <1>1, <1>3
<1>7. CASE n = 0
  <2>1. f[n + 1] = HEADER_0 /\ stream.bytes \in {<<>>, <<HEADER_0>>} /\ carried = <<>>
    BY <1>2, <1>7 DEF UnharmedInv, Harmed, Voice
  <2>2. Starts(f[n + 1]) /\ b = 0
    BY <1>3, <1>4, <1>7, <2>1
  <2>3. SubSeq(f, 1, n) = <<>>
    BY <1>2, <1>7, Beginnings
  <2> HIDE DEF f, n, b
  <2>4. CASE ready
    <3>1. carried' = <<Burst>> \o <<>> /\ stream'.burstSent
      BY <2>1, <2>2, <2>4, BurstAlone DEF Starts
    <3>2. AfterBurst' = <<>> /\ ~mirror' /\ damage'.back = 0
      BY <1>1, <2>2, <2>4 DEF AfterBurst
    <3> QED
      BY <1>6, <3>1, <3>2 DEF Voice
  <2>5. CASE ~ready
    <3>1. carried' = Sent(line.sent)' /\ ~stream'.burstSent
      BY <1>5, <2>1, <2>2, <2>3, <2>5 DEF Starts
    <3> QED
      BY <1>6, <3>1 DEF Voice
  <2> QED
    BY <2>4, <2>5
<1>8. CASE n > 0
  <2>1. Within
    BY <1>1, <1>8, Numbers DEF Within
  <2>2. stream.bytes = SubSeq(f, 1, n) /\ n = Len(stream.bytes)
    BY <1>2, <2>1, Beginnings DEF UnharmedInv, Sent
  <2>3. Continues(f[n + 1])
    <3>1. Len(stream.bytes) = 1 => f[n + 1] = HEADER_1
      <4>1. n = 1 => f[n + 1] = HEADER_1
        BY <1>2
      <4> HIDE DEF f, n
      <4> QED
        BY <2>2, <4>1
    <3> HIDE DEF n
    <3>2. Len(stream.bytes) >= 1
      BY <1>1, <1>8, <2>2
    <3> QED
      BY <1>4, <3>1, <3>2
  <2>4. CASE carried = Sent(line.sent) /\ ~stream.burstSent
    <3>1. carried' = Sent(line.sent)' /\ ~stream'.burstSent
      BY <1>5, <2>3, <2>4 DEF Continues
    <3> QED
      BY <1>6, <3>1 DEF Voice
  <2>5. CASE /\ carried = <<Burst>> \o AfterBurst
             /\ stream.burstSent /\ (mirror <=> b # 0)
    <3>1. stream'.burstSent /\ (mirror' <=> damage'.back # 0)
      BY <1>1, <2>3, <2>5 DEF Continues
    <3>2. CASE b = 0
      <4>1. carried' = carried /\ AfterBurst = <<>> /\ AfterBurst' = <<>>
        BY <1>1, <2>3, <2>5, <3>2 DEF Continues, AfterBurst
      <4> QED
        BY <1>6, <2>5, <3>1, <4>1 DEF Voice
    <3>3. CASE b # 0
      <4>1. AfterBurst = SubSeq(f, b + 1, n) /\ AfterBurst' = SubSeq(f, b + 1, n + 1)
        BY <1>1, <3>3 DEF AfterBurst
      <4>2. carried' = Append(<<Burst>> \o SubSeq(f, b + 1, n), f[n + 1])
        BY <2>3, <2>5, <3>3, <4>1 DEF Continues
      <4>3. carried' = <<Burst>> \o AfterBurst'
        <5>1. b \in Nat /\ b <= n
          BY <1>3
        <5> QED
          BY <1>1, <1>2, <4>1, <4>2, <5>1, TailGrows
      <4> QED
        BY <1>6, <3>1, <4>3 DEF Voice
    <3> QED
      BY <3>2, <3>3
  <2> QED
    BY <1>8, <2>1, <2>4, <2>5 DEF Voice
<1> QED
  BY <1>1, <1>7, <1>8

\* Every step keeps one voice.
LEMMA VoiceStays ==
    TypeOK /\ FaultsInv /\ UnharmedInv /\ VoiceInv /\ [Next]_vars => VoiceInv'
<1> SUFFICES ASSUME TypeOK, FaultsInv, UnharmedInv, VoiceInv, [Next]_vars
             PROVE  VoiceInv'
  OBVIOUS
<1>0. /\ ~stream.overlayValid /\ (ready => ~mirror)
      /\ side = "panel" /\ ~Harmed /\ damage.noise = 0 => Voice
      /\ damage.hits \in Nat /\ damage.added \in Nat /\ damage.noise \in Nat
      /\ line.sent \in Nat /\ (damage.noise > 0 => Between)
  BY Numbers DEF VoiceInv, FaultsInv, Damage
<1>1. ASSUME ~stream'.overlayValid, ready' => ~mirror',
             side' = "panel" /\ ~Harmed' /\ damage'.noise = 0 => Voice'
      PROVE  VoiceInv'
  BY <1>1 DEF VoiceInv
<1>2. ASSUME NEW frame \in FramesOf(side), FrameBegins(frame) PROVE VoiceInv'
  <2>1. /\ line'.sent = 0 /\ carried' = <<>> /\ damage'.back = 0
        /\ UNCHANGED <<stream, mirror, ready>>
    BY <1>2, Begins
  <2>2. Voice'
    BY <2>1 DEF Voice
  <2> QED
    BY <1>0, <1>1, <2>1, <2>2
<1>3. CASE ByteArrives
  <2>1. /\ ~Between /\ Consume(line.frame[line.sent + 1])
        /\ line.frame[line.sent + 1] \in Byte
        /\ damage'.hits = damage.hits /\ damage'.added = damage.added
        /\ damage'.noise = damage.noise /\ damage'.joined = damage.joined
        /\ UNCHANGED <<side, mirror, ready>>
    BY <1>3, Arrives
  <2>2. ~stream'.overlayValid
    BY <1>0, <2>1, Speaking
  <2>3. ASSUME side' = "panel", ~Harmed', damage'.noise = 0 PROVE Voice'
    <3>1. side = "panel" /\ ~Harmed /\ damage.noise = 0
      BY <2>1, <2>3 DEF Harmed
    <3> QED
      BY <1>0, <1>3, <3>1, VoiceAfter
  <2> QED
    BY <1>0, <1>1, <2>1, <2>2, <2>3
<1>4. ASSUME NEW byte \in Byte, ByteLost \/ ByteChanged(byte) PROVE VoiceInv'
  <2>1. /\ damage'.hits > 0
        /\ UNCHANGED <<side, mirror, ready>>
        /\ stream' = stream \/ Consume(byte)
    BY <1>4, LostOrChanged
  <2>2. ~stream'.overlayValid
    BY <1>0, <2>1, Speaking
  <2>3. Harmed'
    BY <2>1 DEF Harmed
  <2> QED
    BY <1>0, <1>1, <2>1, <2>2, <2>3
<1>5. ASSUME NEW byte \in Byte, ByteAdded(byte) PROVE VoiceInv'
  <2>1. /\ Consume(byte)
        /\ damage'.added > 0 \/ damage'.noise > 0
        /\ UNCHANGED <<side, mirror, ready>>
    BY <1>5, Adds
  <2>2. ~stream'.overlayValid
    BY <1>0, <2>1, Speaking
  <2>3. Harmed' \/ damage'.noise # 0
    BY <2>1 DEF Harmed
  <2> QED
    BY <1>0, <1>1, <2>1, <2>2, <2>3
<1>6. CASE Pause
  <2>1. /\ damage'.hits > 0
        /\ UNCHANGED <<side, stream, mirror, ready>>
    BY <1>6, Pauses
  <2>2. Harmed'
    BY <2>1 DEF Harmed
  <2> QED
    BY <1>0, <1>1, <2>1, <2>2
<1>7. CASE Tick
  <2>1. /\ line'.frame = line.frame /\ line'.sent = line.sent
        /\ UNCHANGED <<side, stream, carried, mirror, ready, damage>>
    BY <1>7, Ticks
  <2>2. Voice => Voice'
    BY <2>1 DEF Voice, Within, Sent, AfterBurst
  <2> QED
    BY <1>0, <1>1, <2>1, <2>2 DEF Harmed
<1>8. CASE TimedOut
  <2>1. /\ stream'.overlayValid = stream.overlayValid
        /\ stream'.burstSent = stream.burstSent
        /\ UNCHANGED <<side, carried, mirror, ready, line, damage>>
    BY <1>8, TimesOut
  <2>2. Voice => Voice'
    BY <2>1 DEF Voice, Within, Sent, AfterBurst
  <2> QED
    BY <1>0, <1>1, <2>1, <2>2 DEF Harmed
<1>9. CASE Commands
  <2>1. /\ UNCHANGED <<side, stream, carried, quiet, line>>
        /\ damage'.hits = damage.hits /\ damage'.added = damage.added
        /\ damage'.noise = damage.noise /\ damage'.joined = damage.joined
    BY <1>9, CommandSteps
  <2>2. Within' = Within /\ Sent(line.sent)' = Sent(line.sent)
    BY <2>1 DEF Within, Sent
  <2>3. CASE TakeoverGate
    <3>1. mirror /\ quiet >= Timeout /\ ~mirror' /\ ~ready' /\ damage' = damage
      BY <2>3 DEF TakeoverGate, SetTakeover
    <3>2. ~Harmed => ~Within
      BY <3>1, Numbers DEF UnharmedInv
    <3>3. ~Harmed /\ Voice => Voice'
      <4>1. AfterBurst' = AfterBurst
        BY <2>1, <3>1 DEF AfterBurst
      <4> QED
        BY <2>1, <2>2, <3>1, <3>2, <4>1 DEF Voice
    <3> QED
      BY <1>0, <1>1, <2>1, <3>1, <3>3 DEF Harmed
  <2>4. CASE TakeoverCommit \/ CommandEnds
    <3>1. ~mirror /\ ~mirror' /\ damage' = damage
      BY <1>0, <2>4 DEF TakeoverCommit, CommandEnds, SetTakeover
    <3>2. Voice => Voice'
      <4>1. AfterBurst' = AfterBurst
        BY <2>1, <3>1 DEF AfterBurst
      <4> QED
        BY <2>1, <2>2, <3>1, <4>1 DEF Voice
    <3> QED
      BY <1>0, <1>1, <2>1, <3>1, <3>2 DEF Harmed
  <2>5. CASE MirrorReturns
    <3>1. /\ ~mirror /\ mirror' /\ ~ready'
          /\ damage' = [damage EXCEPT !.back = IF Within THEN line.sent ELSE @]
      BY <2>5 DEF MirrorReturns, SetTakeover
    <3>2. /\ damage \in Damage
          /\ Within => damage'.back = line.sent
          /\ ~Within => damage'.back = damage.back
      BY <3>1, Numbers DEF Damage
    <3>3. CASE Within
      <4>1. damage'.back = line'.sent /\ line.sent > 0 /\ line'.sent > 0 /\ line.sent \in Nat
        BY <1>0, <2>1, <3>2, <3>3 DEF Within
      <4>2. AfterBurst' = <<>>
        <5>1. AfterBurst' = SubSeq(line'.frame, line'.sent + 1, line'.sent)
          BY <2>1, <4>1 DEF AfterBurst
        <5> QED
          BY <2>1, <4>1, <5>1, SubSeqEmpty
      <4>3. damage.back = 0 => AfterBurst = <<>>
        BY DEF AfterBurst
      <4>4. damage'.back \in 0..line'.sent /\ damage'.back # 0
        BY <2>1, <4>1
      <4>5. Voice => Voice'
        BY <2>1, <2>2, <3>1, <3>3, <4>1, <4>2, <4>3, <4>4 DEF Voice
      <4> QED
        BY <1>0, <1>1, <2>1, <3>1, <4>5 DEF Harmed
    <3>4. CASE ~Within
      <4>1. AfterBurst' = AfterBurst /\ damage'.back = damage.back
        BY <2>1, <3>2, <3>4 DEF AfterBurst
      <4>2. Voice => Voice'
        BY <2>1, <2>2, <3>4, <4>1 DEF Voice
      <4> QED
        BY <1>0, <1>1, <2>1, <3>1, <4>2 DEF Harmed
    <3> QED
      BY <3>3, <3>4
  <2> QED
    BY <1>9, <2>3, <2>4, <2>5 DEF Commands
<1>10. CASE UNCHANGED vars
  <2>1. Voice => Voice'
    BY <1>10 DEF vars, Voice, Within, Sent, AfterBurst
  <2> QED
    BY <1>0, <1>1, <1>10, <2>1 DEF vars, Harmed
<1> QED
  BY <1>2, <1>3, <1>4, <1>5, <1>6, <1>7, <1>8, <1>9, <1>10, Cases

-----------------------------------------------------------------------------
(* The invariant *)

\* A task that starts to listen, at any point of a frame.
LEMMA InvHolds == Init => StreamInv
<1> SUFFICES ASSUME Init PROVE StreamInv
  OBVIOUS
<1>1. TypeOK
  BY TypesHold
<1>2. PICK frame \in FramesOf(side), sent \in 0..OwnSize(side) :
        /\ line = [frame |-> frame, sent |-> sent, silent |-> 0]
        /\ damage = [hits |-> 0, added |-> 0, noise |-> 0, joined |-> sent > 0,
                     heard |-> FALSE, counting |-> FALSE, back |-> 0]
  BY DEF Init
<1>3. /\ line.sent = sent /\ line.silent = 0 /\ sent \in Nat
      /\ damage.hits = 0 /\ damage.added = 0 /\ damage.noise = 0
      /\ damage.joined <=> sent > 0
      /\ ~damage.heard /\ ~damage.counting /\ damage.back = 0
  <2>1. sent \in Nat
    BY <1>1, Numbers
  <2>2. line.sent = sent /\ line.silent = 0
    BY <1>2
  <2>3. damage.hits = 0 /\ damage.added = 0 /\ damage.noise = 0
    BY <1>2
  <2>4. /\ damage.joined <=> sent > 0
        /\ ~damage.heard /\ ~damage.counting
    BY <1>2, Zenon
  <2>5. damage.back = 0
    BY <1>2
  <2> QED
    BY <2>1, <2>2, <2>3, <2>4, <2>5
<1>4. /\ stream.bytes = <<>> /\ ~stream.overlayValid /\ taken = NoFrame
      /\ mirror = TRUE /\ ready = FALSE /\ carried = <<>> /\ faults = 0
  BY DEF Init
<1>5. FaultsInv
  BY <1>3, <1>4 DEF FaultsInv
<1>6. SilenceInv
  BY <1>3, <1>4 DEF SilenceInv
<1>7. UnharmedInv
  <2>1. ~Harmed => line.sent = 0
    BY <1>3 DEF Harmed
  <2>2. line.sent = 0 => ~Within /\ ~Between
    BY <1>1, Numbers DEF Within, Between
  <2> QED
    BY <1>4, <2>1, <2>2 DEF UnharmedInv
<1>8. SingleHitInv
  BY <1>3 DEF SingleHitInv
<1>9. LossInv
  BY <1>3 DEF LossInv
<1>10. VoiceInv
  <2>1. ~Harmed => line.sent = 0
    BY <1>3 DEF Harmed
  <2> QED
    BY <1>3, <1>4, <2>1 DEF VoiceInv, Voice
<1> QED
  BY <1>1, <1>5, <1>6, <1>7, <1>8, <1>9, <1>10 DEF StreamInv

\* Every step.
LEMMA InvStays == StreamInv /\ [Next]_vars => StreamInv'
BY TypesStay, FaultsStay, SilenceStays, UnharmedStays, SingleHitStays, LossStays,
   VoiceStays DEF StreamInv

\* Every behaviour of the stream.
LEMMA InvAlways == Spec => []StreamInv
BY InvHolds, InvStays, PTL DEF Spec

-----------------------------------------------------------------------------
(* The theorems *)

\* The two tasks keep the types of their state; a buffer never holds more than
\* the beginning of a frame (consume_byte, hybrid_forward_panel_byte).
THEOREM StreamTypeCorrect == Spec => []TypeOK
<1>1. StreamInv => TypeOK
  BY DEF StreamInv
<1> QED
  BY <1>1, InvAlways, PTL

\* Of a frame that the line left alone or hit once the handlers see what was
\* sent or nothing, with noise and joined frames apart (ac_protocol_checksum_valid,
\* the length check and the timeout).
THEOREM NoFrameMadeUp == Spec => []NoFrameIsMadeUp
<1>1. ASSUME StreamInv PROVE NoFrameIsMadeUp
  <2> SUFFICES ASSUME taken # NoFrame, damage.hits <= 1, ~Altered
               PROVE  taken = line.frame
    BY DEF NoFrameIsMadeUp
  <2>1. TypeOK /\ UnharmedInv /\ SingleHitInv
    BY <1>1 DEF StreamInv
  <2>2. /\ damage.hits \in Nat /\ damage.noise \in Nat /\ damage.added \in Nat
        /\ ~damage.joined /\ damage.added = 0 /\ damage.noise = 0
    BY <2>1, Numbers DEF Damage, Altered
  <2>3. CASE damage.hits = 1
    BY <2>1, <2>3 DEF SingleHitInv
  <2>4. CASE damage.hits = 0
    <3>1. ~Harmed /\ ~LongNoise
      BY <2>1, <2>2, <2>4, Numbers DEF Harmed, LongNoise
    <3>2. line.sent = 0 \/ Within \/ Between
      BY <2>1, Numbers DEF Within, Between
    <3> QED
      BY <2>1, <2>2, <3>1, <3>2 DEF UnharmedInv
  <2> QED
    BY <2>2, <2>3, <2>4
<1> QED
  BY <1>1, InvAlways, PTL

\* What a synchronized stream heard of a frame is taken or counted as an error
\* before the next one begins (flush_stream_raw, process_complete_frame).
THEOREM LossCounted == Spec => []LossIsCounted
<1>1. ASSUME StreamInv PROVE LossIsCounted
  <2>1. TypeOK /\ SilenceInv /\ LossInv
    BY <1>1 DEF StreamInv
  <2> QED
    BY <2>1, SilenceEmpties DEF LossIsCounted, LossInv
<1> QED
  BY <1>1, InvAlways, PTL

\* UART and mirror together carry the panel's frame so far, or a command in its
\* place and then only what came after the mirror's return
\* (hybrid_forward_panel_byte, start_hardware_mirror).
THEOREM OneVoiceAlways == Spec => []OneVoice
<1>1. ASSUME StreamInv PROVE OneVoice
  <2> SUFFICES ASSUME side = "panel", ~Harmed, damage.noise = 0
               PROVE  carried \in {Sent(line.sent), <<Burst>> \o AfterBurst}
    BY DEF OneVoice, Sent
  <2>1. Voice /\ TypeOK
    BY <1>1 DEF StreamInv, VoiceInv
  <2>2. CASE line.sent = 0
    <3>1. Sent(0) = <<>>
      BY <2>1, Numbers, Frames, Beginnings DEF Sent
    <3> QED
      BY <2>1, <2>2, <3>1 DEF Voice
  <2>3. CASE line.sent > 0
    BY <2>1, <2>3 DEF Voice
  <2> QED
    BY <2>1, <2>2, <2>3, Numbers
<1> QED
  BY <1>1, InvAlways, PTL

-----------------------------------------------------------------------------
(* The stream implements FrameLink *)

\* A step that neither changes the frame nor takes another one, nor mends it.
LEMMA Stutters ==
    ASSUME line'.frame = line.frame, taken' = taken,
           (Harmed \/ LongNoise)' <=> (Harmed \/ LongNoise)
    PROVE  UNCHANGED Link!link
<1>1. (Harmed \/ LongNoise)' = (Harmed \/ LongNoise)
  OBVIOUS
<1> QED
  BY <1>1 DEF Link!link

\* While the line leaves the frame alone nothing is taken before its end.
LEMMA NotYet ==
    ASSUME TypeOK, UnharmedInv, ~Harmed, ~Between
    PROVE  taken = NoFrame
<1>1. line.sent = 0 \/ Within
  BY Numbers DEF Within, Between
<1> QED
  BY <1>1 DEF UnharmedInv, Harmed

\* A step maps to a step of FrameLink or to none: a frame that begins is
\* offered, the last byte of an unharmed one takes it, and a fault may spoil
\* one that was not taken yet.
LEMMA StepImplements ==
    ASSUME TypeOK, FaultsInv, UnharmedInv, [Next]_vars
    PROVE  [Link!Next]_(Link!link)
<1> DEFINE harmed == Harmed \/ LongNoise
<1>0. /\ damage.hits \in Nat /\ damage.added \in Nat /\ damage.noise \in Nat
      /\ line.sent \in Nat /\ OwnSize(side) \in Nat
      /\ SizeOf(PANEL_LENGTH) \in Nat /\ SizeOf(PANEL_LENGTH) >= 4
      /\ side \in {"panel", "main"} /\ Len(stream.bytes) \in Nat
  BY Numbers DEF Damage
<1>1. ASSUME harmed', line'.frame = line.frame,
             ~harmed /\ taken # NoFrame => taken' = taken
      PROVE  Link!Mistake
  BY <1>1 DEF Link!Mistake
<1>2. ASSUME NEW frame \in FramesOf(side), FrameBegins(frame) PROVE Link!Offer
  <2>1. Between /\ line'.frame = frame /\ taken' = NoFrame
    BY <1>2, Begins
  <2>2. ~harmed => taken = line.frame
    BY <2>1 DEF UnharmedInv
  <2>3. line'.frame \in FramesOf("panel") \cup FramesOf("main")
    BY <1>0, <2>1
  <2>4. harmed' \in BOOLEAN
    BY Zenon
  <2> QED
    BY <2>1, <2>2, <2>3, <2>4 DEF Link!Offer
<1>3. CASE ByteArrives
  <2>1. /\ ~Between /\ Consume(line.frame[line.sent + 1])
        /\ line.sent \in 0..(OwnSize(side) - 1) /\ line'.frame = line.frame
        /\ damage'.hits = damage.hits /\ damage'.added = damage.added
        /\ damage'.noise = damage.noise /\ damage'.joined = damage.joined
    BY <1>3, Arrives
  <2>2. harmed' <=> harmed
    BY <2>1 DEF Harmed, LongNoise
  <2>3. CASE harmed
    BY <1>1, <2>1, <2>2, <2>3 DEF Link!Next
  <2>4. CASE ~harmed
    <3>1. taken = NoFrame
      BY <2>1, <2>4, NotYet
    <3>2. CASE line.sent + 1 < OwnSize(side)
      <4>1. taken' = NoFrame
        BY <2>1, <2>4, <3>2, NextUnharmed
      <4> QED
        BY <2>1, <2>2, <3>1, <4>1, Stutters
    <3>3. CASE line.sent + 1 = OwnSize(side)
      <4>1. taken' = line.frame
        BY <2>1, <2>4, <3>3, NextUnharmed
      <4>2. harmed' = harmed
        BY <2>2
      <4> HIDE DEF harmed
      <4>3. Link!Take
        BY <2>1, <3>1, <4>1, <4>2 DEF Link!Take, harmed
      <4> QED
        BY <4>3 DEF Link!Next
    <3> QED
      BY <1>0, <2>1, <3>2, <3>3
  <2> QED
    BY <2>3, <2>4
<1>4. ASSUME NEW byte \in Byte, ByteLost \/ ByteChanged(byte) PROVE Link!Mistake
  <2>1. ~Between /\ line'.frame = line.frame /\ damage'.hits > 0
    BY <1>4, LostOrChanged
  <2>2. harmed'
    BY <2>1 DEF Harmed
  <2>3. ~harmed => taken = NoFrame
    BY <2>1, NotYet
  <2> QED
    BY <1>1, <2>1, <2>2, <2>3
<1>5. ASSUME NEW byte \in Byte, ByteAdded(byte) PROVE [Link!Next]_(Link!link)
  <2>1. /\ (Within \/ Between) /\ Consume(byte)
        /\ Within => ~Between /\ damage'.added = damage.added + 1
        /\ Between => /\ damage'.noise = damage.noise + 1
                      /\ damage'.added = damage.added
        /\ damage'.hits = damage.hits /\ damage'.joined = damage.joined
        /\ line'.frame = line.frame
    BY <1>5, Adds
  <2>2. CASE Within
    <3>1. harmed'
      BY <1>0, <2>1, <2>2 DEF Harmed
    <3>2. ~harmed => taken = NoFrame
      BY <2>1, <2>2, NotYet
    <3> QED
      BY <1>1, <2>1, <3>1, <3>2 DEF Link!Next
  <2>3. CASE Between
    <3>1. harmed => harmed'
      <4>1. Harmed' <=> Harmed
        BY <2>1, <2>3 DEF Harmed
      <4>2. LongNoise => LongNoise'
        BY <1>0, <2>1, <2>3 DEF LongNoise
      <4> QED
        BY <4>1, <4>2
    <3>2. CASE harmed
      BY <1>1, <2>1, <3>1, <3>2 DEF Link!Next
    <3>3. CASE ~harmed
      <4>1. Task \in TaskType /\ Task' \in TaskType /\ Fate(Task, byte, Task')
        BY <2>1, Hearing
      <4>2. Task.st = stream /\ Task.got = taken /\ Task'.got = taken'
        BY DEF Task
      <4>3. taken' # taken => Len(stream.bytes) + 1 >= SizeOf(PANEL_LENGTH)
        <5> HIDE DEF Task
        <5> QED
          BY <4>1, <4>2, Outcome
      <4>4. Len(stream.bytes) <= damage.noise
        BY <2>3, <3>3 DEF UnharmedInv
      <4>5. damage.noise < SizeOf(PANEL_LENGTH) - 1
        BY <1>0, <3>3 DEF LongNoise
      <4>6. taken' = taken
        BY <1>0, <4>3, <4>4, <4>5
      <4>7. CASE harmed'
        BY <1>1, <2>1, <4>6, <4>7 DEF Link!Next
      <4>8. CASE ~harmed'
        BY <2>1, <3>3, <4>6, <4>8, Stutters
      <4> QED
        BY <4>7, <4>8
    <3> QED
      BY <3>2, <3>3
  <2> QED
    BY <2>1, <2>2, <2>3
<1>6. CASE Pause
  <2>1. line' = line /\ taken' = taken /\ damage'.hits > 0
    BY <1>6, Pauses
  <2> QED
    BY <1>1, <2>1 DEF Harmed, Link!Next
<1>7. ASSUME line'.frame = line.frame, taken' = taken,
             damage'.hits = damage.hits, damage'.added = damage.added,
             damage'.noise = damage.noise, damage'.joined = damage.joined
      PROVE  UNCHANGED Link!link
  <2>1. harmed' <=> harmed
    BY <1>7 DEF Harmed, LongNoise
  <2> QED
    BY <1>7, <2>1, Stutters
<1>8. CASE Tick
  <2>1. line'.frame = line.frame /\ taken' = taken /\ damage' = damage
    BY <1>8, Ticks
  <2> QED
    BY <1>7, <2>1
<1>9. CASE TimedOut
  <2>1. line' = line /\ taken' = taken /\ damage' = damage
    BY <1>9, TimesOut
  <2> QED
    BY <1>7, <2>1
<1>10. CASE Commands
  <2>1. /\ line' = line /\ taken' = taken
        /\ damage'.hits = damage.hits /\ damage'.added = damage.added
        /\ damage'.noise = damage.noise /\ damage'.joined = damage.joined
    BY <1>10, CommandSteps
  <2> QED
    BY <1>7, <2>1
<1>11. CASE UNCHANGED vars
  BY <1>7, <1>11 DEF vars
<1> QED
  BY <1>2, <1>3, <1>4, <1>5, <1>6, <1>8, <1>9, <1>10, <1>11, Cases DEF Link!Next

\* A frame that the line leaves alone is taken once, as it was sent, before the
\* next one begins, whatever happened on the line before (consume_byte,
\* process_complete_frame and the timeout of stream_task).
THEOREM ImplementsFrameLink == Spec => IsFrameLink
<1>1. Init => Link!Init
  <2> SUFFICES ASSUME Init PROVE Link!Init
    OBVIOUS
  <2>1. /\ line.frame \in FramesOf(side) /\ side \in {"panel", "main"}
        /\ taken = NoFrame
    BY TypesHold, Numbers DEF Init
  <2>2. (Harmed \/ LongNoise) \in BOOLEAN
    BY Zenon
  <2> QED
    BY <2>1, <2>2 DEF Link!Init
<1>2. StreamInv /\ [Next]_vars => [Link!Next]_(Link!link)
  BY StepImplements DEF StreamInv
<1> QED
  BY <1>1, <1>2, InvAlways, PTL DEF Spec, IsFrameLink, Link!Spec
=============================================================================
