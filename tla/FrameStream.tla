----------------------------- MODULE FrameStream -----------------------------
(***************************************************************************)
(* stream_task of main/bridge_service.c, one of the two: it cuts the bytes *)
(* of a serial line into frames by header, length, check byte and silence, *)
(* and, on the panel's side while a command has taken the line, sends the  *)
(* command instead of the panel's frame.                                   *)
(*                                                                         *)
(* A byte is a set of bits, so that XOR is the symmetric difference.  The  *)
(* frames keep their shape (two headers, length, body, check byte) with a  *)
(* short body; the panel's are the shorter ones.  The line may lose a      *)
(* byte, change it, add one or pause, MaxFaults times; nothing but silence *)
(* tells the task where a frame begins once it has lost count.             *)
(*                                                                         *)
(* Time is counted in ticks.  Bytes of a frame follow each other within a  *)
(* tick; the sender is silent for Gap ticks between frames; the task may   *)
(* look at the clock Late ticks after the silence is long enough.          *)
(***************************************************************************)
EXTENDS Integers, Sequences, SequencesExt

CONSTANTS
    Bits,                         \* the bits of a byte
    HEADER_0, HEADER_1,           \* AC_PROTOCOL_HEADER_0, AC_PROTOCOL_HEADER_1
    PANEL_LENGTH, MAIN_LENGTH,    \* AC_PANEL_BODY_LENGTH, AC_MAIN_BODY_LENGTH
    XOR_TARGET,                   \* AC_PROTOCOL_XOR_TARGET
    Data,                         \* bytes the senders put into a body
    PanelBody, MainBody,          \* bytes in a body
    Timeout,                      \* BRIDGE_STREAM_TIMEOUT_US, in ticks
    Late,                         \* how late the task may notice a silence
    Gap,                          \* silence between two frames
    MaxFaults                     \* bound: faults of the line

Byte == SUBSET Bits

ASSUME BytesAssumption ==
    /\ Bits \subseteq Nat
    /\ {HEADER_0, HEADER_1, PANEL_LENGTH, MAIN_LENGTH, XOR_TARGET} \subseteq Byte
    /\ Data \subseteq Byte
    /\ HEADER_0 # HEADER_1
    /\ PANEL_LENGTH # MAIN_LENGTH
    \* A header repeated by a bit error is not taken for a length.
    /\ HEADER_1 \notin {PANEL_LENGTH, MAIN_LENGTH}

\* The gaps between frames are long enough to be noticed, which takes the task
\* one more tick at least: it waits for a silence longer than the timeout.
ASSUME GapAssumption ==
    /\ {PanelBody, MainBody, Timeout, Late, Gap, MaxFaults} \subseteq Nat
    /\ PanelBody < MainBody
    /\ Timeout > 0 /\ Late > 0
    /\ Gap > Timeout + Late

VARIABLES
    side,      \* link_side_t.side, fixed for each of the two tasks
    stream,    \* frame_stream_t; length and expected follow from its bytes
    taken,     \* the frame handed to the handlers since this one began
    quiet,     \* now - last_byte_us (and now - s_panel_last_byte_us)
    errors,    \* checksum_errors or framing_errors have grown in this frame
    mirror,    \* s_panel_to_main_hardware_mirror_enabled
    ready,     \* s_overlay is active with takeover_ready, and fits s_state.panel_raw
    carried,   \* what went to the main board since the frame began, both ways
    line,      \* the sender: its frame, how far it is, how long it has been silent
    faults,    \* faults so far
    damage     \* what the line did to this frame and to the silence around it

vars == <<side, stream, taken, quiet, errors, mirror, ready, carried,
          line, faults, damage>>

taskVars == <<stream, taken, errors, carried>>

Xor(a, b) == (a \ b) \cup (b \ a)

\* The value in the loop of ac_protocol_xor, after each number of bytes.
XorAfter(bytes) ==
    LET acc[i \in 0..Len(bytes)] ==
            IF i = 0 THEN {} ELSE Xor(acc[i - 1], bytes[i])
    IN  acc

\* ac_protocol_xor.
XorOf(bytes) == XorAfter(bytes)[Len(bytes)]

SizeOf(length) == CASE length = PANEL_LENGTH -> PanelBody + 4
                    [] length = MAIN_LENGTH -> MainBody + 4
                    [] OTHER -> 0

\* ac_protocol_expected_size of what is in the buffer, zero before the length.
Expected(bytes) == IF Len(bytes) < 3 THEN 0 ELSE SizeOf(bytes[3])

\* Mutant: the check byte is not looked at.
ChecksumUnchecked(bytes) == Len(bytes) = Expected(bytes)

\* ac_protocol_checksum_valid.
ChecksumValid(bytes) == Len(bytes) = Expected(bytes) /\ XorOf(bytes) = XOR_TARGET

OwnLength(s) == IF s = "panel" THEN PANEL_LENGTH ELSE MAIN_LENGTH
OwnSize(s) == SizeOf(OwnLength(s))

\* A frame around a body, with the check byte of ac_protocol_finalize.
FrameOf(s, body) ==
    LET head == <<HEADER_0, HEADER_1, OwnLength(s)>> \o body
    IN  Append(head, Xor(XorOf(head), XOR_TARGET))

FramesOf(s) ==
    {FrameOf(s, body) : body \in [1..(OwnSize(s) - 4) -> Data]}

NoFrame == <<>>

\* A command written as one burst, and one byte of a command: no bytes.
Burst == {-1}
Piece == {-2}

Stream == [bytes : Seq(Byte), synchronized : BOOLEAN,
           overlayValid : BOOLEAN, burstSent : BOOLEAN]

\* How often the line hit the frame, how many bytes it added inside the frame,
\* and how many after it; whether noise before it could join the remains of an
\* older one to it; whether a byte of it was heard, whether the stream was
\* synchronized when it began, and how much of it had been sent when the mirror
\* came back within it, if it did.
Damage == [hits : 0..MaxFaults, added : 0..MaxFaults, noise : 0..MaxFaults,
           joined : BOOLEAN, heard : BOOLEAN, counting : BOOLEAN, back : Nat]

TypeOK ==
    /\ side \in {"panel", "main"}
    /\ stream \in Stream
    \* A buffer holds the beginning of a frame, and never all of one.
    /\ \A i \in DOMAIN stream.bytes :
            /\ i = 1 => stream.bytes[i] = HEADER_0
            /\ i = 2 => stream.bytes[i] = HEADER_1
            /\ i >= 3 => i < Expected(stream.bytes)
    /\ taken \in Seq(Byte)
    /\ quiet \in 0..(Timeout + Late)
    /\ errors \in BOOLEAN
    /\ mirror \in BOOLEAN
    /\ ready \in BOOLEAN
    /\ carried \in Seq(Byte \cup {Burst, Piece})
    /\ line \in [frame : FramesOf(side), sent : 0..OwnSize(side), silent : 0..Gap]
    /\ faults \in 0..MaxFaults
    /\ damage \in Damage

-----------------------------------------------------------------------------
(* Bytes.  An operator takes the task's variables as a record and returns   *)
(* them changed: the loop of consume_byte may handle a byte twice.          *)

\* start_hardware_mirror: the event channels repeat the panel's line on the main
\* board's while they are on, before the task reads the byte.
Mirrored(byte) ==
    IF side = "panel" /\ mirror THEN Append(carried, byte) ELSE carried

Task == [st |-> stream, got |-> taken, err |-> errors, out |-> carried]

\* Mutant: what follows a burst is not withheld.
WithheldNever(t, index) == FALSE

\* The rest of a panel frame whose first byte went out as the whole command.
Withheld(t, index) == index > 0 /\ t.st.burstSent

\* hybrid_prepare_panel_frame and hybrid_forward_panel_byte: while the mirror
\* carries the line the UART sends nothing; otherwise the whole command goes out
\* with the first byte.  A command prepared while the mirror was still on goes
\* out byte by byte from where the mirror was turned off.
HybridForward(t, index, byte) ==
    LET withheld == Withheld(t, index)
        valid == IF index = 0 THEN ready ELSE t.st.overlayValid
        starts == ~mirror /\ index = 0 /\ valid
        outgoing == CASE starts -> Burst
                      [] valid /\ ~starts /\ index < OwnSize("panel") -> Piece
                      [] OTHER -> byte
    IN  IF side # "panel" THEN t
        ELSE [t EXCEPT
                !.st.overlayValid = valid /\ ~starts,
                !.st.burstSent = starts \/ (index > 0 /\ @),
                !.out = IF mirror \/ withheld THEN @ ELSE Append(@, outgoing)]

\* A byte into the empty buffer: the start of a frame, or garbage, which the
\* panel's side passes on whatever the mirror does.
FirstByte(t, byte) ==
    IF byte = HEADER_0
    THEN HybridForward([t EXCEPT !.st.bytes = <<byte>>], 0, byte)
    ELSE [t EXCEPT !.err = @ \/ t.st.synchronized,
                   !.out = IF side = "panel" THEN Append(@, byte) ELSE @]

\* Mutant: a flush is not counted.
FlushUncounted(t) == [t EXCEPT !.st.bytes = <<>>]

\* flush_stream_raw.
Flush(t) ==
    [t EXCEPT !.st.bytes = <<>>, !.err = @ \/ t.st.synchronized]

\* process_complete_frame: a frame of the other side's length is an error,
\* one of this side's goes to the handlers (BridgeControl).
ProcessCompleteFrame(t) ==
    IF ~ChecksumValid(t.st.bytes) \/ Len(t.st.bytes) # OwnSize(side)
    THEN [t EXCEPT !.err = TRUE]
    ELSE [t EXCEPT !.got = t.st.bytes]

BadLength(bytes) == Len(bytes) = 3 /\ Expected(bytes) = 0

\* Mutant: a valid frame is processed only on a stream synchronized before.
ProcessedLater(t, valid) == t.st.synchronized /\ valid

\* Garbage that looks like a frame is ignored until the first valid one.
Processed(t, valid) == t.st.synchronized \/ valid

\* A byte into a buffer that holds a header.
NextByte(t, byte) ==
    LET added == HybridForward([t EXCEPT !.st.bytes = Append(@, byte)],
                               Len(t.st.bytes), byte)
        bytes == added.st.bytes
        valid == ChecksumValid(bytes)
        done == IF Processed(added, valid)
                THEN ProcessCompleteFrame(added) ELSE added
    IN  IF BadLength(bytes) THEN Flush(added)
        ELSE IF Len(bytes) >= 3 /\ Len(bytes) = Expected(bytes)
        THEN [done EXCEPT !.st.bytes = <<>>, !.st.synchronized = @ \/ valid]
        ELSE added

\* consume_byte.
Consumed(t, byte) ==
    IF t.st.bytes = <<>> THEN FirstByte(t, byte)
    ELSE IF Len(t.st.bytes) = 1 /\ byte # HEADER_1 THEN FirstByte(Flush(t), byte)
    ELSE NextByte(t, byte)

Consume(byte) ==
    LET t == Consumed([Task EXCEPT !.out = Mirrored(byte)], byte)
    IN  /\ stream' = t.st
        /\ taken' = t.got
        /\ errors' = t.err
        /\ carried' = t.out
        /\ quiet' = 0

-----------------------------------------------------------------------------
(* The line.                                                                *)

Harmed == damage.joined \/ damage.hits > 0 \/ damage.added > 0

Between == line.sent = OwnSize(side)
Within == 0 < line.sent /\ line.sent < OwnSize(side)

\* The task starts to listen at any point of a frame.
Init ==
    /\ side \in {"panel", "main"}
    /\ stream = [bytes |-> <<>>, synchronized |-> FALSE,
                 overlayValid |-> FALSE, burstSent |-> FALSE]
    /\ taken = NoFrame
    /\ quiet = 0
    /\ errors = FALSE
    /\ mirror = TRUE
    /\ ready = FALSE
    /\ carried = <<>>
    /\ faults = 0
    /\ \E frame \in FramesOf(side), sent \in 0..OwnSize(side) :
        /\ line = [frame |-> frame, sent |-> sent, silent |-> 0]
        /\ damage = [hits |-> 0, added |-> 0, noise |-> 0, joined |-> sent > 0,
                     heard |-> FALSE, counting |-> FALSE, back |-> 0]

\* A frame begins.  One byte of noise in the silence before it must not harm
\* it, unless it joined the remains of a frame that was harmed itself.
FrameBegins(frame) ==
    /\ Between /\ line.silent = Gap
    /\ line' = [frame |-> frame, sent |-> 0, silent |-> 0]
    /\ damage' = [hits |-> 0, added |-> 0, noise |-> 0,
                  joined |-> damage.noise > 1 \/ (damage.noise = 1 /\ Harmed),
                  heard |-> FALSE, counting |-> stream.synchronized, back |-> 0]
    /\ taken' = NoFrame
    /\ errors' = FALSE
    /\ carried' = <<>>
    /\ UNCHANGED <<side, stream, quiet, mirror, ready, faults>>

Advance == line' = [line EXCEPT !.sent = @ + 1, !.silent = 0]

ByteArrives ==
    /\ ~Between
    /\ Consume(line.frame[line.sent + 1])
    /\ Advance
    /\ damage' = [damage EXCEPT !.heard = TRUE]
    /\ UNCHANGED <<side, mirror, ready, faults>>

Fault ==
    /\ faults < MaxFaults
    /\ faults' = faults + 1
    /\ UNCHANGED <<side, mirror, ready>>

Hit == [damage EXCEPT !.hits = @ + 1]

ByteLost ==
    /\ ~Between
    /\ Fault
    /\ Advance
    /\ damage' = Hit
    /\ UNCHANGED <<taskVars, quiet>>

ByteChanged(byte) ==
    /\ ~Between
    /\ byte # line.frame[line.sent + 1]
    /\ Fault
    /\ Consume(byte)
    /\ Advance
    /\ damage' = [Hit EXCEPT !.heard = TRUE]

ByteAdded(byte) ==
    /\ Within \/ Between
    /\ Fault
    /\ Consume(byte)
    /\ damage' = IF Within THEN [damage EXCEPT !.added = @ + 1]
                 ELSE [damage EXCEPT !.noise = @ + 1]
    /\ UNCHANGED line

\* The sender pauses inside a frame.
Pause ==
    /\ Within
    /\ Fault
    /\ quiet' = Timeout + 1
    /\ damage' = Hit
    /\ UNCHANGED <<taskVars, line>>

\* The task looks at the clock whenever a read returns nothing.
Tick ==
    /\ Between
    /\ stream.bytes # <<>> => quiet < Timeout + Late
    /\ quiet' = IF quiet < Timeout + Late THEN quiet + 1 ELSE quiet
    /\ line' = [line EXCEPT !.silent = IF @ < Gap THEN @ + 1 ELSE @]
    /\ UNCHANGED <<side, taskVars, mirror, ready, faults, damage>>

\* The end of the loop of stream_task: a silence ends what is in the buffer.
TimedOut ==
    /\ stream.bytes # <<>>
    /\ quiet > Timeout
    /\ stream' = Flush(Task).st
    /\ errors' = Flush(Task).err
    /\ UNCHANGED <<side, taken, quiet, mirror, ready, carried, line, faults, damage>>

-----------------------------------------------------------------------------
(* The command path, as much of it as the panel's stream looks at           *)
(* (BridgeControl has the whole of it).                                     *)

SetTakeover(m, r) ==
    /\ side = "panel"
    /\ mirror' = m
    /\ ready' = r
    /\ UNCHANGED <<side, taskVars, quiet, line, faults>>

\* control_takeover_task turns the mirror off on a silent line ...
TakeoverGate ==
    /\ mirror
    /\ quiet >= Timeout
    /\ SetTakeover(FALSE, FALSE)
    /\ UNCHANGED damage

\* ... and makes the command ready.
TakeoverCommit ==
    /\ ~mirror
    /\ SetTakeover(FALSE, TRUE)
    /\ UNCHANGED damage

\* The command ends, at any time; whoever ended it turns the mirror on.
CommandEnds ==
    /\ ready
    /\ SetTakeover(FALSE, FALSE)
    /\ UNCHANGED damage

MirrorReturns ==
    /\ ~mirror /\ ~ready
    /\ SetTakeover(TRUE, FALSE)
    /\ damage' = [damage EXCEPT !.back = IF Within THEN line.sent ELSE @]

Next ==
    \/ \E frame \in FramesOf(side) : FrameBegins(frame)
    \/ ByteArrives
    \/ ByteLost
    \/ \E byte \in Byte : ByteChanged(byte) \/ ByteAdded(byte)
    \/ Pause
    \/ Tick
    \/ TimedOut
    \/ TakeoverGate \/ TakeoverCommit \/ CommandEnds \/ MirrorReturns

Spec == Init /\ [][Next]_vars

-----------------------------------------------------------------------------
(* Properties.                                                              *)

\* Noise in the silence behind a frame that is as long as the shortest frame,
\* or one byte short of it, may be taken for one.
LongNoise == damage.noise >= SizeOf(PANEL_LENGTH) - 1

Link == INSTANCE FrameLink WITH
            Frames <- FramesOf("panel") \cup FramesOf("main"),
            offered <- line.frame,
            harmed <- Harmed \/ LongNoise

\* Whatever happened on the line before, a frame it leaves alone is handed to
\* the handlers once and as it was sent, before the next one begins; a byte of
\* noise before it does no harm (consume_byte's retry, and the timeout of
\* stream_task).
IsFrameLink == Link!Spec

Altered == damage.joined \/ damage.added > 0 \/ damage.noise > 0

\* Neither a single hit nor what is left of an older frame makes the handlers
\* see a frame nobody sent: check byte, length and timeout catch it.  (A byte
\* added inside a frame can pass: XOR does not see it if it repeats the check
\* byte.)
NoFrameIsMadeUp ==
    taken # NoFrame /\ damage.hits <= 1 /\ ~Altered => taken = line.frame

\* A frame of which anything was heard by a synchronized stream is taken or
\* leaves a trace in the error counters before the next one begins, whatever
\* the line did to it, in a silence without noise: no loss goes unnoticed
\* (flush_stream_raw, process_complete_frame, the garbage branch of
\* consume_byte).
LossIsCounted ==
    line.silent = Gap /\ damage.noise = 0 /\ damage.heard /\ damage.counting
        => errors \/ taken # NoFrame

\* What follows the burst of a command: the rest of the panel's frame, if the
\* mirror came back within it.
AfterBurst ==
    IF damage.back = 0 THEN <<>>
    ELSE SubSeq(line.frame, damage.back + 1, line.sent)

\* UART and mirror together carry one thing at a time.  A frame the line leaves
\* alone reaches the main board byte by byte, none twice and none left out
\* however the line is taken or returned within it; or a command took its place,
\* whole and before anything else, and of the frame itself comes only what was
\* still to be sent when the mirror returned (hybrid_forward_panel_byte,
\* update_main_state).
OneVoice ==
    side = "panel" /\ ~Harmed /\ damage.noise = 0 =>
        carried \in {SubSeq(line.frame, 1, line.sent), <<Burst>> \o AfterBurst}
=============================================================================
