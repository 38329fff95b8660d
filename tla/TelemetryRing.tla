---------------------------- MODULE TelemetryRing ----------------------------
(***************************************************************************)
(* The log of main/telemetry.c and one reader of it.  Publishers number    *)
(* lines and write them over the oldest of a ring in memory; the handler   *)
(* of GET /api/logs (web_service.c) copies lines out of the ring, one      *)
(* critical section per line; tools/capture_http.py polls it, appends what *)
(* it gets to a file and notes the numbers it has missed.                  *)
(*                                                                         *)
(* A line is its sequence number.  A line that finds the ring locked for   *)
(* 100 ms is dropped before it has a number, which no reader can notice:   *)
(* that step changes nothing and is left out.                              *)
(***************************************************************************)
EXTENDS Integers, Sequences

CONSTANTS
    Entries,      \* TELEMETRY_RING_ENTRIES
    PerResponse,  \* LOGS_PER_RESPONSE
    MaxSequence,  \* bound: lines published after a start of the device
    MaxRestarts   \* bound: restarts of the device

ASSUME TelemetryAssumption ==
    /\ Entries \in Nat \ {0}      \* the ring has a slot
    /\ PerResponse \in Nat \ {0}  \* a response has room for a line
    /\ MaxSequence \in Nat
    /\ MaxRestarts \in Nat

VARIABLES
    latest,    \* s_latest_sequence
    ring,      \* s_entries: the number of the line in each slot, 0 for none
    handler,   \* logs_handler: "idle", "reading", or its response is "sent"
    cursor,    \* logs_handler's after
    response,  \* the lines put into the response
    after,     \* the collector's after
    recorded,  \* lines of this start of the device in the collector's file
    missed,    \* numbers of this start that the file notes as missing
    first,     \* where the file's account of this start begins, 0 for nowhere
    restarts   \* of the device

telemetryVars == <<latest, ring, handler, cursor, response, after, recorded,
                   missed, first, restarts>>

readerVars == <<handler, cursor, response>>
fileVars   == <<after, recorded, missed, first>>

Numbers == 1..MaxSequence
RingSlots == 0..(Entries - 1)

TelemetryTypeOK ==
    /\ latest \in 0..MaxSequence
    /\ ring \in [RingSlots -> 0..MaxSequence]
    /\ handler \in {"idle", "reading", "sent"}
    /\ cursor \in 0..MaxSequence
    /\ response \in Seq(Numbers)
    /\ after \in 0..MaxSequence
    /\ recorded \subseteq Numbers
    /\ missed \subseteq Numbers
    /\ first \in 0..(MaxSequence + 1)
    /\ restarts \in 0..MaxRestarts

RingSlot(sequence) == (sequence - 1) % Entries

\* The oldest line the ring still holds; 0 when it holds none.
Oldest ==
    IF latest > Entries THEN latest - Entries + 1 ELSE IF latest > 0 THEN 1 ELSE 0

\* Mutant: the reader may be handed a line that is already overwritten.
WantedUnbounded == cursor + 1

\* telemetry_get_after looks for the next line, or the oldest one left.
Wanted == IF cursor + 1 < Oldest THEN Oldest ELSE cursor + 1

\* Mutant: the latest line is not given out until another follows it.
FoundBeforeLatest == Wanted < latest

Found == Wanted <= latest

TelemetryInit ==
    /\ latest = 0
    /\ ring = [s \in RingSlots |-> 0]
    /\ handler = "idle"
    /\ cursor = 0
    /\ response = <<>>
    /\ after = 0
    /\ recorded = {}
    /\ missed = {}
    /\ first = 0
    /\ restarts = 0

-----------------------------------------------------------------------------
(* The device *)

\* Mutant: the slot is chosen by the number before it is incremented.
PublishBehind ==
    /\ latest < MaxSequence
    /\ latest' = latest + 1
    /\ ring' = [ring EXCEPT ![(RingSlot(latest') + Entries - 1) % Entries] = latest']
    /\ UNCHANGED <<readerVars, fileVars, restarts>>

\* telemetry_publishf.
Publish ==
    /\ latest < MaxSequence
    /\ latest' = latest + 1
    /\ ring' = [ring EXCEPT ![RingSlot(latest')] = latest']
    /\ UNCHANGED <<readerVars, fileVars, restarts>>

\* One turn of the loop in logs_handler.
ReadLine ==
    /\ handler = "reading"
    /\ Len(response) < PerResponse
    /\ Found
    /\ cursor' = ring[RingSlot(Wanted)]
    /\ response' = Append(response, cursor')
    /\ UNCHANGED <<latest, ring, handler, fileVars, restarts>>

Send ==
    /\ handler = "reading"
    /\ handler' = "sent"
    /\ UNCHANGED <<latest, ring, cursor, response, fileVars, restarts>>

\* The loop ends: nothing newer, or the response is full.
Respond == (~Found \/ Len(response) = PerResponse) /\ Send

\* telemetry_get_after gives up when the ring stays locked for 100 ms.
RespondEarly == Found /\ Len(response) < PerResponse /\ Send

\* The log is in memory, and numbering starts again.
Restart ==
    /\ restarts < MaxRestarts
    /\ restarts' = restarts + 1
    /\ latest' = 0
    /\ ring' = [s \in RingSlots |-> 0]
    /\ handler' = "idle"
    /\ cursor' = 0
    /\ response' = <<>>
    /\ recorded' = {}
    /\ missed' = {}
    /\ first' = IF after = 0 THEN 0 ELSE after + 1
    /\ UNCHANGED after

-----------------------------------------------------------------------------
(* The collector *)

\* The request reaches query_after.
Ask ==
    /\ handler = "idle"
    /\ handler' = "reading"
    /\ cursor' = after
    /\ response' = <<>>
    /\ UNCHANGED <<latest, ring, fileVars, restarts>>

\* The collector's after when it comes to the i-th line.
AfterAt(i) == IF i = 1 THEN after ELSE response[i - 1]

\* Mutant: a gap of one line goes unnoticed.
JumpsByTwo == {i \in DOMAIN response : AfterAt(i) # 0 /\ response[i] > AfterAt(i) + 2}

\* The lines before which a gap is noted.
Jumps == {i \in DOMAIN response : AfterAt(i) # 0 /\ response[i] > AfterAt(i) + 1}

\* The collector gets the response, and appends it to its file.
Collect ==
    /\ handler = "sent"
    /\ response # <<>>
    /\ handler' = "idle"
    /\ after' = response[Len(response)]
    /\ recorded' = recorded \cup {response[i] : i \in DOMAIN response}
    /\ missed' = missed \cup UNION {(AfterAt(i) + 1)..(response[i] - 1) : i \in Jumps}
    /\ first' = IF first = 0 THEN response[1] ELSE first
    /\ UNCHANGED <<latest, ring, cursor, response, restarts>>

\* The response has no line, or it (or the request) is lost or takes longer
\* than 3 s; the collector asks again with the same after.
CollectNothing ==
    /\ handler = "sent"
    /\ handler' = "idle"
    /\ UNCHANGED <<latest, ring, cursor, response, fileVars, restarts>>

TelemetryNext ==
    \/ Publish \/ ReadLine \/ Respond \/ RespondEarly \/ Restart
    \/ Ask \/ Collect \/ CollectNothing

\* The collector polls until it is stopped and the handler always ends.  Now
\* and then the ring is free when it is tried, and a response with lines arrives.
TelemetryFairness ==
    /\ WF_telemetryVars(Ask)
    /\ WF_telemetryVars(Respond)
    /\ WF_telemetryVars(CollectNothing)
    /\ SF_telemetryVars(ReadLine)
    /\ SF_telemetryVars(Collect)

TelemetrySpec ==
    TelemetryInit /\ [][TelemetryNext]_telemetryVars /\ TelemetryFairness

-----------------------------------------------------------------------------
(* Properties *)

\* The ring holds each of the last Entries lines where a reader looks for it
\* (telemetry.c: the slot written in telemetry_publishf is the slot read in
\* telemetry_get_after).
RingHolds ==
    \A s \in Numbers : Oldest <= s /\ s <= latest => ring[RingSlot(s)] = s

\* What the collector has noted as missing is gone: however slowly it reads,
\* it is never made to skip a line that the ring still holds.
MissedIsGone == \A s \in missed : s < Oldest

\* The file accounts for every number from where it begins to where it ends,
\* once: a line is there or its absence is noted, across lost requests, lost
\* responses and lines overwritten between two turns of the handler's loop.
\* It begins at the first line it was given; after a restart of the device it
\* begins behind the last line of the previous start, and the lines before
\* that are neither recorded nor noted.
Accounted ==
    /\ recorded \cap missed = {}
    /\ recorded \cup missed = IF first = 0 THEN {} ELSE first..after

\* A line that the file's account of this start leaves out: one published
\* before the first that was given, or, after a restart of the device, one
\* numbered up to the last line of the previous start.  Such a line may still
\* be in the ring; the collector, whose after is that last line's number, never
\* asks for it and notes nothing.
LeftOut(s) == first # 0 /\ s < first

\* Every line of this start that the account does not leave out gets into the
\* file, or its number into the file's notes of what is missing, unless the
\* device restarts and its log is gone.  Having asked for later lines is not
\* enough.
Reached ==
    \A s \in Numbers :
        latest >= s ~> (s \in recorded \cup missed \/ LeftOut(s) \/ latest < s)
=============================================================================
