---------------------------- MODULE CaptureStore -----------------------------
(***************************************************************************)
(* The persistent capture of main/capture_store.c: producers put records   *)
(* into a bounded queue, one task writes them to a ring of flash sectors,  *)
(* readers export them by number, and a restart finds its place again from *)
(* what the flash holds.                                                   *)
(*                                                                         *)
(* A slot of the flash is erased, torn, or holds a record, which is kept   *)
(* as its sequence number.  The mutex makes a write and a read exclusive;  *)
(* power may be lost between and inside the flash operations of a write.   *)
(***************************************************************************)
EXTENDS Integers, FiniteSets, FiniteSetsExt

CONSTANTS
    Sectors,       \* sectors of the usable partition
    SectorSlots,   \* records per sector
    QueueLength,   \* CAPTURE_QUEUE_LENGTH
    MaxSequence    \* bound: records numbered in a behaviour

ASSUME CaptureAssumption ==
    /\ Sectors \in Nat \ {0, 1}
    /\ SectorSlots \in Nat \ {0}
    /\ QueueLength \in Nat \ {0}
    /\ MaxSequence \in Nat

VARIABLES
    flash,         \* the partition, slot by slot
    up,            \* capture_store_init has run since the last restart
    nextSlot,      \* s_next_offset / CAPTURE_RECORD_SIZE
    nextSequence,  \* s_next_sequence
    catalog,       \* s_slot_sequences
    info,          \* s_info: how many records, the oldest and the latest
    queued,        \* requests waiting in s_queue
    writer,        \* where capture_task is
    after,         \* the last record an export has delivered
    sound          \* no flash operation has failed since the start

captureVars == <<flash, up, nextSlot, nextSequence, catalog, info, queued,
                 writer, after, sound>>

Slots == 0..(Sectors * SectorSlots - 1)

Erased == 0
Torn == -1

SectorOf(slot) == {s \in Slots : s \div SectorSlots = slot \div SectorSlots}

NextOf(slot) == (slot + 1) % (Sectors * SectorSlots)

\* Mutant: a spoilt slot costs the following sector as well.
NextButOneSectorOf(slot) == ((slot \div SectorSlots + 2) % Sectors) * SectorSlots

NextSectorOf(slot) == ((slot \div SectorSlots + 1) % Sectors) * SectorSlots

\* The numbers of the records a reader could be given.
Records == {flash[s] : s \in Slots} \ {Erased, Torn}

Partition == [Slots -> {Erased, Torn} \cup 1..MaxSequence]

\* capture_store_info_t: how many records, and the numbers of two.
Info == [valid : 0..Cardinality(Slots), oldest : 0..MaxSequence, latest : 0..MaxSequence]

CaptureTypeOK ==
    /\ flash \in Partition
    /\ up \in BOOLEAN
    /\ nextSlot \in Slots
    /\ nextSequence \in 1..(MaxSequence + 1)
    /\ catalog \in [Slots -> 0..MaxSequence]
    /\ info \in Info
    /\ queued \in 0..QueueLength
    /\ writer \in {"idle", "taken", "prepared"}
    /\ after \in 0..MaxSequence
    /\ sound \in BOOLEAN

\* refresh_info_locked; zero stands for "none" in the catalog and in the info.
Summary(cat) ==
    LET present == {s \in Slots : cat[s] # 0}
        numbers == {cat[s] : s \in present}
    IN  [valid |-> Cardinality(present),
         oldest |-> IF numbers = {} THEN 0 ELSE Min(numbers),
         latest |-> IF numbers = {} THEN 0 ELSE Max(numbers)]

Blank == [s \in Slots |-> 0]

Init ==
    /\ flash = [s \in Slots |-> Erased]
    /\ up = FALSE
    /\ nextSlot = 0
    /\ nextSequence = 1
    /\ catalog = Blank
    /\ info = Summary(Blank)
    /\ queued = 0
    /\ writer = "idle"
    /\ after = 0
    /\ sound = TRUE

-----------------------------------------------------------------------------
(* Start and loss of power *)

\* Mutant: numbering resumes at the latest record's own number.
RepeatedNumber(latest) == IF latest = 0 THEN 1 ELSE latest

\* Numbering resumes behind the latest record found.
FirstNumber(latest) == latest + 1

\* capture_store_init: scan the flash, continue behind the latest record, and
\* queue the boot record.
Boot ==
    LET scanned == [s \in Slots |-> IF flash[s] \in Records THEN flash[s] ELSE 0]
        latest  == Summary(scanned).latest
    IN  /\ ~up
        /\ up' = TRUE
        /\ catalog' = scanned
        /\ info' = Summary(scanned)
        /\ nextSequence' = FirstNumber(latest)
        /\ nextSlot' = IF latest = 0 THEN 0
                       ELSE NextOf(CHOOSE s \in Slots : scanned[s] = latest)
        /\ queued' = 1
        /\ sound' = TRUE
        /\ UNCHANGED <<flash, writer, after>>

\* Everything in memory is lost; the catalog starts out all zero again.
LosePower ==
    /\ up
    /\ up' = FALSE
    /\ nextSlot' = 0 /\ nextSequence' = 1
    /\ catalog' = Blank /\ info' = Summary(Blank)
    /\ queued' = 0 /\ writer' = "idle"
    /\ UNCHANGED <<after, sound>>

\* What a flash operation may leave of a slot when it does not complete.
Spoilt(slot) == {flash[slot], Erased, Torn}

\* An erase that does not complete leaves any part of its sector behind.
PartlyErased(slot) ==
    \E left \in [SectorOf(slot) -> {Erased, Torn} \cup Records] :
        /\ \A s \in SectorOf(slot) : left[s] \in Spoilt(s)
        /\ flash' = [s \in Slots |-> IF s \in SectorOf(slot) THEN left[s] ELSE flash[s]]

-----------------------------------------------------------------------------
(* The producers and the capture task *)

\* enqueue_record into a queue that has room; a full queue drops the record.
Enqueue ==
    /\ up
    /\ queued < QueueLength
    /\ queued' = queued + 1
    /\ UNCHANGED <<flash, up, nextSlot, nextSequence, catalog, info, writer, after, sound>>

TakeRequest ==
    /\ up
    /\ writer = "idle" /\ queued > 0
    /\ writer' = "taken"
    /\ queued' = queued - 1
    /\ UNCHANGED <<flash, up, nextSlot, nextSequence, catalog, info, after, sound>>

\* Mutant: the flash is written without looking at it.
SlotUnchecked == nextSlot

\* Where the next record goes: inside a sector only over erased flash.
PreparedSlot ==
    IF nextSlot % SectorSlots # 0 /\ flash[nextSlot] # Erased
    THEN NextSectorOf(nextSlot)
    ELSE nextSlot

\* prepare_next_slot_locked: the first slot of a sector is written only after
\* the whole sector has been erased and forgotten.
PrepareSlot ==
    /\ up
    /\ writer = "taken"
    /\ writer' = "prepared"
    /\ nextSlot' = PreparedSlot
    /\ IF PreparedSlot % SectorSlots = 0
       THEN /\ flash' = [s \in Slots |-> IF s \in SectorOf(PreparedSlot)
                                         THEN Erased ELSE flash[s]]
            /\ catalog' = [s \in Slots |-> IF s \in SectorOf(PreparedSlot)
                                           THEN 0 ELSE catalog[s]]
       ELSE UNCHANGED <<flash, catalog>>
    /\ UNCHANGED <<up, nextSequence, info, queued, after, sound>>

\* The read fails, or the erase does: the record is lost, the catalog stays.
PrepareFails ==
    /\ up
    /\ writer = "taken"
    /\ writer' = "idle"
    /\ sound' = FALSE
    /\ \/ UNCHANGED <<flash, nextSlot>>
       \/ /\ PreparedSlot % SectorSlots = 0
          /\ nextSlot' = PreparedSlot
          /\ PartlyErased(PreparedSlot)
    /\ UNCHANGED <<up, nextSequence, catalog, info, queued, after>>

\* write_request with a slot prepared: the position moves on.  Flash that was
\* not erased does not take a record.
WriteRecord ==
    /\ up
    /\ writer = "prepared" /\ nextSequence <= MaxSequence
    /\ writer' = "idle"
    /\ flash' = [flash EXCEPT ![nextSlot] = IF @ = Erased THEN nextSequence ELSE Torn]
    /\ catalog' = [catalog EXCEPT ![nextSlot] = nextSequence]
    /\ info' = Summary(catalog')
    /\ nextSequence' = nextSequence + 1
    /\ nextSlot' = NextOf(nextSlot)
    /\ UNCHANGED <<up, queued, after, sound>>

\* A failed write uses up its number but not its slot.
WriteFails ==
    /\ up
    /\ writer = "prepared" /\ nextSequence <= MaxSequence
    /\ writer' = "idle"
    /\ sound' = FALSE
    /\ \E left \in {Erased, Torn} : flash' = [flash EXCEPT ![nextSlot] = left]
    /\ nextSequence' = nextSequence + 1
    /\ UNCHANGED <<up, nextSlot, catalog, info, queued, after>>

\* Power is lost between two flash operations.
Crash == LosePower /\ UNCHANGED flash

\* Power is lost inside the erase.
CrashInErase ==
    /\ writer = "taken" /\ PreparedSlot % SectorSlots = 0
    /\ PartlyErased(PreparedSlot)
    /\ LosePower

\* Power is lost inside the write, or after it and before the bookkeeping.
CrashInWrite ==
    /\ writer = "prepared" /\ nextSequence <= MaxSequence
    /\ \E left \in {Erased, Torn, nextSequence} :
            flash' = [flash EXCEPT ![nextSlot] = left]
    /\ LosePower

-----------------------------------------------------------------------------
(* Readers *)

\* Mutant: the first slot beyond the cursor, in the order of the flash.
WantedFirst == {s \in Slots : /\ catalog[s] > after
                              /\ \A t \in Slots : catalog[t] > after => s <= t}

\* The slot capture_store_get_after picks: the lowest number beyond the cursor.
Wanted == {s \in Slots : /\ catalog[s] > after
                         /\ \A t \in Slots : catalog[t] > after => catalog[s] <= catalog[t]}

\* One record of an export; the export ends when none is found or the slot
\* picked cannot be read.
GetAfter ==
    /\ up
    /\ writer # "prepared"
    /\ \E s \in Wanted : flash[s] = catalog[s] /\ after' = catalog[s]
    /\ UNCHANGED <<flash, up, nextSlot, nextSequence, catalog, info, queued, writer, sound>>

\* A client may ask for the export again from the start.
RestartExport ==
    /\ after' = 0 /\ after # 0
    /\ UNCHANGED <<flash, up, nextSlot, nextSequence, catalog, info, queued, writer, sound>>

Next ==
    \/ Boot
    \/ Enqueue
    \/ TakeRequest
    \/ PrepareSlot
    \/ PrepareFails
    \/ WriteRecord
    \/ WriteFails
    \/ Crash
    \/ CrashInErase
    \/ CrashInWrite
    \/ GetAfter
    \/ RestartExport

Spec == Init /\ [][Next]_captureVars

-----------------------------------------------------------------------------
(* Properties *)

Log == INSTANCE CaptureLog WITH log <- Records, Chunk <- SectorSlots

\* Whatever flash operations fail and wherever power is lost, the partition
\* stays the log of module CaptureLog: numbers only grow, also across
\* restarts, a loss reaches only into the oldest sector's worth of records,
\* and the latest record survives.
IsLog == Log!Spec

\* A record number names one slot at most.
NumbersUnique ==
    \A s, t \in Slots : flash[s] \in Records /\ flash[s] = flash[t] => s = t

\* An export passes over no record that could be read, though records are
\* appended and forgotten while it runs.
ExportSkipsNothing ==
    [][after' > after => \A n \in Records : ~(after < n /\ n < after')]_captureVars

\* As long as the flash returns no error, and from each start again, the
\* catalog kept in memory and the flash tell the same: nothing is exported
\* that is gone, and no export ends before the last record.  The status page
\* tells the same, whenever a reader can look.
CatalogMatchesFlash ==
    up /\ sound =>
        /\ \A s \in Slots : catalog[s] = IF flash[s] \in Records THEN flash[s] ELSE 0
        /\ writer # "prepared" =>
            /\ info.valid = Cardinality({s \in Slots : flash[s] \in Records})
            /\ Records # {} => info.oldest = Min(Records) /\ info.latest = Max(Records)
=============================================================================
