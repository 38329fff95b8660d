------------------------- MODULE CaptureStoreProofs --------------------------
(***************************************************************************)
(* Proofs about CaptureStore, for every size of the partition and of the   *)
(* queue, wherever power is lost and whichever flash operation fails:      *)
(* types, the uniqueness of record numbers, the agreement of catalog and   *)
(* flash, the completeness of an export, and that the store implements     *)
(* CaptureLog.                                                             *)
(*                                                                         *)
(* None of these is inductive.  CaptureInv adds what the service may rely  *)
(* on while it is up: every number in flash lies below the next one, is in *)
(* the catalog, and a prepared slot is erased.  A start finds the latest   *)
(* number by Max, which exists because the numbers are bounded.            *)
(***************************************************************************)
EXTENDS CaptureStore, FiniteSetTheorems, WellFoundedInduction, TLAPS

(* Extremes *)

\* A bounded set of numbers has a highest one: counted down from the bound, it
\* is the least.
LEMMA MaxExists ==
    ASSUME NEW S \in SUBSET Nat, NEW bound \in Nat, S # {}, \A x \in S : x <= bound
    PROVE  Max(S) \in S /\ \A y \in S : Max(S) >= y
<1> DEFINE T == {n \in Nat : n <= bound /\ bound - n \in S}
<1>1. T \subseteq Nat /\ T # {}
  <2>1. PICK x \in S : TRUE
    OBVIOUS
  <2>2. bound - x \in T
    OBVIOUS
  <2> QED
    BY <2>2
<1>2. PICK t \in T : \A y \in T : <<y, t>> \notin OpToRel(<, Nat)
  <2> HIDE DEF T
  <2> QED
    BY <1>1, NatLessThanWellFounded, WFMin
<1>3. \A y \in T : ~(y < t)
  <2> SUFFICES ASSUME NEW y \in T PROVE ~(y < t)
    OBVIOUS
  <2>1. <<y, t>> \in Nat \X Nat
    BY <1>1
  <2> QED
    BY <1>2, <2>1 DEF OpToRel
<1>4. PICK m \in S : t = bound - m /\ t <= bound
  OBVIOUS
<1>5. \A y \in S : m >= y
  <2> SUFFICES ASSUME NEW y \in S PROVE m >= y
    OBVIOUS
  <2>1. bound - y \in T
    OBVIOUS
  <2>2. ~(bound - y < t)
    BY <1>3, <2>1
  <2>3. t \in Nat /\ y \in Nat /\ m \in Nat
    OBVIOUS
  <2> HIDE DEF T
  <2> QED
    BY <1>4, <2>2, <2>3
<1> QED
  BY <1>5 DEF Max

\* A set of numbers has a lowest one.
LEMMA MinExists ==
    ASSUME NEW S \in SUBSET Nat, S # {}
    PROVE  Min(S) \in S /\ \A y \in S : Min(S) <= y
<1>1. PICK m \in S : \A y \in S : <<y, m>> \notin OpToRel(<, Nat)
  BY NatLessThanWellFounded, WFMin
<1>2. \A y \in S : m <= y
  <2> SUFFICES ASSUME NEW y \in S PROVE m <= y
    OBVIOUS
  <2>1. <<y, m>> \in Nat \X Nat
    OBVIOUS
  <2>2. ~(y < m)
    BY <1>1, <2>1 DEF OpToRel
  <2> QED
    BY <2>2
<1> QED
  BY <1>2 DEF Min

-----------------------------------------------------------------------------
(* The ring of slots *)

\* There is a slot behind each slot and a sector behind each sector.
LEMMA Ring ==
    /\ Sectors * SectorSlots \in Nat \ {0}
    /\ 0 \in Slots /\ Slots \subseteq Nat
    /\ \A slot \in Slots : NextOf(slot) \in Slots
    /\ \A slot \in Slots : NextSectorOf(slot) \in Slots
    /\ \A slot \in Slots : NextSectorOf(slot) % SectorSlots = 0
<1> USE CaptureAssumption DEF CaptureAssumption
<1>1. Sectors * SectorSlots \in Nat /\ Sectors * SectorSlots > 0
  OBVIOUS
<1>2. 0 \in Slots /\ Slots \subseteq Nat
  BY <1>1 DEF Slots
<1>3. ASSUME NEW slot \in Slots PROVE NextOf(slot) \in Slots
  <2> DEFINE size == Sectors * SectorSlots
  <2>1. size \in Nat /\ size > 0 /\ slot \in Nat
    BY <1>1, <1>2
  <2> HIDE DEF size
  <2>2. (slot + 1) % size \in 0..(size - 1)
    BY <2>1
  <2> QED
    BY <2>2 DEF NextOf, Slots, size
<1>4. ASSUME NEW slot \in Slots
      PROVE  /\ NextSectorOf(slot) \in Slots
             /\ NextSectorOf(slot) % SectorSlots = 0
  <2> DEFINE sector == (slot \div SectorSlots + 1) % Sectors
  <2>1. slot \div SectorSlots \in Nat
    BY <1>2
  <2>2. sector \in 0..(Sectors - 1)
    BY <2>1
  <2> HIDE DEF sector
  <2>3. sector * SectorSlots \in Nat /\ sector * SectorSlots <= (Sectors - 1) * SectorSlots
    BY <2>2
  <2>4. (Sectors - 1) * SectorSlots <= Sectors * SectorSlots - 1
    OBVIOUS
  <2>5. (sector * SectorSlots) % SectorSlots = 0
    BY <2>2
  <2> QED
    BY <1>1, <2>3, <2>4, <2>5 DEF NextSectorOf, Slots, sector
<1> QED
  BY <1>1, <1>2, <1>3, <1>4

\* The slots can be counted.
LEMMA SlotsFinite == IsFiniteSet(Slots) /\ Cardinality(Slots) \in Nat
<1>1. IsFiniteSet(Slots)
  BY Ring, FS_Interval DEF Slots
<1> QED
  BY <1>1, FS_CardinalityType

-----------------------------------------------------------------------------
(* What the service says of itself *)

\* The summary of a catalog is well formed, and its latest number the highest.
LEMMA SummaryType ==
    ASSUME NEW cat \in [Slots -> 0..MaxSequence]
    PROVE  /\ Summary(cat) \in Info
           /\ \A s \in Slots : cat[s] <= Summary(cat).latest
           /\ Summary(cat).latest # 0 => \E s \in Slots : cat[s] = Summary(cat).latest
<1> DEFINE present == {s \in Slots : cat[s] # 0}
           numbers == {cat[s] : s \in present}
<1>1. MaxSequence \in Nat
  BY CaptureAssumption DEF CaptureAssumption
<1>2. /\ Summary(cat).valid = Cardinality(present)
      /\ Summary(cat).oldest = IF numbers = {} THEN 0 ELSE Min(numbers)
      /\ Summary(cat).latest = IF numbers = {} THEN 0 ELSE Max(numbers)
      /\ Summary(cat) = [valid |-> Summary(cat).valid, oldest |-> Summary(cat).oldest,
                         latest |-> Summary(cat).latest]
  BY DEF Summary
<1>3. Cardinality(present) \in 0..Cardinality(Slots)
  <2>1. present \in SUBSET Slots
    OBVIOUS
  <2>2. IsFiniteSet(present) /\ Cardinality(present) <= Cardinality(Slots)
    BY <2>1, SlotsFinite, FS_Subset
  <2> QED
    BY <2>2, SlotsFinite, FS_CardinalityType
<1>4. numbers \in SUBSET (1..MaxSequence)
  BY <1>1
<1>5. CASE numbers = {}
  <2>1. \A s \in Slots : cat[s] = 0
    BY <1>5
  <2> HIDE DEF present, numbers
  <2>2. Summary(cat) \in Info
    BY <1>1, <1>2, <1>3, <1>5 DEF Info
  <2> QED
    BY <1>2, <1>5, <2>1, <2>2
<1>6. CASE numbers # {}
  <2>1. /\ Max(numbers) \in numbers /\ \A n \in numbers : Max(numbers) >= n
        /\ Min(numbers) \in numbers
    <3> HIDE DEF numbers
    <3>1. numbers \in SUBSET Nat /\ \A n \in numbers : n <= MaxSequence
      BY <1>1, <1>4
    <3> QED
      BY <1>1, <1>6, <3>1, MaxExists, MinExists
  <2>2. \A s \in Slots : cat[s] = 0 \/ cat[s] \in numbers
    OBVIOUS
  <2>3. \E s \in Slots : cat[s] = Max(numbers)
    BY <2>1
  <2> HIDE DEF present, numbers
  <2>4. Summary(cat) \in Info
    BY <1>1, <1>2, <1>3, <1>4, <1>6, <2>1 DEF Info
  <2>5. \A s \in Slots : cat[s] <= Max(numbers)
    <3> SUFFICES ASSUME NEW s \in Slots PROVE cat[s] <= Max(numbers)
      OBVIOUS
    <3>1. Max(numbers) \in 1..MaxSequence /\ cat[s] \in 0..MaxSequence
      BY <1>4, <2>1
    <3>2. CASE cat[s] = 0
      BY <1>1, <3>1, <3>2
    <3>3. CASE cat[s] \in numbers
      <4>1. Max(numbers) >= cat[s]
        BY <2>1, <3>3
      <4> QED
        BY <1>1, <3>1, <4>1
    <3> QED
      BY <2>2, <3>2, <3>3
  <2> QED
    BY <1>2, <1>6, <2>3, <2>4, <2>5
<1> QED
  BY <1>5, <1>6

-----------------------------------------------------------------------------
(* Types *)

\* No record of the flash changes, though some may be gone.
Fades ==
    /\ flash' \in Partition
    /\ \A s \in Slots : flash'[s] \in {flash[s], Erased, Torn}

\* What holds a record.
LEMMA RecordsType ==
    ASSUME CaptureTypeOK
    PROVE  /\ flash \in Partition
           /\ Records \subseteq 1..MaxSequence
           /\ \A s \in Slots : flash[s] \in Records <=> flash[s] > 0
           /\ \A n \in Records : \E s \in Slots : flash[s] = n
  BY CaptureAssumption DEF CaptureAssumption, CaptureTypeOK, Partition, Records, Erased, Torn

\* An erase that does not complete adds nothing.
LEMMA EraseFades ==
    ASSUME CaptureTypeOK, NEW slot \in Slots, PartlyErased(slot)
    PROVE  Fades
<1>1. PICK left \in [SectorOf(slot) -> {Erased, Torn} \cup Records] :
        /\ \A s \in SectorOf(slot) : left[s] \in Spoilt(s)
        /\ flash' = [s \in Slots |-> IF s \in SectorOf(slot) THEN left[s] ELSE flash[s]]
  BY DEF PartlyErased
<1>2. \A s \in SectorOf(slot) : left[s] \in {Erased, Torn} \cup 1..MaxSequence
  BY RecordsType
<1>3. flash' \in Partition
  BY <1>1, <1>2, RecordsType DEF Partition
<1>4. \A s \in Slots : flash'[s] \in {flash[s], Erased, Torn}
  BY <1>1 DEF Spoilt
<1> QED
  BY <1>3, <1>4 DEF Fades

\* The next record goes to a slot.
LEMMA PreparedSlotType == CaptureTypeOK => PreparedSlot \in Slots
  BY Ring DEF CaptureTypeOK, PreparedSlot

\* The types hold for a new partition.
LEMMA CaptureTypeInit == Init => CaptureTypeOK
<1> SUFFICES ASSUME Init PROVE CaptureTypeOK
  OBVIOUS
<1> USE CaptureAssumption DEF CaptureAssumption
<1>1. Blank \in [Slots -> 0..MaxSequence]
  BY DEF Blank
<1>2. Summary(Blank) \in Info
  BY <1>1, SummaryType
<1>3. flash \in Partition
  BY DEF Init, Partition
<1>4. nextSlot \in Slots
  BY Ring DEF Init
<1>5. up \in BOOLEAN /\ sound \in BOOLEAN /\ writer \in {"idle", "taken", "prepared"}
  BY DEF Init
<1>6. nextSequence = 1 /\ queued = 0 /\ after = 0
  BY DEF Init
<1>7. 1 \in 1..(MaxSequence + 1) /\ 0 \in 0..QueueLength /\ 0 \in 0..MaxSequence
  OBVIOUS
<1>8. catalog = Blank /\ info = Summary(Blank)
  BY DEF Init
<1> QED
  BY <1>1, <1>2, <1>3, <1>4, <1>5, <1>6, <1>7, <1>8, Zenon DEF CaptureTypeOK

\* They hold for a device that is down.
LEMMA LosePowerType ==
    ASSUME CaptureTypeOK, LosePower, flash' \in Partition
    PROVE  CaptureTypeOK'
<1> USE CaptureAssumption DEF CaptureAssumption
<1>1. Blank \in [Slots -> 0..MaxSequence]
  BY DEF Blank
<1>2. Summary(Blank) \in Info
  BY <1>1, SummaryType
<1>3. nextSlot' \in Slots
  BY Ring DEF LosePower
<1>4. up' \in BOOLEAN /\ writer' \in {"idle", "taken", "prepared"}
  BY DEF LosePower
<1>5. /\ nextSequence' = 1 /\ queued' = 0
      /\ catalog' = Blank /\ info' = Summary(Blank)
      /\ after' = after /\ sound' = sound
  BY DEF LosePower
<1>6. 1 \in 1..(MaxSequence + 1) /\ 0 \in 0..QueueLength
  OBVIOUS
<1> QED
  BY <1>1, <1>2, <1>3, <1>4, <1>5, <1>6, Zenon DEF CaptureTypeOK

\* What a start finds in the flash, and the slot behind the latest of it.
LEMMA BootType ==
    ASSUME CaptureTypeOK, Boot
    PROVE  /\ CaptureTypeOK'
           /\ \A s \in Slots : /\ catalog'[s] = IF flash[s] > 0 THEN flash[s] ELSE 0
                               /\ flash[s] < nextSequence'
           /\ info' = Summary(catalog')
<1> USE CaptureAssumption DEF CaptureAssumption
<1> DEFINE scanned == [s \in Slots |-> IF flash[s] \in Records THEN flash[s] ELSE 0]
           latest == Summary(scanned).latest
<1>1. scanned \in [Slots -> 0..MaxSequence]
  BY RecordsType
<1>2. \A s \in Slots : scanned[s] = IF flash[s] > 0 THEN flash[s] ELSE 0
  BY RecordsType
<1>3. /\ catalog' = scanned /\ info' = Summary(scanned)
      /\ nextSequence' = latest + 1
      /\ nextSlot' = IF latest = 0 THEN 0 ELSE NextOf(CHOOSE s \in Slots : scanned[s] = latest)
      /\ up' = TRUE /\ queued' = 1 /\ sound' = TRUE
      /\ flash' = flash /\ writer' = writer /\ after' = after
  BY DEF Boot, FirstNumber
<1> HIDE DEF scanned
<1>4. /\ Summary(scanned) \in Info
      /\ \A s \in Slots : scanned[s] <= latest
      /\ latest # 0 => \E s \in Slots : scanned[s] = latest
  BY <1>1, SummaryType
<1>5. latest \in 0..MaxSequence
  BY <1>4 DEF Info
<1> HIDE DEF latest
<1>6. nextSlot' \in Slots
  BY <1>3, <1>4, Ring
<1>7. nextSequence' \in 1..(MaxSequence + 1)
  BY <1>3, <1>5
<1>8. CaptureTypeOK'
  BY <1>1, <1>3, <1>4, <1>6, <1>7 DEF CaptureTypeOK
<1>9. \A s \in Slots : flash[s] < nextSequence'
  BY <1>2, <1>3, <1>4, <1>5, RecordsType DEF Partition, Erased, Torn
<1> QED
  BY <1>2, <1>3, <1>8, <1>9

\* Every step of the service keeps the types; so does a loss of power.
LEMMA CaptureTypeStep == CaptureTypeOK /\ [Next]_captureVars => CaptureTypeOK'
<1> SUFFICES ASSUME CaptureTypeOK, [Next]_captureVars PROVE CaptureTypeOK'
  OBVIOUS
<1> USE CaptureAssumption DEF CaptureAssumption
<1>1. CASE Boot
  BY <1>1, BootType
<1>2. CASE Enqueue
  BY <1>2 DEF Enqueue, CaptureTypeOK
<1>3. CASE TakeRequest
  BY <1>3 DEF TakeRequest, CaptureTypeOK
<1>4. CASE PrepareSlot
  <2>1. flash' \in Partition /\ catalog' \in [Slots -> 0..MaxSequence]
    BY <1>4 DEF PrepareSlot, CaptureTypeOK, Partition
  <2>2. nextSlot' \in Slots
    BY <1>4, PreparedSlotType DEF PrepareSlot
  <2> QED
    BY <1>4, <2>1, <2>2 DEF PrepareSlot, CaptureTypeOK
<1>5. CASE PrepareFails
  <2>1. nextSlot' \in Slots /\ flash' \in Partition
    BY <1>5, PreparedSlotType, EraseFades DEF PrepareFails, CaptureTypeOK, Fades
  <2> QED
    BY <1>5, <2>1 DEF PrepareFails, CaptureTypeOK
<1>6. CASE WriteRecord
  <2>1. nextSequence \in 1..MaxSequence
    BY <1>6 DEF WriteRecord, CaptureTypeOK
  <2>2. catalog' \in [Slots -> 0..MaxSequence]
    BY <1>6, <2>1 DEF WriteRecord, CaptureTypeOK
  <2>3. info' \in Info
    BY <1>6, <2>2, SummaryType DEF WriteRecord
  <2>4. flash' \in Partition
    BY <1>6, <2>1 DEF WriteRecord, CaptureTypeOK, Partition
  <2>5. nextSlot' \in Slots
    BY <1>6, Ring DEF WriteRecord, CaptureTypeOK
  <2>6. nextSequence' \in 1..(MaxSequence + 1)
    BY <1>6, <2>1 DEF WriteRecord
  <2> QED
    BY <1>6, <2>2, <2>3, <2>4, <2>5, <2>6 DEF WriteRecord, CaptureTypeOK
<1>7. CASE WriteFails
  <2>1. flash' \in Partition
    BY <1>7 DEF WriteFails, CaptureTypeOK, Partition
  <2>2. nextSequence' \in 1..(MaxSequence + 1)
    BY <1>7 DEF WriteFails, CaptureTypeOK
  <2> QED
    BY <1>7, <2>1, <2>2 DEF WriteFails, CaptureTypeOK
<1>8. CASE Crash
  <2>1. flash' \in Partition
    BY <1>8 DEF Crash, CaptureTypeOK
  <2> QED
    BY <1>8, <2>1, LosePowerType DEF Crash
<1>9. CASE CrashInErase
  <2>1. flash' \in Partition
    BY <1>9, PreparedSlotType, EraseFades DEF CrashInErase, Fades
  <2> QED
    BY <1>9, <2>1, LosePowerType DEF CrashInErase
<1>10. CASE CrashInWrite
  <2>1. flash' \in Partition
    BY <1>10 DEF CrashInWrite, CaptureTypeOK, Partition
  <2> QED
    BY <1>10, <2>1, LosePowerType DEF CrashInWrite
<1>11. CASE GetAfter
  <2>1. after' \in 0..MaxSequence
    BY <1>11 DEF GetAfter, Wanted, CaptureTypeOK
  <2> QED
    BY <1>11, <2>1 DEF GetAfter, CaptureTypeOK
<1>12. CASE RestartExport
  BY <1>12 DEF RestartExport, CaptureTypeOK
<1>13. CASE UNCHANGED captureVars
  BY <1>13 DEF captureVars, CaptureTypeOK
<1> QED
  BY <1>1, <1>2, <1>3, <1>4, <1>5, <1>6, <1>7, <1>8, <1>9, <1>10, <1>11, <1>12,
     <1>13 DEF Next

\* Every variable keeps its type, for every size of the partition and wherever
\* power is lost (capture_store.c).
THEOREM CaptureTypeCorrect == Spec => []CaptureTypeOK
  BY CaptureTypeInit, CaptureTypeStep, PTL DEF Spec

-----------------------------------------------------------------------------
(* What the flash holds, and what the service knows of it *)

\* No two slots hold the same record.
Unique == \A s, t \in Slots : flash[s] > 0 /\ flash[s] = flash[t] => s = t

\* What the service may rely on while it is up, and while nothing has failed.
CaptureInv ==
    /\ CaptureTypeOK
    /\ Unique
    /\ ~up => writer = "idle"
    /\ up => \A s \in Slots : /\ flash[s] < nextSequence
                              /\ flash[s] > 0 => catalog[s] = flash[s]
    /\ up /\ sound =>
        /\ \A s \in Slots : catalog[s] = IF flash[s] > 0 THEN flash[s] ELSE 0
        /\ writer = "prepared" => flash[nextSlot] = Erased
        /\ writer # "prepared" => info = Summary(catalog)

\* The invariant holds for a new partition.
LEMMA CaptureInvInit == Init => CaptureInv
<1> SUFFICES ASSUME Init PROVE CaptureInv
  OBVIOUS
<1>1. \A s \in Slots : flash[s] = 0
  BY DEF Init, Erased
<1>2. Unique
  BY <1>1 DEF Unique
<1>3. up = FALSE /\ writer = "idle"
  BY DEF Init
<1> QED
  BY <1>2, <1>3, CaptureTypeInit DEF CaptureInv

\* Records that fade leave no two alike, nor one the service does not know.
LEMMA FadesKeepsUnique ==
    ASSUME CaptureTypeOK, Unique, Fades
    PROVE  /\ Unique'
           /\ \A s \in Slots : flash'[s] > 0 => flash'[s] = flash[s]
           /\ \A s \in Slots : flash'[s] \in {flash[s], 0, -1}
  BY RecordsType DEF Fades, Unique, Partition, Erased, Torn

\* The slot that is prepared is erased, if the service's idea of it was right.
LEMMA PrepareKeepsInv ==
    ASSUME CaptureInv, PrepareSlot, CaptureTypeOK'
    PROVE  CaptureInv'
<1> USE DEF CaptureInv
<1>1. /\ up /\ up' = up /\ writer = "taken" /\ writer' = "prepared"
      /\ nextSlot' = PreparedSlot /\ PreparedSlot \in Slots
      /\ nextSequence' = nextSequence /\ sound' = sound
  BY PreparedSlotType DEF PrepareSlot
<1>2. CASE PreparedSlot % SectorSlots = 0
  <2>1. \A s \in Slots :
            /\ flash'[s] = IF s \in SectorOf(PreparedSlot) THEN Erased ELSE flash[s]
            /\ catalog'[s] = IF s \in SectorOf(PreparedSlot) THEN 0 ELSE catalog[s]
    BY <1>2 DEF PrepareSlot
  <2>2. PreparedSlot \in SectorOf(PreparedSlot)
    BY <1>1 DEF SectorOf
  <2>3. Unique'
    BY <2>1 DEF Unique, Erased
  <2>4. nextSequence > 0
    BY DEF CaptureTypeOK
  <2> QED
    BY <1>1, <2>1, <2>2, <2>3, <2>4 DEF Erased
<1>3. CASE PreparedSlot % SectorSlots # 0
  <2>1. flash' = flash /\ catalog' = catalog
    BY <1>3 DEF PrepareSlot
  <2>2. flash[PreparedSlot] = Erased
    BY <1>3, Ring DEF PreparedSlot, CaptureTypeOK
  <2>3. Unique'
    BY <2>1 DEF Unique
  <2> QED
    BY <1>1, <2>1, <2>2, <2>3
<1> QED
  BY <1>2, <1>3

\* A record that is written has a number of its own.
LEMMA WriteKeepsInv ==
    ASSUME CaptureInv, WriteRecord \/ WriteFails, CaptureTypeOK'
    PROVE  CaptureInv'
<1> USE DEF CaptureInv
<1>1. /\ up /\ up' = up /\ writer = "prepared" /\ writer' = "idle"
      /\ nextSequence' = nextSequence + 1 /\ nextSequence \in Nat /\ nextSequence > 0
      /\ nextSlot \in Slots
      /\ flash \in Partition /\ catalog \in [Slots -> 0..MaxSequence]
  BY DEF WriteRecord, WriteFails, CaptureTypeOK
<1>2. \A s \in Slots : flash[s] \in Int /\ flash[s] < nextSequence
  BY <1>1, CaptureAssumption DEF CaptureAssumption, Partition, Erased, Torn
<1>3. CASE WriteRecord
  <2>1. \A s \in Slots :
            /\ flash'[s] = IF s = nextSlot
                           THEN IF flash[nextSlot] = Erased THEN nextSequence ELSE Torn
                           ELSE flash[s]
            /\ catalog'[s] = IF s = nextSlot THEN nextSequence ELSE catalog[s]
    BY <1>1, <1>3 DEF WriteRecord, Partition
  <2>2. Unique'
    BY <1>1, <1>2, <2>1 DEF Unique, Torn
  <2>3. \A s \in Slots : /\ flash'[s] < nextSequence'
                         /\ flash'[s] > 0 => catalog'[s] = flash'[s]
    BY <1>1, <1>2, <2>1 DEF Torn
  <2>4. sound' = sound /\ info' = Summary(catalog')
    BY <1>3 DEF WriteRecord
  <2>5. sound => \A s \in Slots : catalog'[s] = IF flash'[s] > 0 THEN flash'[s] ELSE 0
    BY <1>1, <2>1
  <2> QED
    BY <1>1, <2>2, <2>3, <2>4, <2>5
<1>4. CASE WriteFails
  <2>1. sound' = FALSE /\ catalog' = catalog
    BY <1>4 DEF WriteFails
  <2>2. Fades
    BY <1>4 DEF WriteFails, Fades, CaptureTypeOK, Partition
  <2>3. Unique'
    BY <2>2, FadesKeepsUnique
  <2>4. \A s \in Slots : flash'[s] < nextSequence'
    BY <1>1, <1>2, <2>2, FadesKeepsUnique
  <2>5. \A s \in Slots : flash'[s] > 0 => catalog'[s] = flash'[s]
    BY <1>1, <2>1, <2>2, FadesKeepsUnique
  <2> QED
    BY <1>1, <2>1, <2>3, <2>4, <2>5
<1> QED
  BY <1>3, <1>4

\* A loss of power may add the record being written, or take some away.
LEMMA DownKeepsInv ==
    ASSUME CaptureInv, Crash \/ CrashInErase \/ CrashInWrite, CaptureTypeOK'
    PROVE  CaptureInv'
<1> USE DEF CaptureInv
<1>1. up' = FALSE /\ writer' = "idle" /\ up
  BY DEF Crash, CrashInErase, CrashInWrite, LosePower
<1>2. CASE Crash
  <2>1. Unique'
    BY <1>2 DEF Crash, Unique
  <2> QED
    BY <1>1, <2>1
<1>3. CASE CrashInErase
  <2>1. Fades
    BY <1>3, PreparedSlotType, EraseFades DEF CrashInErase
  <2> QED
    BY <1>1, <2>1, FadesKeepsUnique
<1>4. CASE CrashInWrite
  <2>1. PICK left \in {Erased, Torn, nextSequence} :
            flash' = [flash EXCEPT ![nextSlot] = left]
    BY <1>4 DEF CrashInWrite
  <2>2. \A s \in Slots : flash[s] \in Int /\ flash[s] < nextSequence
    BY <1>1, CaptureAssumption DEF CaptureAssumption, CaptureTypeOK, Partition, Erased, Torn
  <2>3. \A s \in Slots : flash'[s] = IF s = nextSlot THEN left ELSE flash[s]
    BY <2>1 DEF CaptureTypeOK, Partition
  <2>4. nextSequence \in Nat
    BY DEF CaptureTypeOK
  <2>5. Unique'
    BY <2>2, <2>3, <2>4 DEF Unique, Erased, Torn
  <2> QED
    BY <1>1, <2>5
<1> QED
  BY <1>2, <1>3, <1>4

\* Every step keeps the invariant.
LEMMA CaptureInvStep == CaptureInv /\ [Next]_captureVars => CaptureInv'
<1> SUFFICES ASSUME CaptureInv, [Next]_captureVars PROVE CaptureInv'
  OBVIOUS
<1> USE DEF CaptureInv
<1>1. CaptureTypeOK'
  BY CaptureTypeStep
<1>2. CASE Boot
  <2>1. flash' = flash /\ up' = TRUE /\ writer' = "idle"
    BY <1>2 DEF Boot
  <2>2. Unique'
    BY <2>1 DEF Unique
  <2>3. \A s \in Slots : /\ catalog'[s] = IF flash'[s] > 0 THEN flash'[s] ELSE 0
                         /\ flash'[s] < nextSequence'
    BY <1>2, <2>1, BootType
  <2> QED
    BY <1>1, <1>2, <2>1, <2>2, <2>3, BootType
<1>3. CASE Enqueue \/ TakeRequest \/ GetAfter \/ RestartExport \/ UNCHANGED captureVars
  <2>1. /\ flash' = flash /\ up' = up /\ nextSequence' = nextSequence
        /\ catalog' = catalog /\ sound' = sound /\ info' = info /\ nextSlot' = nextSlot
        /\ writer' = writer \/ (up /\ writer # "prepared" /\ writer' = "taken")
    BY <1>3 DEF Enqueue, TakeRequest, GetAfter, RestartExport, captureVars
  <2>2. Unique'
    BY <2>1 DEF Unique
  <2> QED
    BY <1>1, <2>1, <2>2
<1>4. CASE PrepareSlot
  BY <1>1, <1>4, PrepareKeepsInv
<1>5. CASE PrepareFails
  <2>1. /\ up' = up /\ up /\ sound' = FALSE
        /\ nextSequence' = nextSequence /\ catalog' = catalog
    BY <1>5 DEF PrepareFails
  <2>2. Fades
    BY <1>5, PreparedSlotType, EraseFades DEF PrepareFails, Fades, CaptureTypeOK
  <2>3. Unique'
    BY <2>2, FadesKeepsUnique
  <2>4. \A s \in Slots : flash'[s] < nextSequence'
    <3>1. nextSequence \in Nat /\ nextSequence > 0
      BY DEF CaptureTypeOK
    <3> QED
      BY <2>1, <2>2, <3>1, FadesKeepsUnique
  <2>5. \A s \in Slots : flash'[s] > 0 => catalog'[s] = flash'[s]
    BY <2>1, <2>2, FadesKeepsUnique
  <2> QED
    BY <1>1, <2>1, <2>3, <2>4, <2>5
<1>6. CASE WriteRecord \/ WriteFails
  BY <1>1, <1>6, WriteKeepsInv
<1>7. CASE Crash \/ CrashInErase \/ CrashInWrite
  BY <1>1, <1>7, DownKeepsInv
<1> QED
  BY <1>2, <1>3, <1>4, <1>5, <1>6, <1>7 DEF Next

\* The invariant holds throughout.
THEOREM CaptureInvariant == Spec => []CaptureInv
  BY CaptureInvInit, CaptureInvStep, PTL DEF Spec

\* No two records ever bear the same number, across losses of power at any
\* point of a write (capture_store_init, write_request).
THEOREM NumbersAlwaysUnique == Spec => []NumbersUnique
<1>1. CaptureInv => NumbersUnique
  BY RecordsType DEF CaptureInv, Unique, NumbersUnique
<1> QED
  BY <1>1, CaptureInvariant, PTL

\* While the flash returns no error, catalog, status and flash agree
\* (prepare_next_slot_locked, write_request, refresh_info_locked).
THEOREM CatalogAlwaysMatches == Spec => []CatalogMatchesFlash
<1>1. CaptureInv => CatalogMatchesFlash
  <2> SUFFICES ASSUME CaptureInv, up, sound
               PROVE  /\ \A s \in Slots : catalog[s] = IF flash[s] \in Records
                                                        THEN flash[s] ELSE 0
                      /\ writer # "prepared" =>
                            /\ info.valid = Cardinality({s \in Slots : flash[s] \in Records})
                            /\ Records # {} => /\ info.oldest = Min(Records)
                                               /\ info.latest = Max(Records)
    BY DEF CatalogMatchesFlash
  <2> USE DEF CaptureInv
  <2>1. \A s \in Slots : /\ catalog[s] = IF flash[s] \in Records THEN flash[s] ELSE 0
                         /\ catalog[s] # 0 <=> flash[s] \in Records
    BY RecordsType
  <2>2. {s \in Slots : catalog[s] # 0} = {s \in Slots : flash[s] \in Records}
    BY <2>1
  <2>3. {catalog[s] : s \in {t \in Slots : catalog[t] # 0}} = Records
    BY <2>1 DEF Records
  <2>4. writer # "prepared" => info = Summary(catalog)
    OBVIOUS
  <2>5. /\ Summary(catalog).valid = Cardinality({s \in Slots : flash[s] \in Records})
        /\ Records # {} => /\ Summary(catalog).oldest = Min(Records)
                           /\ Summary(catalog).latest = Max(Records)
    BY <2>2, <2>3 DEF Summary
  <2> QED
    BY <2>1, <2>4, <2>5
<1> QED
  BY <1>1, CaptureInvariant, PTL

\* An export passes over no record that is still in the flash
\* (capture_store_get_after).
THEOREM ExportNeverSkips == Spec => ExportSkipsNothing
<1> DEFINE Skip == after' > after => \A n \in Records : ~(after < n /\ n < after')
<1>1. CaptureInv /\ [Next]_captureVars => [Skip]_captureVars
  <2> SUFFICES ASSUME CaptureInv, Next PROVE Skip
    OBVIOUS
  <2> USE DEF CaptureInv
  <2>1. CASE GetAfter
    <3>1. PICK s \in Wanted : after' = catalog[s]
      BY <2>1 DEF GetAfter
    <3> SUFFICES ASSUME NEW n \in Records, after < n PROVE ~(n < after')
      OBVIOUS
    <3>2. PICK t \in Slots : flash[t] = n
      BY RecordsType
    <3>3. catalog[t] = n /\ n \in Nat
      BY <2>1, <3>2, RecordsType DEF GetAfter
    <3>4. catalog[s] <= catalog[t]
      BY <3>3 DEF Wanted
    <3>5. s \in Slots /\ catalog[s] \in Nat
      BY DEF Wanted, CaptureTypeOK
    <3> QED
      BY <3>1, <3>3, <3>4, <3>5
  <2>2. CASE ~GetAfter
    <3>1. after \in Nat
      BY DEF CaptureTypeOK
    <3>2. after' = after \/ after' = 0
      BY <2>2 DEF Next, Boot, Enqueue, TakeRequest, PrepareSlot, PrepareFails,
            WriteRecord, WriteFails, Crash, CrashInErase, CrashInWrite, LosePower,
            RestartExport
    <3> QED
      BY <3>1, <3>2
  <2> QED
    BY <2>1, <2>2
<1> QED
  BY <1>1, CaptureInvariant, PTL DEF Spec, ExportSkipsNothing

-----------------------------------------------------------------------------
(***************************************************************************)
(* CaptureStore implements CaptureLog: a write appends one record behind   *)
(* all others, and whatever an erase or a loss of power takes belongs to   *)
(* the oldest sector.                                                      *)
(*                                                                         *)
(* The invariant says how the ring lies in the flash: from the slot of the *)
(* latest record back, and then from the end of the partition back, the    *)
(* numbers fall; behind the latest record its own sector is free; and the  *)
(* service stands at the next slot or at the next sector.                  *)
(***************************************************************************)

(* The geometry of the ring *)

\* A slot lies in one sector, and the sectors follow each other.
LEMMA Sector ==
    ASSUME NEW s \in Slots
    PROVE  /\ s \div SectorSlots \in 0..(Sectors - 1)
           /\ (s \div SectorSlots) * SectorSlots <= s
           /\ s < (s \div SectorSlots) * SectorSlots + SectorSlots
<1> USE CaptureAssumption DEF CaptureAssumption
<1>1. s \in Nat /\ s <= Sectors * SectorSlots - 1
  BY Ring DEF Slots
<1> DEFINE q == s \div SectorSlots
<1>2. q \in Nat /\ q * SectorSlots <= s /\ s < q * SectorSlots + SectorSlots
  BY <1>1
<1> HIDE DEF q
<1>3. q <= Sectors - 1
  <2> SUFFICES ASSUME q >= Sectors PROVE FALSE
    BY <1>2
  <2>1. q * SectorSlots >= Sectors * SectorSlots
    BY <1>2
  <2> QED
    BY <1>1, <1>2, <2>1
<1> QED
  BY <1>2, <1>3 DEF q

\* The sector of a slot is the one whose bounds it lies between.
LEMMA SectorIs ==
    ASSUME NEW s \in Nat, NEW q \in Nat,
           q * SectorSlots <= s, s < q * SectorSlots + SectorSlots
    PROVE  s \div SectorSlots = q
<1> USE CaptureAssumption DEF CaptureAssumption
<1> DEFINE d == s \div SectorSlots
<1>1. d \in Nat /\ d * SectorSlots <= s /\ s < d * SectorSlots + SectorSlots
  OBVIOUS
<1> HIDE DEF d
<1>2. ASSUME d < q PROVE FALSE
  <2>1. (d + 1) * SectorSlots <= q * SectorSlots
    BY <1>1, <1>2
  <2>2. (d + 1) * SectorSlots = d * SectorSlots + SectorSlots
    BY <1>1
  <2> QED
    BY <1>1, <2>1, <2>2
<1>3. ASSUME q < d PROVE FALSE
  <2>1. (q + 1) * SectorSlots <= d * SectorSlots
    BY <1>1, <1>3
  <2>2. (q + 1) * SectorSlots = q * SectorSlots + SectorSlots
    OBVIOUS
  <2> QED
    BY <1>1, <2>1, <2>2
<1> QED
  BY <1>1, <1>2, <1>3 DEF d

\* Only the first slot of a sector is a multiple of its size.
LEMMA SectorStart ==
    ASSUME NEW s \in Slots
    PROVE  s % SectorSlots = 0 <=> s = (s \div SectorSlots) * SectorSlots
<1> USE CaptureAssumption DEF CaptureAssumption
<1>1. s \in Nat
  BY Ring
<1>2. s = (s \div SectorSlots) * SectorSlots + (s % SectorSlots)
  BY <1>1
<1> QED
  BY <1>1, <1>2

\* The next sector is the following one, or the first.
LEMMA NextSector ==
    ASSUME NEW p \in Slots
    PROVE  LET q == p \div SectorSlots
           IN  /\ q < Sectors - 1 => NextSectorOf(p) = (q + 1) * SectorSlots
               /\ q = Sectors - 1 => NextSectorOf(p) = 0
               /\ NextSectorOf(p) \div SectorSlots = IF q < Sectors - 1 THEN q + 1 ELSE 0
<1> USE CaptureAssumption DEF CaptureAssumption
<1> DEFINE q == p \div SectorSlots
<1>1. q \in 0..(Sectors - 1)
  BY Sector
<1>2. NextSectorOf(p) = ((q + 1) % Sectors) * SectorSlots
  BY DEF NextSectorOf
<1> HIDE DEF q
<1>3. CASE q < Sectors - 1
  <2>1. (q + 1) % Sectors = q + 1
    BY <1>1, <1>3
  <2>2. NextSectorOf(p) = (q + 1) * SectorSlots
    BY <1>2, <2>1
  <2>3. ((q + 1) * SectorSlots) \div SectorSlots = q + 1
    <3>1. (q + 1) * SectorSlots \in Nat
      BY <1>1
    <3> QED
      BY <1>1, <3>1, SectorIs
  <2> QED
    BY <1>3, <2>2, <2>3 DEF q
<1>4. CASE q = Sectors - 1
  <2>1. (q + 1) % Sectors = 0
    BY <1>4
  <2>2. NextSectorOf(p) = 0
    BY <1>2, <2>1
  <2>3. 0 \div SectorSlots = 0
    OBVIOUS
  <2> QED
    BY <1>4, <2>2, <2>3 DEF q
<1> QED
  BY <1>1, <1>3, <1>4 DEF q

\* The next slot is the following one of the sector, or the next sector's first.
LEMMA NextSlot ==
    ASSUME NEW p \in Slots
    PROVE  \/ /\ NextOf(p) = p + 1
              /\ NextOf(p) % SectorSlots # 0
              /\ NextOf(p) \div SectorSlots = p \div SectorSlots
           \/ NextOf(p) = NextSectorOf(p)
<1> USE CaptureAssumption DEF CaptureAssumption
<1> DEFINE q == p \div SectorSlots
           size == Sectors * SectorSlots
<1>1. q \in 0..(Sectors - 1) /\ q * SectorSlots <= p /\ p < q * SectorSlots + SectorSlots
  BY Sector
<1>2. size \in Nat /\ p \in 0..(size - 1) /\ NextOf(p) = (p + 1) % size
  BY Ring DEF Slots, NextOf
<1> HIDE DEF size
<1>3. CASE p + 1 < q * SectorSlots + SectorSlots
  <2>1. p + 1 <= size - 1
    <3>1. (q + 1) * SectorSlots <= Sectors * SectorSlots
      <4> HIDE DEF q
      <4> QED BY <1>1
    <3>2. (q + 1) * SectorSlots = q * SectorSlots + SectorSlots
      <4> HIDE DEF q
      <4> QED BY <1>1
    <3> QED
      BY <1>1, <1>2, <1>3, <3>1, <3>2 DEF size
  <2>2. NextOf(p) = p + 1
    BY <1>2, <2>1
  <2>3. (p + 1) \div SectorSlots = q
    BY <1>1, <1>2, <1>3, SectorIs
  <2>4. p + 1 \in Slots
    BY <1>2, <2>1 DEF Slots, size
  <2>5. (p + 1) % SectorSlots # 0
    BY <1>1, <1>2, <2>3, <2>4, SectorStart
  <2> QED
    BY <2>2, <2>3, <2>5
<1>4. CASE p + 1 = q * SectorSlots + SectorSlots
  <2>1. p + 1 = (q + 1) * SectorSlots
    <3> HIDE DEF q
    <3> QED BY <1>1, <1>4
  <2>2. CASE q < Sectors - 1
    <3>1. p + 1 <= size - 1
      <4> HIDE DEF q
      <4>1. (q + 1) * SectorSlots <= (Sectors - 1) * SectorSlots
        BY <1>1, <2>2
      <4>2. (Sectors - 1) * SectorSlots = size - SectorSlots
        BY DEF size
      <4> QED
        BY <1>1, <1>2, <2>1, <4>1, <4>2
    <3>2. NextOf(p) = p + 1
      BY <1>2, <3>1
    <3> QED
      BY <2>1, <2>2, <3>2, NextSector
  <2>3. CASE q = Sectors - 1
    <3>1. p + 1 = size
      BY <2>1, <2>3 DEF size
    <3>2. NextOf(p) = 0
      <4> HIDE DEF q
      <4>1. size % size = 0
        BY <1>2
      <4> QED BY <1>2, <3>1, <4>1
    <3> QED
      BY <2>3, <3>2, NextSector
  <2> QED
    BY <1>1, <2>2, <2>3
<1> QED
  BY <1>1, <1>2, <1>3, <1>4

-----------------------------------------------------------------------------
(* How the ring lies in the flash *)

\* The latest record is in slot p: the numbers rise from the start of the
\* partition to p, and from behind p to its end, where the older ones are.
Newest(p) ==
    /\ flash[p] > 0
    /\ \A s, t \in Slots : s < t /\ flash[s] > 0 /\ flash[t] > 0 =>
            /\ s <= p /\ p < t => flash[t] < flash[s]
            /\ ~(s <= p /\ p < t) => flash[s] < flash[t]
    /\ \A s \in SectorOf(p) : p < s => flash[s] <= 0

\* The place where the next record is put behind that of slot p.
Behind(p) == nextSlot = NextOf(p) \/ nextSlot = NextSectorOf(p)

RingInv ==
    /\ CaptureInv
    /\ writer = "prepared" =>
            /\ flash[nextSlot] = Erased
            /\ nextSlot % SectorSlots = 0 => \A s \in SectorOf(nextSlot) : flash[s] = Erased
    /\ \/ Records = {} /\ (up => nextSlot = 0)
       \/ \E p \in Slots : Newest(p) /\ (up => Behind(p))

\* A slot holds a number.
LEMMA FlashType ==
    ASSUME CaptureTypeOK
    PROVE  \A s \in Slots : flash[s] \in Int /\ (flash[s] > 0 => flash[s] \in 1..MaxSequence)
  BY CaptureAssumption DEF CaptureAssumption, CaptureTypeOK, Partition, Erased, Torn

\* The slot of the latest record holds the highest number.
LEMMA NewestIsHighest ==
    ASSUME CaptureTypeOK, NEW p \in Slots, Newest(p)
    PROVE  \A s \in Slots : flash[s] > 0 /\ s # p => flash[s] < flash[p]
<1> SUFFICES ASSUME NEW s \in Slots, flash[s] > 0, s # p PROVE flash[s] < flash[p]
  OBVIOUS
<1>1. s \in Nat /\ p \in Nat
  BY Ring
<1> QED
  BY <1>1 DEF Newest

\* Where the next record is prepared: in the sector of the latest one, or in a
\* sector of which the latest one is no part.
LEMMA PreparedBehind ==
    ASSUME CaptureTypeOK, NEW p \in Slots, Behind(p)
    PROVE  \/ /\ PreparedSlot = p + 1 /\ PreparedSlot = NextOf(p)
              /\ PreparedSlot % SectorSlots # 0
           \/ /\ PreparedSlot = NextSectorOf(p)
              /\ PreparedSlot % SectorSlots = 0
<1>1. NextSectorOf(p) % SectorSlots = 0
  BY Ring
<1>2. CASE nextSlot = NextSectorOf(p)
  BY <1>1, <1>2 DEF PreparedSlot
<1>3. CASE nextSlot = NextOf(p) /\ nextSlot # NextSectorOf(p)
  <2>1. /\ nextSlot = p + 1 /\ nextSlot % SectorSlots # 0
        /\ nextSlot \div SectorSlots = p \div SectorSlots
    BY <1>3, NextSlot
  <2>2. NextSectorOf(nextSlot) = NextSectorOf(p)
    BY <2>1 DEF NextSectorOf
  <2> QED
    BY <1>1, <1>3, <2>1, <2>2 DEF PreparedSlot
<1> QED
  BY <1>2, <1>3 DEF Behind

\* The sector that is erased for the next record is the oldest one.
LEMMA OldestSector ==
    ASSUME CaptureTypeOK, NEW p \in Slots, Newest(p)
    PROVE  /\ p \notin SectorOf(NextSectorOf(p))
           /\ \A s \in SectorOf(NextSectorOf(p)), t \in Slots \ SectorOf(NextSectorOf(p)) :
                    flash[s] > 0 /\ flash[t] > 0 => flash[s] < flash[t]
<1> USE CaptureAssumption DEF CaptureAssumption
<1> DEFINE q == p \div SectorSlots
           e == NextSectorOf(p) \div SectorSlots
<1>1. q \in 0..(Sectors - 1) /\ e = IF q < Sectors - 1 THEN q + 1 ELSE 0
  BY Sector, NextSector
<1>2. e # q /\ e \in 0..(Sectors - 1)
  <2> HIDE DEF q, e
  <2> QED BY <1>1
<1>3. p \notin SectorOf(NextSectorOf(p))
  BY <1>2 DEF SectorOf
<1>4. ASSUME NEW s \in SectorOf(NextSectorOf(p)), NEW t \in Slots \ SectorOf(NextSectorOf(p)),
             flash[s] > 0, flash[t] > 0
      PROVE  flash[s] < flash[t]
  <2>1. s \in Slots /\ s \div SectorSlots = e /\ t \div SectorSlots # e
    BY <1>4 DEF SectorOf
  <2>2. ~(t \div SectorSlots = q /\ p < t)
    <3>1. flash[t] \in Int
      BY FlashType
    <3>2. ~(flash[t] <= 0)
      BY <1>4, <3>1
    <3> QED
      BY <3>2 DEF Newest, SectorOf
  <2> DEFINE d == t \div SectorSlots
  <2>3. /\ q * SectorSlots <= p /\ p < q * SectorSlots + SectorSlots
        /\ e * SectorSlots <= s /\ s < e * SectorSlots + SectorSlots
        /\ d * SectorSlots <= t /\ t < d * SectorSlots + SectorSlots
        /\ d \in 0..(Sectors - 1)
    BY <2>1, Sector
  <2>4. s \in Nat /\ t \in Nat /\ p \in Nat /\ SectorSlots \in Nat
    BY <2>1, Ring
  <2>5. d # e /\ ~(d = q /\ p < t)
    BY <2>1, <2>2
  <2> HIDE DEF q, e, d
  <2>6. \A a, b \in Nat : a < b => a * SectorSlots + SectorSlots <= b * SectorSlots
    <3> SUFFICES ASSUME NEW a \in Nat, NEW b \in Nat, a < b
                 PROVE  a * SectorSlots + SectorSlots <= b * SectorSlots
      OBVIOUS
    <3>1. (a + 1) * SectorSlots <= b * SectorSlots
      OBVIOUS
    <3>2. (a + 1) * SectorSlots = a * SectorSlots + SectorSlots
      OBVIOUS
    <3> QED
      BY <3>1, <3>2
  <2>7. CASE q < Sectors - 1
    <3>1. e = q + 1 /\ e \in Nat /\ q \in Nat /\ d \in Nat
      BY <1>1, <2>3, <2>7
    <3>2. q * SectorSlots + SectorSlots <= e * SectorSlots
      BY <2>6, <3>1
    <3>3. p < s
      BY <2>3, <2>4, <3>1, <3>2
    <3>4. CASE d < e
      <4>1. d * SectorSlots + SectorSlots <= e * SectorSlots
        BY <2>6, <3>1, <3>4
      <4>2. t < s
        BY <2>3, <2>4, <3>1, <4>1
      <4>3. t <= p
        <5>1. CASE d = q
          BY <2>4, <2>5, <5>1
        <5>2. CASE d < q
          <6>1. d * SectorSlots + SectorSlots <= q * SectorSlots
            BY <2>6, <3>1, <5>2
          <6> QED
            BY <2>3, <2>4, <3>1, <6>1
        <5> QED
          BY <3>1, <3>4, <5>1, <5>2
      <4> QED
        BY <1>4, <2>1, <3>3, <4>2, <4>3 DEF Newest
    <3>5. CASE e < d
      <4>1. e * SectorSlots + SectorSlots <= d * SectorSlots
        BY <2>6, <3>1, <3>5
      <4>2. s < t
        BY <2>3, <2>4, <3>1, <4>1
      <4>3. ~(s <= p)
        BY <2>4, <3>3
      <4> QED
        BY <1>4, <2>1, <4>2, <4>3 DEF Newest
    <3> QED
      BY <2>5, <3>1, <3>4, <3>5
  <2>8. CASE q = Sectors - 1
    <3>1. e = 0 /\ q \in Nat /\ d \in Nat /\ 0 < d /\ d <= q
      BY <1>1, <2>3, <2>5, <2>8
    <3>2. e * SectorSlots + SectorSlots <= d * SectorSlots
      BY <2>6, <3>1
    <3>3. s < t
      BY <2>3, <2>4, <3>1, <3>2
    <3>4. t <= p
      <4>1. CASE d = q
        BY <2>4, <2>5, <4>1
      <4>2. CASE d < q
        <5>1. d * SectorSlots + SectorSlots <= q * SectorSlots
          BY <2>6, <3>1, <4>2
        <5> QED
          BY <2>3, <2>4, <3>1, <5>1
      <4> QED
        BY <3>1, <4>1, <4>2
    <3>5. ~(p < t)
      BY <2>4, <3>4
    <3> QED
      BY <1>4, <2>1, <3>3, <3>5 DEF Newest
  <2> QED
    BY <1>1, <2>7, <2>8
<1> QED
  BY <1>3, <1>4

\* Records that fade keep the order, as long as the latest is not among them.
LEMMA FadesKeepsNewest ==
    ASSUME CaptureTypeOK, Fades, NEW p \in Slots, Newest(p), flash'[p] = flash[p]
    PROVE  Newest(p)'
<1>1. \A s \in Slots : /\ flash'[s] \in {flash[s], 0, -1}
                       /\ flash'[s] > 0 => flash'[s] = flash[s]
                       /\ flash[s] <= 0 => flash'[s] <= 0
  BY FlashType DEF Fades, Erased, Torn
<1> QED
  BY <1>1 DEF Newest, SectorOf

\* The slots behind the latest record, up to where the next one is put, are free.
LEMMA NothingBetween ==
    ASSUME CaptureTypeOK, NEW p \in Slots, Newest(p)
    PROVE  /\ NextOf(p) = p + 1 =>
                    \A s \in Slots \ {NextOf(p)} : p < s <=> NextOf(p) < s
           /\ p < NextSectorOf(p) => \A s \in Slots \ {NextSectorOf(p)} :
                    flash[s] > 0 => (p < s <=> NextSectorOf(p) < s)
           /\ ~(p < NextSectorOf(p)) =>
                    NextSectorOf(p) = 0 /\ \A s \in Slots : flash[s] > 0 => s <= p
<1> USE CaptureAssumption DEF CaptureAssumption
<1> DEFINE q == p \div SectorSlots
           w == NextSectorOf(p)
<1>1. /\ q \in 0..(Sectors - 1) /\ q * SectorSlots <= p /\ p < q * SectorSlots + SectorSlots
      /\ p \in Nat /\ Slots \subseteq Nat
  BY Sector, Ring
<1>2. /\ q < Sectors - 1 => w = (q + 1) * SectorSlots
      /\ q = Sectors - 1 => w = 0
  BY NextSector
<1>3. \A s \in Slots : p < s /\ s \div SectorSlots = q => ~(flash[s] > 0)
  <2> SUFFICES ASSUME NEW s \in Slots, p < s, s \div SectorSlots = q
               PROVE  ~(flash[s] > 0)
    OBVIOUS
  <2>1. flash[s] <= 0 /\ flash[s] \in Int
    BY FlashType DEF Newest, SectorOf
  <2> QED
    BY <2>1
<1>4. NextOf(p) = p + 1 => \A s \in Slots \ {NextOf(p)} : p < s <=> NextOf(p) < s
  BY <1>1
<1>5. CASE q < Sectors - 1
  <2>1. w = q * SectorSlots + SectorSlots
    <3> HIDE DEF q
    <3>1. (q + 1) * SectorSlots = q * SectorSlots + SectorSlots
      BY <1>1
    <3> QED
      BY <1>2, <1>5, <3>1
  <2>2. p < w
    <3>1. q * SectorSlots \in Nat
      <4> HIDE DEF q
      <4> QED BY <1>1
    <3> HIDE DEF q, w
    <3> QED
      BY <1>1, <2>1, <3>1
  <2>3. ASSUME NEW s \in Slots \ {w}, flash[s] > 0 PROVE p < s <=> w < s
    <3>1. ASSUME p < s, s < w PROVE FALSE
      <4>1. s \div SectorSlots = q
        BY <1>1, <2>1, <3>1, SectorIs
      <4> QED
        BY <1>3, <2>3, <3>1, <4>1
    <3>2. s \in Nat /\ w \in Nat /\ s # w
      BY <1>1, <2>1
    <3> HIDE DEF w
    <3> QED
      BY <1>1, <2>2, <3>1, <3>2
  <2> QED
    BY <1>4, <2>2, <2>3
<1>6. CASE q = Sectors - 1
  <2>1. w = 0
    BY <1>2, <1>6
  <2>2. ASSUME NEW s \in Slots, flash[s] > 0, p < s PROVE FALSE
    <3> DEFINE d == s \div SectorSlots
    <3>1. d \in 0..(Sectors - 1) /\ s < d * SectorSlots + SectorSlots
      BY Sector
    <3>2. d # q
      BY <1>3, <2>2
    <3> HIDE DEF d, q
    <3>3. (d + 1) * SectorSlots <= q * SectorSlots
      BY <1>1, <1>6, <3>1, <3>2
    <3>4. (d + 1) * SectorSlots = d * SectorSlots + SectorSlots
      BY <3>1
    <3> QED
      BY <1>1, <2>2, <3>1, <3>3, <3>4
  <2>3. ~(p < w)
    BY <1>1, <2>1
  <2>4. \A s \in Slots : flash[s] > 0 => s <= p
    BY <1>1, <2>2
  <2> QED
    BY <1>4, <2>1, <2>3, <2>4
<1> QED
  BY <1>1, <1>5, <1>6

\* A record that is put behind the latest one becomes the latest.
LEMMA WriteMovesNewest ==
    ASSUME CaptureTypeOK, NEW p \in Slots, Newest(p),
           NEW w \in Slots, w = NextOf(p) \/ w = NextSectorOf(p),
           w % SectorSlots = 0 => \A s \in SectorOf(w) : flash[s] = Erased,
           NEW n \in Nat, n > 0, \A s \in Slots : flash[s] < n,
           flash' = [flash EXCEPT ![w] = n]
    PROVE  Newest(w)'
<1>1. \A s \in Slots : flash'[s] = IF s = w THEN n ELSE flash[s]
  BY DEF CaptureTypeOK, Partition
<1>2. \A s \in Slots : flash[s] \in Int
  BY FlashType
<1>3. p \in Nat /\ w \in Nat /\ Slots \subseteq Nat
  BY Ring
<1>4. \A s \in SectorOf(w) : w < s => flash'[s] <= 0
  <2> SUFFICES ASSUME NEW s \in SectorOf(w), w < s PROVE flash'[s] <= 0
    OBVIOUS
  <2>1. s \in Slots /\ flash'[s] = flash[s]
    BY <1>1, <1>3 DEF SectorOf
  <2>2. CASE w % SectorSlots = 0
    BY <2>1, <2>2 DEF Erased
  <2>3. CASE w % SectorSlots # 0
    <3>1. w = p + 1 /\ w \div SectorSlots = p \div SectorSlots
      BY <2>3, Ring, NextSlot
    <3>2. s \in SectorOf(p) /\ p < s
      BY <1>3, <2>1, <3>1 DEF SectorOf
    <3> QED
      BY <2>1, <3>2 DEF Newest
  <2> QED
    BY <2>2, <2>3
<1>5. ASSUME NEW s \in Slots, NEW t \in Slots, s < t, flash'[s] > 0, flash'[t] > 0
      PROVE  /\ s <= w /\ w < t => flash'[t] < flash'[s]
             /\ ~(s <= w /\ w < t) => flash'[s] < flash'[t]
  <2>1. s \in Nat /\ t \in Nat
    BY <1>3
  <2>2. CASE s = w
    <3>1. flash'[s] = n /\ flash'[t] = flash[t] /\ flash[t] < n
      BY <1>1, <1>5, <2>1, <2>2
    <3> QED
      BY <1>3, <1>5, <2>1, <2>2, <3>1
  <2>3. CASE t = w
    <3>1. flash'[t] = n /\ flash'[s] = flash[s] /\ flash[s] < n
      BY <1>1, <1>5, <2>1, <2>3
    <3> QED
      BY <1>3, <2>3, <3>1
  <2>4. CASE s # w /\ t # w
    <3>1. flash'[s] = flash[s] /\ flash'[t] = flash[t] /\ flash[s] > 0 /\ flash[t] > 0
      BY <1>1, <1>5, <2>4
    <3>2. /\ s <= p /\ p < t => flash[t] < flash[s]
          /\ ~(s <= p /\ p < t) => flash[s] < flash[t]
      BY <1>5, <3>1 DEF Newest
    <3>3. CASE p < w
      <4>1. (p < s <=> w < s) /\ (p < t <=> w < t)
        <5>1. CASE w = NextSectorOf(p)
          BY <2>4, <3>1, <3>3, <5>1, NothingBetween
        <5>2. CASE w = NextOf(p) /\ w # NextSectorOf(p)
          BY <2>4, <5>2, NextSlot, NothingBetween
        <5> QED
          BY <5>1, <5>2
      <4> QED
        BY <1>3, <2>1, <3>1, <3>2, <4>1
    <3>4. CASE ~(p < w)
      <4>1. w = NextSectorOf(p)
        BY <1>3, <3>4, NextSlot
      <4>2. w = 0 /\ t <= p
        BY <3>1, <3>4, <4>1, NothingBetween
      <4> QED
        BY <1>3, <2>1, <2>4, <3>1, <3>2, <4>2
    <3> QED
      BY <3>3, <3>4
  <2> QED
    BY <2>2, <2>3, <2>4
<1>6. flash'[w] > 0
  BY <1>1
<1> QED
  BY <1>4, <1>5, <1>6 DEF Newest, SectorOf

-----------------------------------------------------------------------------
(* The steps of the log *)

\* CaptureLog counts as CaptureStore does.
LEMMA SameCount == ASSUME NEW S PROVE Log!Cardinality(S) = Cardinality(S)
  BY Zenon DEF Log!Cardinality, Cardinality

\* A sector has its number of slots.
LEMMA SectorSize ==
    ASSUME NEW s \in Slots
    PROVE  IsFiniteSet(SectorOf(s)) /\ Cardinality(SectorOf(s)) <= SectorSlots
<1> USE CaptureAssumption DEF CaptureAssumption
<1> DEFINE first == (s \div SectorSlots) * SectorSlots
           span == first..(first + SectorSlots - 1)
<1>1. s \div SectorSlots \in Nat
  BY Sector
<1>2. first \in Nat
  <2> DEFINE q == s \div SectorSlots
  <2> HIDE DEF q
  <2>1. \A d \in Nat : d * SectorSlots \in Nat
    OBVIOUS
  <2> QED
    BY <1>1, <2>1
<1>3. SectorOf(s) \subseteq span
  <2> SUFFICES ASSUME NEW t \in SectorOf(s) PROVE t \in span
    OBVIOUS
  <2>1. t \in Slots /\ t \div SectorSlots = s \div SectorSlots
    BY DEF SectorOf
  <2>2. first <= t /\ t < first + SectorSlots /\ t \in Nat
    BY <2>1, Sector, Ring
  <2> HIDE DEF first
  <2> QED
    BY <1>2, <2>2
<1> HIDE DEF first
<1>4. IsFiniteSet(span) /\ Cardinality(span) = SectorSlots
  BY <1>2, FS_Interval
<1> HIDE DEF span
<1> QED
  BY <1>3, <1>4, FS_Subset

\* What fades in the oldest sector is forgotten in order: at most a sector's
\* worth of records is as old as any that is lost, and the latest one stays.
LEMMA EraseForgets ==
    ASSUME CaptureTypeOK, Unique, Fades, NEW p \in Slots, Newest(p),
           \A s \in Slots \ SectorOf(NextSectorOf(p)) : flash'[s] = flash[s]
    PROVE  Log!Forget
<1> USE CaptureAssumption DEF CaptureAssumption
<1> DEFINE E == SectorOf(NextSectorOf(p))
<1>1. /\ p \notin E /\ E \subseteq Slots
      /\ \A s \in E, t \in Slots \ E : flash[s] > 0 /\ flash[t] > 0 => flash[s] < flash[t]
  BY OldestSector DEF SectorOf
<1>2. \A s \in Slots : flash[s] \in Records <=> flash[s] > 0
  BY RecordsType
<1>3. \A s \in Slots : flash'[s] \in {flash[s], Erased, Torn}
  BY DEF Fades
<1>4. Records' \subseteq Records
  BY <1>3 DEF Records
<1>5. IsFiniteSet(E) /\ Cardinality(E) <= SectorSlots
  BY SectorSize, Ring
<1>6. p \in Slots /\ flash'[p] = flash[p] /\ flash[p] \in Records'
  <2>1. flash'[p] = flash[p] /\ flash[p] \in Records
    BY <1>1, <1>2 DEF Newest
  <2> QED
    BY <2>1 DEF Records
<1>7. ASSUME NEW n \in Records \ Records'
      PROVE  /\ Cardinality({m \in Records : m <= n}) <= SectorSlots
             /\ \E m \in Records' : n < m
  <2>1. PICK s \in Slots : flash[s] = n
    BY DEF Records
  <2>2. s \in E /\ flash[s] > 0
    <3>1. flash[s] > 0
      BY <1>2, <2>1
    <3>2. flash'[s] # flash[s]
      BY <1>7, <2>1 DEF Records
    <3> QED
      BY <3>1, <3>2
  <2>3. n < flash[p]
    BY <1>1, <2>1, <2>2 DEF Newest
  <2> DEFINE older == {m \in Records : m <= n}
             slots == {t \in E : flash[t] \in older}
             at == [t \in slots |-> flash[t]]
  <2>4. \A m \in older : \E t \in slots : at[t] = m
    <3> SUFFICES ASSUME NEW m \in older PROVE \E t \in slots : at[t] = m
      OBVIOUS
    <3>1. PICK t \in Slots : flash[t] = m
      BY DEF Records
    <3>2. t \in E
      <4>1. flash[t] > 0 /\ flash[t] <= n /\ flash[t] \in Int /\ n \in Int
        BY <1>2, <2>1, <3>1, FlashType
      <4>2. ~(n < flash[t])
        BY <4>1
      <4> HIDE DEF E, older, slots, at
      <4> QED
        BY <1>1, <2>1, <2>2, <4>1, <4>2
    <3> QED
      BY <3>1, <3>2
  <2>5. at \in Surjection(slots, older)
    <3>1. at \in [slots -> older]
      OBVIOUS
    <3> HIDE DEF at, slots, older
    <3> QED
      BY <2>4, <3>1 DEF Surjection
  <2>6. IsFiniteSet(slots) /\ Cardinality(slots) <= Cardinality(E)
    <3>1. slots \in SUBSET E
      OBVIOUS
    <3> HIDE DEF slots, E
    <3> QED
      BY <1>5, <3>1, FS_Subset
  <2> HIDE DEF at, slots, older, E
  <2>7. IsFiniteSet(older) /\ Cardinality(older) <= Cardinality(slots)
    BY <2>5, <2>6, FS_Surjection
  <2>8. Cardinality(older) \in Nat /\ Cardinality(slots) \in Nat /\ Cardinality(E) \in Nat
    BY <1>5, <2>6, <2>7, FS_CardinalityType
  <2>9. Cardinality(older) <= SectorSlots
    BY <1>5, <2>6, <2>7, <2>8
  <2> QED
    BY <1>6, <2>3, <2>9 DEF older
<1> HIDE DEF E
<1> QED
  BY <1>4, <1>7, SameCount DEF Log!Forget, Log!Older

\* A record written to an erased slot is appended.
LEMMA WriteAppends ==
    ASSUME CaptureTypeOK, NEW w \in Slots, flash[w] = Erased,
           NEW n \in Nat, n > 0, \A s \in Slots : flash[s] < n,
           flash' = [flash EXCEPT ![w] = n]
    PROVE  Log!Append /\ Records' # {}
<1>1. \A s \in Slots : flash'[s] = IF s = w THEN n ELSE flash[s]
  BY DEF CaptureTypeOK, Partition
<1>2. \A m \in Records : m < n
  BY DEF Records
<1>3. n \notin Records
  BY <1>2
<1>4. Records' = Records \cup {n}
  <2>1. n \in Records'
    BY <1>1 DEF Records, Erased, Torn
  <2>2. \A m \in Records : m \in Records'
    BY <1>1 DEF Records
  <2>3. \A m \in Records' : m \in Records \cup {n}
    BY <1>1 DEF Records
  <2> QED
    BY <2>1, <2>2, <2>3
<1> QED
  BY <1>2, <1>3, <1>4 DEF Log!Append

\* A write that leaves no record in an erased slot changes nothing of the log.
LEMMA SpoiltSlotIsNoRecord ==
    ASSUME CaptureTypeOK, NEW w \in Slots, flash[w] = Erased,
           NEW left \in {Erased, Torn}, flash' = [flash EXCEPT ![w] = left]
    PROVE  /\ Fades /\ Records' = Records
           /\ \A s \in Slots : flash[s] > 0 => flash'[s] = flash[s]
<1>1. \A s \in Slots : flash'[s] = IF s = w THEN left ELSE flash[s]
  BY DEF CaptureTypeOK, Partition
<1>2. Fades
  BY <1>1 DEF Fades, CaptureTypeOK, Partition
<1>3. Records' = Records
  <2>1. \A m \in Records : m \in Records'
    BY <1>1 DEF Records
  <2>2. \A m \in Records' : m \in Records
    BY <1>1 DEF Records
  <2> QED
    BY <2>1, <2>2
<1>4. \A s \in Slots : flash[s] > 0 => flash'[s] = flash[s]
  BY <1>1 DEF Erased
<1> QED
  BY <1>2, <1>3, <1>4

-----------------------------------------------------------------------------
(* The steps of the store *)

\* The ring before and after a step that takes no new record.
Lies == \/ Records = {} /\ (up => nextSlot = 0)
        \/ \E p \in Slots : Newest(p) /\ (up => Behind(p))

\* An erase, complete or not, is a step of the log, and the place for the next
\* record is still behind the latest one.
LEMMA EraseStep ==
    ASSUME RingInv, up, Fades, PreparedSlot % SectorSlots = 0,
           \A s \in Slots \ SectorOf(PreparedSlot) : flash'[s] = flash[s]
    PROVE  /\ [Log!Next]_Records
           /\ (up' => nextSlot' \in {nextSlot, PreparedSlot}) => Lies'
<1>1. CaptureTypeOK /\ Unique
  BY DEF RingInv, CaptureInv
<1>2. CASE Records = {} /\ nextSlot = 0
  <2>1. Records' = {}
    BY <1>2 DEF Fades, Records
  <2>2. PreparedSlot = 0
    BY <1>2, CaptureAssumption DEF CaptureAssumption, PreparedSlot
  <2> QED
    BY <1>2, <2>1, <2>2 DEF Lies
<1>3. ASSUME NEW p \in Slots, Newest(p), Behind(p)
      PROVE  /\ Log!Forget
             /\ (up' => nextSlot' \in {nextSlot, PreparedSlot}) => Lies'
  <2>1. PreparedSlot = NextSectorOf(p)
    BY <1>1, <1>3, PreparedBehind
  <2>2. flash'[p] = flash[p]
    BY <1>1, <1>3, <2>1, OldestSector
  <2>3. Newest(p)'
    BY <1>1, <1>3, <2>2, FadesKeepsNewest
  <2>4. Log!Forget
    BY <1>1, <1>3, <2>1, EraseForgets
  <2>5. up' /\ nextSlot' \in {nextSlot, PreparedSlot} => Behind(p)'
    BY <1>3, <2>1 DEF Behind
  <2> QED
    BY <2>3, <2>4, <2>5 DEF Lies
<1> QED
  BY <1>2, <1>3 DEF RingInv, Log!Next

\* A record written, whether the service survives it or not.
LEMMA WriteStep ==
    ASSUME RingInv, up, writer = "prepared",
           flash' = [flash EXCEPT ![nextSlot] = nextSequence],
           up' => nextSlot' = NextOf(nextSlot)
    PROVE  [Log!Next]_Records /\ Lies'
<1>w. PICK w \in Slots : w = nextSlot
  BY DEF RingInv, CaptureInv, CaptureTypeOK
<1>1. /\ CaptureTypeOK /\ flash[w] = Erased
      /\ flash' = [flash EXCEPT ![w] = nextSequence]
      /\ nextSequence \in Nat /\ nextSequence > 0 /\ \A s \in Slots : flash[s] < nextSequence
      /\ w % SectorSlots = 0 => \A s \in SectorOf(w) : flash[s] = Erased
  BY <1>w DEF RingInv, CaptureInv, CaptureTypeOK
<1>2. Log!Append
  BY <1>1, WriteAppends
<1>3. Newest(w)'
  <2>1. CASE Records = {} /\ nextSlot = 0
    <3>1. \A s \in Slots : flash[s] <= 0
      <4> SUFFICES ASSUME NEW s \in Slots PROVE flash[s] <= 0
        OBVIOUS
      <4>1. flash[s] \in Int /\ ~(flash[s] > 0)
        BY <1>1, <2>1, RecordsType, FlashType
      <4> QED
        BY <4>1
    <3>2. \A s \in Slots : flash'[s] = IF s = w THEN nextSequence ELSE flash[s]
      BY <1>1 DEF CaptureTypeOK, Partition
    <3>3. \A s \in Slots : flash'[s] > 0 => s = w
      <4> SUFFICES ASSUME NEW s \in Slots, s # w PROVE ~(flash'[s] > 0)
        OBVIOUS
      <4>1. flash'[s] = flash[s] /\ flash[s] <= 0 /\ flash[s] \in Int
        BY <1>1, <3>1, <3>2, FlashType
      <4> QED
        BY <4>1
    <3>4. flash'[w] > 0
      BY <1>1, <3>2
    <3>5. \A s \in Slots : w < s => flash'[s] <= 0
      BY <1>1, <3>1, <3>2, Ring
    <3>6. Slots \subseteq Nat
      BY Ring
    <3> QED
      BY <1>1, <3>3, <3>4, <3>5, <3>6 DEF Newest, SectorOf
  <2>2. ASSUME NEW p \in Slots, Newest(p), Behind(p) PROVE Newest(w)'
    BY <1>w, <1>1, <2>2, WriteMovesNewest DEF Behind
  <2> QED
    BY <2>1, <2>2 DEF RingInv
<1>4. up' => Behind(w)'
  BY <1>w DEF Behind
<1> QED
  BY <1>1, <1>2, <1>3, <1>4 DEF Lies, Log!Next

\* A write that leaves no record, and a step that leaves the flash alone.
LEMMA NoRecordStep ==
    ASSUME RingInv,
           \/ flash' = flash
           \/ /\ up /\ writer = "prepared"
              /\ \E left \in {Erased, Torn} : flash' = [flash EXCEPT ![nextSlot] = left],
           up' => up /\ nextSlot' = nextSlot
    PROVE  [Log!Next]_Records /\ Lies'
<1>1. /\ CaptureTypeOK /\ nextSlot \in Slots
      /\ writer = "prepared" => flash[nextSlot] = Erased
  BY DEF RingInv, CaptureInv, CaptureTypeOK
<1>2. /\ Records' = Records /\ Fades
      /\ \A s \in Slots : flash[s] > 0 => flash'[s] = flash[s]
  <2>1. CASE flash' = flash
    BY <1>1, <2>1 DEF Records, Fades, CaptureTypeOK
  <2>2. CASE flash' # flash
    BY <1>1, <2>2, SpoiltSlotIsNoRecord
  <2> QED
    BY <2>1, <2>2
<1>3. CASE Records = {} /\ (up => nextSlot = 0)
  BY <1>2, <1>3 DEF Lies
<1>4. ASSUME NEW p \in Slots, Newest(p), up => Behind(p) PROVE Lies'
  <2>1. flash'[p] = flash[p]
    BY <1>2, <1>4 DEF Newest
  <2>2. Newest(p)'
    BY <1>1, <1>2, <1>4, <2>1, FadesKeepsNewest
  <2>3. up' => Behind(p)'
    BY <1>4 DEF Behind
  <2> QED
    BY <2>2, <2>3 DEF Lies
<1> QED
  BY <1>2, <1>3, <1>4 DEF RingInv

\* A start finds the slot behind the latest record.
LEMMA BootStep ==
    ASSUME RingInv, Boot
    PROVE  [Log!Next]_Records /\ Lies'
<1> DEFINE scanned == [s \in Slots |-> IF flash[s] \in Records THEN flash[s] ELSE 0]
           latest == Summary(scanned).latest
<1>1. CaptureTypeOK
  BY DEF RingInv, CaptureInv
<1>2. /\ flash' = flash /\ up' = TRUE
      /\ nextSlot' = IF latest = 0 THEN 0 ELSE NextOf(CHOOSE s \in Slots : scanned[s] = latest)
  BY DEF Boot
<1>3. /\ scanned \in [Slots -> 0..MaxSequence]
      /\ \A s \in Slots : scanned[s] = IF flash[s] > 0 THEN flash[s] ELSE 0
  BY <1>1, RecordsType, CaptureAssumption DEF CaptureAssumption
<1> HIDE DEF scanned
<1>4. /\ \A s \in Slots : scanned[s] <= latest
      /\ latest # 0 => \E s \in Slots : scanned[s] = latest
      /\ latest \in Nat
  BY <1>3, SummaryType, CaptureAssumption DEF Info, CaptureAssumption
<1> HIDE DEF latest
<1>5. Records' = Records
  BY <1>2 DEF Records
<1>6. CASE Records = {}
  <2>1. \A s \in Slots : scanned[s] = 0
    BY <1>1, <1>3, <1>6, RecordsType
  <2>2. latest = 0
    BY <1>4, <2>1
  <2> QED
    BY <1>2, <1>5, <1>6, <2>2 DEF Lies
<1>7. ASSUME NEW p \in Slots, Newest(p) PROVE Lies'
  <2>1. flash[p] > 0 /\ scanned[p] = flash[p]
    BY <1>3, <1>7 DEF Newest
  <2>2. latest # 0
    BY <1>1, <1>4, <2>1, FlashType
  <2>3. \A s \in Slots : scanned[s] = latest => s = p
    <3> SUFFICES ASSUME NEW s \in Slots, scanned[s] = latest, s # p PROVE FALSE
      OBVIOUS
    <3>1. flash[s] = latest /\ flash[s] > 0
      BY <1>3, <1>4, <2>2
    <3>2. flash[s] < flash[p]
      BY <1>1, <1>7, <3>1, NewestIsHighest
    <3>3. flash[p] <= latest /\ flash[p] \in Int
      BY <1>1, <1>4, <2>1, FlashType
    <3> QED
      BY <1>4, <3>1, <3>2, <3>3
  <2>4. nextSlot' = NextOf(p)
    <3>1. (CHOOSE s \in Slots : scanned[s] = latest) = p
      BY <1>4, <2>2, <2>3
    <3> QED
      BY <1>2, <2>2, <3>1
  <2>5. Newest(p)' /\ Behind(p)'
    BY <1>2, <1>7, <2>4 DEF Newest, Behind, SectorOf
  <2> QED
    BY <2>5 DEF Lies
<1> QED
  BY <1>5, <1>6, <1>7 DEF RingInv

\* Every step of the store keeps the ring in order and is a step of the log.
LEMMA RingStep == RingInv /\ [Next]_captureVars => RingInv' /\ [Log!Next]_Records
<1> SUFFICES ASSUME RingInv, [Next]_captureVars PROVE RingInv' /\ [Log!Next]_Records
  OBVIOUS
<1>1. CaptureInv /\ CaptureInv' /\ CaptureTypeOK
  BY CaptureInvStep DEF RingInv, CaptureInv
<1>2. CaptureInv' /\ Lies' /\ writer' # "prepared" => RingInv'
  BY DEF RingInv, Lies, Newest, Behind
<1>3. CASE Boot
  BY <1>1, <1>2, <1>3, BootStep DEF Boot, CaptureInv
<1>4. CASE Enqueue \/ TakeRequest \/ GetAfter \/ RestartExport \/ UNCHANGED captureVars
  <2>1. /\ flash' = flash /\ up' = up /\ nextSlot' = nextSlot
        /\ writer' = "prepared" => writer = "prepared"
    BY <1>4 DEF Enqueue, TakeRequest, GetAfter, RestartExport, captureVars
  <2>2. [Log!Next]_Records /\ Lies'
    BY <2>1, NoRecordStep
  <2> QED
    BY <1>1, <2>1, <2>2 DEF RingInv, Lies, Newest, Behind, SectorOf
<1>5. CASE PrepareSlot
  <2>1. /\ up /\ up' = up /\ nextSlot' = PreparedSlot /\ PreparedSlot \in Slots
    BY <1>1, <1>5, PreparedSlotType DEF PrepareSlot
  <2>2. CASE PreparedSlot % SectorSlots = 0
    <3>1. \A s \in Slots : flash'[s] = IF s \in SectorOf(PreparedSlot) THEN Erased ELSE flash[s]
      BY <1>5, <2>2 DEF PrepareSlot
    <3>2. Fades
      BY <1>1, <3>1 DEF Fades, CaptureInv, CaptureTypeOK
    <3>3. [Log!Next]_Records /\ Lies'
      BY <2>1, <2>2, <3>1, <3>2, EraseStep
    <3>4. /\ PreparedSlot \in SectorOf(PreparedSlot)
          /\ SectorOf(PreparedSlot) \subseteq Slots
      BY <2>1 DEF SectorOf
    <3>5. /\ flash'[nextSlot'] = Erased
          /\ \A s \in SectorOf(nextSlot') : flash'[s] = Erased
      BY <2>1, <3>1, <3>4
    <3> QED
      BY <1>1, <3>3, <3>5 DEF RingInv, Lies, Newest, Behind, SectorOf
  <2>3. CASE PreparedSlot % SectorSlots # 0
    <3>1. flash' = flash /\ flash[PreparedSlot] = Erased
      BY <1>1, <1>5, <2>3, Ring DEF PrepareSlot, PreparedSlot, CaptureTypeOK
    <3>2. PreparedSlot = nextSlot
      BY <1>1, <2>3, Ring DEF PreparedSlot, CaptureTypeOK
    <3>3. [Log!Next]_Records /\ Lies'
      BY <2>1, <3>1, <3>2, NoRecordStep
    <3> QED
      BY <1>1, <2>1, <2>3, <3>1, <3>3 DEF RingInv, Lies, Newest, Behind, SectorOf
  <2> QED
    BY <2>2, <2>3
<1>6. CASE PrepareFails
  <2>1. up /\ up' = up /\ writer' = "idle"
    BY <1>6 DEF PrepareFails
  <2>2. CASE UNCHANGED <<flash, nextSlot>>
    BY <1>1, <1>2, <2>1, <2>2, NoRecordStep
  <2>3. CASE /\ PreparedSlot % SectorSlots = 0
             /\ nextSlot' = PreparedSlot
             /\ PartlyErased(PreparedSlot)
    <3>1. Fades
      BY <1>1, <2>3, PreparedSlotType, EraseFades
    <3>2. \A s \in Slots \ SectorOf(PreparedSlot) : flash'[s] = flash[s]
      BY <2>3 DEF PartlyErased
    <3> QED
      BY <1>1, <1>2, <2>1, <2>3, <3>1, <3>2, EraseStep
  <2> QED
    BY <1>6, <2>2, <2>3 DEF PrepareFails
<1>7. CASE WriteRecord
  <2>1. /\ up /\ writer = "prepared" /\ writer' = "idle" /\ nextSlot' = NextOf(nextSlot)
        /\ flash[nextSlot] = Erased
    BY <1>7 DEF WriteRecord, RingInv
  <2>2. flash' = [flash EXCEPT ![nextSlot] = nextSequence]
    BY <1>7, <2>1 DEF WriteRecord
  <2> QED
    BY <1>1, <1>2, <2>1, <2>2, WriteStep
<1>8. CASE WriteFails
  BY <1>1, <1>2, <1>8, NoRecordStep DEF WriteFails
<1>9. CASE Crash
  BY <1>1, <1>2, <1>9, NoRecordStep DEF Crash, LosePower
<1>10. CASE CrashInErase
  <2>1. /\ up /\ up' = FALSE /\ writer' = "idle"
        /\ PreparedSlot % SectorSlots = 0 /\ PartlyErased(PreparedSlot)
    BY <1>10 DEF CrashInErase, LosePower
  <2>2. Fades
    BY <1>1, <2>1, PreparedSlotType, EraseFades
  <2>3. \A s \in Slots \ SectorOf(PreparedSlot) : flash'[s] = flash[s]
    BY <2>1 DEF PartlyErased
  <2> QED
    BY <1>1, <1>2, <2>1, <2>2, <2>3, EraseStep
<1>11. CASE CrashInWrite
  <2>1. /\ up /\ up' = FALSE /\ writer = "prepared" /\ writer' = "idle"
        /\ \E left \in {Erased, Torn, nextSequence} : flash' = [flash EXCEPT ![nextSlot] = left]
    BY <1>11 DEF CrashInWrite, LosePower
  <2>2. CASE flash' = [flash EXCEPT ![nextSlot] = nextSequence]
    BY <1>1, <1>2, <2>1, <2>2, WriteStep
  <2>3. CASE \E left \in {Erased, Torn} : flash' = [flash EXCEPT ![nextSlot] = left]
    BY <1>1, <1>2, <2>1, <2>3, NoRecordStep
  <2> QED
    BY <2>1, <2>2, <2>3
<1> QED
  BY <1>3, <1>4, <1>5, <1>6, <1>7, <1>8, <1>9, <1>10, <1>11 DEF Next

\* Whatever flash operations fail and wherever power is lost, for every size of
\* the partition: numbers only grow, a loss reaches only into the oldest
\* sector's worth of records, and the latest record survives
\* (prepare_next_slot_locked, write_request, capture_store_init).
THEOREM ImplementsLog == Spec => IsLog
<1>1. Init => RingInv /\ Log!Init
  <2> SUFFICES ASSUME Init PROVE RingInv /\ Log!Init
    OBVIOUS
  <2>1. Records = {}
    BY DEF Init, Records
  <2>2. writer # "prepared" /\ nextSlot = 0
    BY DEF Init
  <2> QED
    BY <2>1, <2>2, CaptureInvInit DEF RingInv, Log!Init
<1>2. RingInv /\ [Next]_captureVars => RingInv' /\ [Log!Next]_Records
  BY RingStep
<1> QED
  BY <1>1, <1>2, PTL DEF Spec, IsLog, Log!Spec
==============================================================================
