----------------------------- MODULE DeviceProofs -----------------------------
(***************************************************************************)
(* Proofs about Device, for any number of uploads, losses of power and     *)
(* aborts: types, and that the device can always be recovered.             *)
(*                                                                         *)
(* Recoverable is not inductive: an upload overwrites the slot that is not *)
(* running, so the running one must be the good one or no upload be        *)
(* possible; and a slot the bootloader turns away from must have been on   *)
(* trial, or it would be chosen again.  Safe and DeviceInv say so.         *)
(***************************************************************************)
EXTENDS Device, TLAPS

\* A slot the device falls back to for ever.
Safe(s) ==
    /\ image[s] = "good"
    /\ trial[s] = "valid"
    /\ selected # s => trial[selected] \in {"new", "pending"}

\* The running image is on trial; nothing is uploaded meanwhile.
OnTrial ==
    /\ running = selected
    /\ trial[running] = "pending"
    /\ image[running] # "torn"
    /\ upload = "none"
    /\ Safe(Other(running))

DeviceInv ==
    /\ DeviceTypeOK
    /\ phase = "off" => upload = "none" /\ \E s \in Slot : Safe(s)
    /\ phase # "off" => Safe(running) \/ OnTrial
    /\ phase \in {"bridged", "done"} => image[running] # "hangs"

\* The two slots, and which of them is the other.
LEMMA Slots ==
    /\ \A s \in Slot : Other(s) \in Slot /\ Other(s) # s /\ Other(Other(s)) = s
    /\ \A s, t \in Slot : t # s => t = Other(s)
  BY DEF Slot, Other

\* A bounded counter stays in its range.
LEMMA OneMore ==
    ASSUME NEW max \in Nat, NEW n \in 0..max, n < max
    PROVE  n + 1 \in 0..max
  OBVIOUS

-----------------------------------------------------------------------------
(* Types *)

\* Each variable has its type at the start.
LEMMA TypeInit == DeviceInit => DeviceTypeOK
  BY DeviceAssumption DEF DeviceAssumption, DeviceInit, DeviceTypeOK, Slot, Complete

\* Every step keeps the types: the bootloader's judgement of a slot is again a
\* state of a slot.
LEMMA TypeStep == DeviceTypeOK /\ [DeviceNext]_deviceVars => DeviceTypeOK'
<1> SUFFICES ASSUME DeviceTypeOK, [DeviceNext]_deviceVars PROVE DeviceTypeOK'
  OBVIOUS
<1> USE Slots, DeviceAssumption DEF DeviceAssumption
<1>1. CASE Boot
  <2>1. Judged(trial[selected]) \in {"blank", "new", "pending", "valid", "aborted"}
    BY DEF Judged, DeviceTypeOK
  <2> QED
    BY <1>1, <2>1 DEF DeviceTypeOK, Boot
<1>2. CASE HttpStarts
  BY <1>2 DEF DeviceTypeOK, HttpStarts, TrialOnceServing, App
<1>3. CASE BridgeStarts
  BY <1>3 DEF DeviceTypeOK, BridgeStarts, AfterBridge, App
<1>4. CASE MarkValid
  BY <1>4 DEF DeviceTypeOK, MarkValid, App
<1>5. CASE AbortsAtStart
  BY <1>5 DEF DeviceTypeOK, AbortsAtStart, Down, slotVars
<1>6. CASE Upset
  <2>1. upsets' \in 0..MaxUpsets
    BY <1>6, OneMore DEF DeviceTypeOK, Upset
  <2> QED
    BY <1>6, <2>1 DEF DeviceTypeOK, Upset, Down, slotVars
<1>7. CASE UploadBegins
  <2>1. uploads' \in 0..MaxUploads
    BY <1>7, OneMore DEF DeviceTypeOK, UploadBegins
  <2>2. image' \in [Slot -> Complete \cup {"torn"}]
    BY <1>7 DEF DeviceTypeOK, UploadBegins
  <2> QED
    BY <1>7, <2>1, <2>2 DEF DeviceTypeOK, UploadBegins, Handling
<1>8. CASE UploadFails
  BY <1>8 DEF DeviceTypeOK, UploadFails, Handling, slotVars
<1>9. CASE UploadEnds
  <2>1. image' \in [Slot -> Complete \cup {"torn"}]
    BY <1>9 DEF DeviceTypeOK, UploadEnds
  <2> QED
    BY <1>9, <2>1 DEF DeviceTypeOK, UploadEnds, Handling
<1>10. CASE SetBoot
  BY <1>10 DEF DeviceTypeOK, SetBoot, BootSlot, Handling
<1>11. CASE UploadAnswered
  BY <1>11 DEF DeviceTypeOK, UploadAnswered, AfterAnswer, Schedule, Handling, slotVars
<1>12. CASE RestartRequested
  BY <1>12 DEF DeviceTypeOK, RestartRequested, Schedule, slotVars
<1>13. CASE DelayedRestart
  BY <1>13 DEF DeviceTypeOK, DelayedRestart, Down, slotVars
<1>14. CASE UNCHANGED deviceVars
  BY <1>14 DEF DeviceTypeOK, deviceVars
<1> QED
  BY <1>1, <1>2, <1>3, <1>4, <1>5, <1>6, <1>7, <1>8, <1>9, <1>10, <1>11, <1>12,
     <1>13, <1>14 DEF DeviceNext

\* Every variable keeps its type, whatever is uploaded and whenever the device
\* stops (main.c, web_service.c).
THEOREM DeviceTypeCorrect == DeviceSpec => []DeviceTypeOK
<1>1. DeviceInit => DeviceTypeOK
  BY TypeInit
<1>2. DeviceTypeOK /\ [DeviceNext]_deviceVars => DeviceTypeOK'
  BY TypeStep
<1> QED
  BY <1>1, <1>2, PTL DEF DeviceSpec

-----------------------------------------------------------------------------
(* Recovery *)

\* The device goes down: the slot it runs from, or the other, is safe.
LEMMA DownKeepsInv == DeviceInv /\ Down /\ DeviceTypeOK' => DeviceInv'
<1> SUFFICES ASSUME DeviceInv, Down, DeviceTypeOK' PROVE DeviceInv'
  OBVIOUS
<1>1. image' = image /\ trial' = trial /\ selected' = selected
  BY DEF Down, slotVars
<1>2. \E s \in Slot : Safe(s)
  BY Slots DEF DeviceInv, OnTrial, DeviceTypeOK
<1>3. \E s \in Slot : Safe(s)'
  BY <1>1, <1>2 DEF Safe
<1> QED
  BY <1>3 DEF DeviceInv, Down

\* What app_main does before the end of the trial concerns no slot.
LEMMA AppKeepsInv ==
    ASSUME DeviceInv, DeviceTypeOK', UNCHANGED slotVars, UNCHANGED <<running, upload>>,
           phase # "off", phase' # "off",
           phase' \in {"bridged", "done"} => image[running] # "hangs"
    PROVE  DeviceInv'
<1>1. /\ image' = image /\ trial' = trial /\ selected' = selected
      /\ running' = running /\ upload' = upload
  BY DEF slotVars
<1> QED
  BY <1>1 DEF DeviceInv, Safe, OnTrial

\* The bootloader starts a safe slot, or one on trial beside a safe one.
LEMMA BootKeepsInv == DeviceInv /\ Boot /\ DeviceTypeOK' => DeviceInv'
<1> SUFFICES ASSUME DeviceInv, Boot, DeviceTypeOK' PROVE DeviceInv'
  OBVIOUS
<1> USE Slots
<1>1. PICK g \in Slot : Safe(g)
  BY DEF DeviceInv, Boot
<1>2. phase' = "booted" /\ upload' = "none" /\ image' = image
  BY DEF DeviceInv, Boot
<1>3. selected \in Slot /\ trial \in [Slot -> {"blank", "new", "pending", "valid", "aborted"}]
  BY DEF DeviceInv, DeviceTypeOK
<1>4. CASE selected = g
  <2>1. trial' = trial /\ selected' = g /\ running' = g
    BY <1>1, <1>3, <1>4 DEF Boot, Safe, Judged
  <2> QED
    BY <1>1, <1>2, <2>1 DEF DeviceInv, Safe
<1>5. CASE selected # g
  <2>1. g = Other(selected) /\ selected = Other(g)
    BY <1>3, <1>5
  <2>2. CASE trial[selected] = "pending"
    <3>1. selected' = g /\ running' = g /\ trial'[g] = "valid"
      BY <1>1, <1>3, <1>5, <2>1, <2>2 DEF Boot, Safe, Judged
    <3> QED
      BY <1>1, <1>2, <3>1 DEF DeviceInv, Safe
  <2>3. CASE trial[selected] = "new"
    <3>1. trial'[selected] = "pending" /\ trial'[g] = "valid" /\ selected' = selected
      BY <1>1, <1>3, <1>5, <2>3 DEF Boot, Safe, Judged
    <3>2. running' = IF image[selected] = "torn" THEN g ELSE selected
      BY <1>3, <2>1, <2>3 DEF Boot, Judged
    <3>3. Safe(g)'
      BY <1>1, <1>2, <3>1 DEF Safe
    <3>4. Safe(running)' \/ OnTrial'
      BY <1>2, <2>1, <3>1, <3>2, <3>3 DEF Safe, OnTrial
    <3> QED
      BY <1>2, <3>4 DEF DeviceInv
  <2> QED
    BY <1>1, <1>5, <2>2, <2>3 DEF Safe
<1> QED
  BY <1>4, <1>5

\* An image that reaches the end of app_main is a good one, and safe from then on.
LEMMA MarkValidKeepsInv == DeviceInv /\ MarkValid /\ DeviceTypeOK' => DeviceInv'
<1> SUFFICES ASSUME DeviceInv, MarkValid, DeviceTypeOK' PROVE DeviceInv'
  OBVIOUS
<1>1. /\ phase' = "done" /\ image' = image /\ selected' = selected
      /\ running' = running /\ running \in Slot /\ selected \in Slot
      /\ trial' = [trial EXCEPT ![running] = "valid"]
      /\ trial \in [Slot -> {"blank", "new", "pending", "valid", "aborted"}]
  BY DEF MarkValid, App, DeviceInv, DeviceTypeOK
<1>2. image[running] # "torn" /\ image[running] \in Complete \cup {"torn"}
  BY DEF MarkValid, DeviceInv, DeviceTypeOK, Safe, OnTrial
<1>3. image[running] = "good"
  BY <1>2 DEF MarkValid, DeviceInv, Complete
<1>4. selected # running => trial[selected] \in {"new", "pending"}
  BY DEF MarkValid, DeviceInv, Safe, OnTrial
<1> QED
  BY <1>1, <1>3, <1>4 DEF DeviceInv, Safe

\* An upload writes into the slot beside a safe one, and selects it at most.
LEMMA UploadKeepsInv ==
    ASSUME DeviceInv, DeviceTypeOK', phase # "off",
           upload # "none" \/ trial[running] # "pending",
           UNCHANGED <<running, phase>>,
           image'[running] = image[running], trial'[running] = trial[running],
           \/ UNCHANGED <<trial, selected>>
           \/ selected' = Other(running) /\ trial'[selected'] = "new"
    PROVE  DeviceInv'
<1>1. running' = running /\ phase' = phase
  OBVIOUS
<1>2. Safe(running)
  BY DEF DeviceInv, OnTrial
<1>3. Safe(running)'
  BY <1>1, <1>2 DEF Safe
<1> QED
  BY <1>1, <1>3 DEF DeviceInv, Safe

\* Every step keeps the invariant.
LEMMA DeviceInvStep == DeviceInv /\ [DeviceNext]_deviceVars => DeviceInv'
<1> SUFFICES ASSUME DeviceInv, [DeviceNext]_deviceVars PROVE DeviceInv'
  OBVIOUS
<1>0. DeviceTypeOK'
  BY TypeStep DEF DeviceInv
<1>t. running \in Slot /\ Other(running) \in Slot /\ Other(running) # running
  BY Slots DEF DeviceInv, DeviceTypeOK
<1>1. CASE Boot
  BY <1>0, <1>1, BootKeepsInv
<1>2. CASE HttpStarts
  BY <1>0, <1>2, AppKeepsInv DEF HttpStarts, TrialOnceServing, App, slotVars
<1>3. CASE BridgeStarts
  BY <1>0, <1>3, AppKeepsInv DEF BridgeStarts, AfterBridge, App, slotVars
<1>4. CASE MarkValid
  BY <1>0, <1>4, MarkValidKeepsInv
<1>5. CASE AbortsAtStart
  BY <1>0, <1>5, DownKeepsInv DEF AbortsAtStart
<1>6. CASE Upset
  BY <1>0, <1>6, DownKeepsInv DEF Upset
<1>7. CASE DelayedRestart
  BY <1>0, <1>7, DownKeepsInv DEF DelayedRestart
<1>8. CASE UploadBegins
  BY <1>0, <1>t, <1>8, UploadKeepsInv
     DEF UploadBegins, Handling, Serving, DeviceInv, DeviceTypeOK
<1>9. CASE UploadFails
  BY <1>0, <1>9, UploadKeepsInv DEF UploadFails, Handling, DeviceInv, slotVars
<1>10. CASE UploadEnds
  BY <1>0, <1>t, <1>10, UploadKeepsInv
     DEF UploadEnds, Handling, DeviceInv, DeviceTypeOK
<1>11. CASE SetBoot
  BY <1>0, <1>t, <1>11, UploadKeepsInv
     DEF SetBoot, BootSlot, Handling, DeviceInv, DeviceTypeOK
<1>12. CASE UploadAnswered
  BY <1>0, <1>12, UploadKeepsInv DEF UploadAnswered, Handling, DeviceInv, slotVars
<1>13. CASE RestartRequested \/ UNCHANGED deviceVars
  <2>1. /\ image' = image /\ trial' = trial /\ selected' = selected
        /\ running' = running /\ upload' = upload /\ phase' = phase
    BY <1>13 DEF RestartRequested, deviceVars, slotVars
  <2> QED
    BY <1>0, <2>1 DEF DeviceInv, Safe, OnTrial
<1> QED
  BY <1>1, <1>2, <1>3, <1>4, <1>5, <1>6, <1>7, <1>8, <1>9, <1>10, <1>11, <1>12,
     <1>13 DEF DeviceNext

\* Whatever is uploaded, and whenever the device loses power or aborts, one of
\* the two slots holds an image that starts well and has passed its trial
\* (ota_handler, and the end of app_main).
THEOREM AlwaysRecoverable == DeviceSpec => []Recoverable
<1>1. DeviceInit => DeviceInv
  BY TypeInit DEF DeviceInit, DeviceInv, Safe, Slot
<1>2. DeviceInv /\ [DeviceNext]_deviceVars => DeviceInv'
  BY DeviceInvStep
<1>3. DeviceInv => Recoverable
  BY Slots DEF DeviceInv, DeviceTypeOK, Safe, OnTrial, Recoverable
<1> QED
  BY <1>1, <1>2, <1>3, PTL DEF DeviceSpec
===============================================================================
