------------------------------- MODULE Device --------------------------------
(***************************************************************************)
(* Start-up and update of the whole device: app_main (main.c), the update  *)
(* and restart requests (web_service.c), and the two application slots     *)
(* they are about.  Power may be lost, and any task may abort, at any      *)
(* time.                                                                   *)
(*                                                                         *)
(* The bootloader and esp_ota_ops are external: an image that boots for    *)
(* the first time is on trial until app_main marks it valid; a second boot *)
(* on trial gives it up.                                                   *)
(***************************************************************************)
EXTENDS Integers

CONSTANTS
    MaxUploads,  \* bound: update requests
    MaxUpsets    \* bound: losses of power and aborts

ASSUME DeviceAssumption == MaxUploads \in Nat /\ MaxUpsets \in Nat

VARIABLES
    image,        \* what each slot holds
    trial,        \* otadata's state of each slot
    selected,     \* the slot otadata selects
    running,      \* the slot the device has started from
    phase,        \* how far app_main is
    bridgeFault,  \* bridge_service_start fails on this hardware
    upload,       \* where ota_handler is
    restart,      \* delayed_restart_task
    uploads,
    upsets

deviceVars == <<image, trial, selected, running, phase, bridgeFault, upload,
                restart, uploads, upsets>>

slotVars == <<image, trial, selected>>

Slot == 0..1

\* esp_ota_get_next_update_partition.
Other(slot) == 1 - slot

\* A complete image starts well, aborts in app_main before its end, or never
\* returns from bridge_service_start.
Complete == {"good", "aborts", "hangs"}

DeviceTypeOK ==
    /\ image \in [Slot -> Complete \cup {"torn"}]
    /\ trial \in [Slot -> {"blank", "new", "pending", "valid", "aborted"}]
    /\ selected \in Slot /\ running \in Slot
    /\ phase \in {"off", "booted", "serving", "bridged", "done"}
    /\ bridgeFault \in BOOLEAN
    /\ upload \in {"none", "receiving", "checked", "accepted"}
    /\ restart \in {"none", "due", "not created"}
    /\ uploads \in 0..MaxUploads
    /\ upsets \in 0..MaxUpsets

\* The first installation (USB): one slot holds an image that starts.
DeviceInit ==
    /\ image = [s \in Slot |-> IF s = 0 THEN "good" ELSE "torn"]
    /\ trial = [s \in Slot |-> IF s = 0 THEN "valid" ELSE "blank"]
    /\ selected = 0
    /\ running = 0
    /\ phase = "off"
    /\ bridgeFault \in BOOLEAN
    /\ upload = "none"
    /\ restart = "none"
    /\ uploads = 0
    /\ upsets = 0

\* HTTP is up from web_service_start to the end.
Serving == phase \in {"serving", "bridged", "done"}

-----------------------------------------------------------------------------
(* The bootloader *)

\* A new image goes on trial; one that is still on trial is given up.
Judged(state) ==
    CASE state = "new"     -> "pending"
      [] state = "pending" -> "aborted"
      [] OTHER             -> state

\* An image that does not verify, or is given up, leaves the turn to the other
\* slot; only the second changes the selection.
Boot ==
    LET judged == Judged(trial[selected])
        start  == IF judged = "aborted" \/ image[selected] = "torn"
                  THEN Other(selected) ELSE selected
    IN  /\ phase = "off"
        /\ image[start] # "torn"
        /\ phase' = "booted"
        /\ running' = start
        /\ trial' = [trial EXCEPT ![selected] = judged]
        /\ selected' = IF judged = "aborted" THEN start ELSE selected
        /\ UNCHANGED <<image, bridgeFault, upload, restart, uploads, upsets>>

-----------------------------------------------------------------------------
(* app_main *)

App(next) ==
    /\ phase' = next
    /\ UNCHANGED <<image, selected, running, bridgeFault, upload, restart,
                   uploads, upsets>>

\* Mutant: the image is marked valid as soon as it serves.
ValidatedWithHttp == [trial EXCEPT ![running] = "valid"]

\* HTTP does not end the trial.
TrialOnceServing == trial

\* Storage, Wi-Fi and HTTP, in this order.
HttpStarts ==
    /\ phase = "booted"
    /\ trial' = TrialOnceServing
    /\ App("serving")

\* Everything in memory is lost.
Down ==
    /\ phase' = "off"
    /\ upload' = "none"
    /\ restart' = "none"
    /\ UNCHANGED <<slotVars, running, bridgeFault, uploads>>

\* Mutant: a bridge that does not start aborts the start.
BridgeFaultAborts ==
    IF bridgeFault THEN Down /\ UNCHANGED upsets ELSE App("bridged") /\ UNCHANGED trial

\* A bridge that does not start is reported, and app_main goes on.
AfterBridge == App("bridged") /\ UNCHANGED trial

BridgeStarts ==
    /\ phase = "serving"
    /\ image[running] # "hangs"
    /\ AfterBridge

\* The front ends start, and esp_ota_mark_app_valid_cancel_rollback ends the
\* trial of the running image.
MarkValid ==
    /\ phase = "bridged"
    /\ image[running] # "aborts"
    /\ trial' = [trial EXCEPT ![running] = "valid"]
    /\ App("done")

\* An ESP_ERROR_CHECK that fails whenever this image starts.
AbortsAtStart ==
    /\ phase \in {"booted", "serving", "bridged"}
    /\ image[running] = "aborts"
    /\ Down
    /\ UNCHANGED upsets

\* A loss of power, a panic, or a passing fault under an ESP_ERROR_CHECK.
Upset ==
    /\ phase # "off"
    /\ upsets < MaxUpsets
    /\ upsets' = upsets + 1
    /\ Down

-----------------------------------------------------------------------------
(* ota_handler *)

Handling(next) ==
    /\ upload' = next
    /\ UNCHANGED <<running, phase, bridgeFault, upsets>>

\* esp_ota_begin erases the other slot; esp_ota_ops refuses while the running
\* image is on trial.
UploadBegins ==
    /\ Serving
    /\ upload = "none"
    /\ trial[running] # "pending"
    /\ uploads < MaxUploads
    /\ uploads' = uploads + 1
    /\ image' = [image EXCEPT ![Other(running)] = "torn"]
    /\ UNCHANGED <<trial, selected, restart>>
    /\ Handling("receiving")

\* No memory, the connection breaks, a write fails, or the image is invalid.
UploadFails ==
    /\ upload \in {"receiving", "checked"}
    /\ UNCHANGED <<slotVars, restart, uploads>>
    /\ Handling("none")

\* The last chunk is written and esp_ota_end accepts the image.
UploadEnds ==
    /\ upload = "receiving"
    /\ \E i \in Complete : image' = [image EXCEPT ![Other(running)] = i]
    /\ UNCHANGED <<trial, selected, restart, uploads>>
    /\ Handling("checked")

BootSlot == Other(running)

\* esp_ota_set_boot_partition.
SetBoot ==
    /\ upload = "checked"
    /\ selected' = BootSlot
    /\ trial' = [s \in Slot |-> IF s = selected' THEN "new" ELSE trial[s]]
    /\ UNCHANGED <<image, restart, uploads>>
    /\ Handling("accepted")

\* xTaskCreate(delayed_restart_task), whose result nobody looks at; a task that
\* is waiting already goes on waiting.
Schedule == restart' \in {"due", IF restart = "due" THEN "due" ELSE "not created"}

\* Mutant: an accepted update is left to the next restart.
ScheduleNothing == UNCHANGED restart

\* What the handler does once it has answered.
AfterAnswer == Schedule

UploadAnswered ==
    /\ upload = "accepted"
    /\ AfterAnswer
    /\ UNCHANGED <<slotVars, uploads>>
    /\ Handling("none")

-----------------------------------------------------------------------------
(* Restarts *)

\* reboot_handler.
RestartRequested ==
    /\ Serving
    /\ upload = "none"
    /\ Schedule
    /\ UNCHANGED <<slotVars, running, phase, bridgeFault, upload, uploads, upsets>>

\* A second after the request, whatever the other tasks are doing.
DelayedRestart ==
    /\ restart = "due"
    /\ Down
    /\ UNCHANGED upsets

DeviceNext ==
    \/ Boot \/ HttpStarts \/ BridgeStarts \/ MarkValid \/ AbortsAtStart \/ Upset
    \/ UploadBegins \/ UploadFails \/ UploadEnds \/ SetBoot \/ UploadAnswered
    \/ RestartRequested \/ DelayedRestart

\* The bootloader and app_main go on, a broken image does abort, the delayed
\* restart comes; an upload ends, one way or the other.
DeviceFairness ==
    /\ WF_deviceVars(Boot)
    /\ WF_deviceVars(HttpStarts)
    /\ WF_deviceVars(BridgeStarts)
    /\ WF_deviceVars(MarkValid)
    /\ WF_deviceVars(AbortsAtStart)
    /\ WF_deviceVars(DelayedRestart)
    /\ WF_deviceVars(UploadFails \/ UploadEnds \/ SetBoot \/ UploadAnswered)

DeviceSpec == DeviceInit /\ [][DeviceNext]_deviceVars /\ DeviceFairness

-----------------------------------------------------------------------------
(* Properties *)

\* Whatever is uploaded and whenever the device stops, one slot holds an image
\* that starts well and has passed its trial.
Recoverable == \E s \in Slot : image[s] = "good" /\ trial[s] = "valid"

\* Unless somebody keeps asking for restarts, the device ends up serving HTTP
\* and stays so, also with an appliance link that cannot be started.
StaysReachable == <>[](restart # "due") => <>[]Serving

\* An accepted update is tried: it is booted, or replaced by a later upload,
\* unless the task that restarts the device was not created.
AcceptedIsTried ==
    upload = "accepted" ~> trial[selected] # "new" \/ restart = "not created"
=============================================================================
