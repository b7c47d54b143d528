----------------------------- MODULE OtaUpdater -----------------------------
(***************************************************************************)
(* The probe's update of itself: OtaUpdater (POST /api/update), the order  *)
(* in which app_main brings the probe up and confirms the image, and, as   *)
(* external parts, the ESP-IDF boot loader with                            *)
(* CONFIG_BOOTLOADER_APP_ROLLBACK_ENABLE and esp_ota_*.                    *)
(*                                                                         *)
(* A slot holds the first `have` of Chunks pieces of a file.  Nothing is   *)
(* bounded here: the state space is finite by itself.                      *)
(***************************************************************************)
EXTENDS Integers

CONSTANTS Firmware,  \* images of this project that are complete and sound
          Broken,    \* among them: those that crash before the network is up
          UsbBroken, \* among them: those that crash when the USB host starts
          Damaged,   \* files with the right header and a wrong checksum
          Foreign,   \* files whose header is refused
          Factory,   \* the image the probe was delivered with
          Chunks,    \* pieces in an image, and in a slot
          None

Slots == {0, 1}

ASSUME OtaAssumption == /\ Broken \subseteq Firmware
                        /\ UsbBroken \subseteq Firmware
                        /\ Factory \in Firmware
                        /\ Firmware \cap Damaged = {}
                        /\ (Firmware \cup Damaged) \cap Foreign = {}
                        /\ None \notin Firmware \cup Damaged \cup Foreign \cup Slots
                        /\ Chunks \in Nat \ {0}

VARIABLES slot,      \* content of ota_0 and ota_1
          selected,  \* the slot the OTA data name
          state,     \* the state the OTA data give each slot
          running,   \* the slot the probe runs from, None while it is down
          phase,     \* how far app_main has come
          net,       \* what WiFiManager::start() came to
          usb,       \* the USB host stack has been started
          job        \* the upload the httpd task works on

otaVars == <<slot, selected, state, running, phase, net, usb, job>>

Other(s) == 1 - s
Files == Firmware \cup Damaged \cup Foreign
ImageStates == {"undefined", "new", "pending", "valid", "aborted"}

Erased == [img |-> None, have |-> 0]
Intact(s) == slot[s].img \in Firmware /\ slot[s].have = Chunks

Idle == [at |-> "idle", file |-> None, total |-> 0, got |-> 0, to |-> 0]

TypeOK == /\ slot \in [Slots -> [img : Files \cup {None}, have : 0..Chunks]]
          /\ selected \in Slots
          /\ state \in [Slots -> ImageStates]
          /\ running \in Slots \cup {None}
          /\ phase \in {"off", "boot", "net", "probation", "done"}
          /\ net \in {"online", "lost", "portal"}
          /\ usb \in BOOLEAN
          /\ job \in [at : {"idle", "receive", "restart"}, file : Files \cup {None},
                      total : 0..Chunks, got : 0..Chunks, to : Slots]

\* As delivered: one image, written serially, the OTA data empty.
OtaInit == /\ slot = [s \in Slots |-> IF s = 0 THEN [img |-> Factory, have |-> Chunks] ELSE Erased]
           /\ selected = 0
           /\ state = [s \in Slots |-> "undefined"]
           /\ running = None
           /\ phase = "off"
           /\ net = "portal"
           /\ usb = FALSE
           /\ job = Idle

-----------------------------------------------------------------------------
(* The boot loader. *)

\* An image still on probation has had its one run and is given up.
GivenUp == state[selected] = "pending"

Preferred == IF GivenUp THEN Other(selected) ELSE selected

Boots == IF Intact(Preferred) THEN Preferred ELSE Other(Preferred)

StateAfterBoot ==
    [state EXCEPT ![selected] = IF GivenUp THEN "aborted"
                                ELSE IF @ = "new" THEN "pending" ELSE @]

OtaBoot == /\ phase = "off"
           /\ Intact(Boots)
           /\ running' = Boots
           /\ selected' = Preferred
           /\ state' = StateAfterBoot
           /\ phase' = "boot"
           /\ UNCHANGED <<slot, net, usb, job>>

\* Whatever ends a run: power, a crash, a restart from any task.
OtaOff == /\ phase # "off"
          /\ phase' = "off"
          /\ running' = None
          /\ usb' = FALSE
          /\ job' = Idle
          /\ UNCHANGED <<slot, selected, state, net>>

-----------------------------------------------------------------------------
(* app_main. *)

Image == slot[running].img

\* The server listens and WiFiManager::start() has come to an end; the link
\* may be lost again by the time app_main looks.
ReachNetwork == /\ phase = "boot"
                /\ Image \notin Broken
                /\ phase' = "net"
                /\ net' \in {"online", "lost", "portal"}
                /\ UNCHANGED <<slot, selected, state, running, usb, job>>

\* With the network up app_main starts the USB host itself, else usbGateTask
\* waits for the network and app_main goes on.
StartUsb == /\ phase = "net"
            /\ net = "online" => Image \notin UsbBroken
            /\ phase' = "probation"
            /\ usb' = (net = "online")
            /\ UNCHANGED <<slot, selected, state, running, net, job>>

GateOpens == /\ phase \in {"probation", "done"} /\ ~usb /\ net = "online"
             /\ Image \notin UsbBroken
             /\ usb' = TRUE
             /\ UNCHANGED <<slot, selected, state, running, phase, net, job>>

Reconnected == /\ phase # "off" /\ net = "lost"
               /\ net' = "online"
               /\ UNCHANGED <<slot, selected, state, running, phase, usb, job>>

Crashes == \/ phase = "boot" /\ Image \in Broken
           \/ phase = "net" /\ net = "online" /\ Image \in UsbBroken
           \/ phase \in {"probation", "done"} /\ ~usb /\ net = "online" /\ Image \in UsbBroken

\* A mutant: confirm as soon as the image runs, not after the probation.
ConfirmAtOnce ==
    /\ phase \in {"boot", "probation"}
    /\ phase' = IF phase = "probation" THEN "done" ELSE phase
    /\ state' = IF state[running] = "pending" THEN [state EXCEPT ![running] = "valid"] ELSE state
    /\ UNCHANGED <<slot, selected, running, net, usb, job>>

\* After PROBATION_SECONDS; the write of the OTA data may fail, which is only logged.
ConfirmRunningImage ==
    /\ phase = "probation"
    /\ phase' = "done"
    /\ state' \in {state, IF state[running] = "pending" THEN [state EXCEPT ![running] = "valid"]
                                                        ELSE state}
    /\ UNCHANGED <<slot, selected, running, net, usb, job>>

-----------------------------------------------------------------------------
(* POST /api/update.  A refusal before the slot is touched changes nothing: *)
(* an empty body, a body larger than the slot, and esp_ota_begin() while    *)
(* the running image is on probation.                                       *)

Listening == phase \in {"net", "probation", "done"}

\* esp_ota_begin() erases the slot, and may fail on the way.
Begin(f, n) == /\ Listening /\ job = Idle
               /\ state[running] # "pending"
               /\ LET to == Other(running) IN
                  /\ slot' = [slot EXCEPT ![to] = Erased]
                  /\ \/ job' = [at |-> "receive", file |-> f, total |-> n, got |-> 0, to |-> to]
                     \/ job' = Idle
               /\ UNCHANGED <<selected, state, running, phase, net, usb>>

GiveUp == /\ job' = Idle
          /\ UNCHANGED <<slot, selected, state, running, phase, net, usb>>

\* Only the bytes of the first receive are looked at: `short` is a first
\* receive that does not reach the end of the application descriptor.
HeaderGood(short) == ~short /\ job.file \notin Foreign

\* A piece arrives and is written.
Receive(short) == /\ job.at = "receive" /\ job.got < job.total
                  /\ job.got = 0 => HeaderGood(short)
                  /\ job' = [job EXCEPT !.got = @ + 1]
                  /\ slot' = [slot EXCEPT ![job.to] = [img |-> job.file, have |-> job.got + 1]]
                  /\ UNCHANGED <<selected, state, running, phase, net, usb>>

\* The header is refused, the client is gone, or the flash refuses the write.
Refuse == job.at = "receive" /\ job.got < job.total /\ GiveUp

\* A mutant: no esp_ota_end() before the boot partition is set.
VerifiedByHeader == slot[job.to].have > 0

\* esp_ota_end() checks the image before esp_ota_set_boot_partition() names it.
Verified == Intact(job.to)

Activate == /\ job.at = "receive" /\ job.got = job.total
            /\ Verified
            /\ selected' = job.to
            /\ state' = [state EXCEPT ![job.to] = "new"]
            /\ job' = [job EXCEPT !.at = "restart"]
            /\ UNCHANGED <<slot, running, phase, net, usb>>

\* esp_ota_end() or esp_ota_set_boot_partition() fails.
Reject == job.at = "receive" /\ job.got = job.total /\ GiveUp

OtaUpload == \/ \E f \in Files, n \in 1..Chunks : Begin(f, n)
             \/ \E short \in BOOLEAN : Receive(short)
             \/ Refuse \/ Activate \/ Reject

AppMain == ReachNetwork \/ StartUsb \/ GateOpens \/ Reconnected \/ ConfirmRunningImage

OtaNext == OtaBoot \/ OtaOff \/ AppMain \/ OtaUpload

OtaSpec == OtaInit /\ [][OtaNext]_otaVars

-----------------------------------------------------------------------------
(* The promise: OtaUpdater implements Trial. *)

Content(s) == IF Intact(s) THEN slot[s].img ELSE None

OnTrial == state[selected] \in {"new", "pending"}

UpdateIsATrial ==
    INSTANCE Trial WITH
        known  <- IF OnTrial THEN Content(Other(selected)) ELSE Content(selected),
        trying <- IF OnTrial THEN Content(selected) ELSE None,
        tried  <- state[selected] = "pending",
        up     <- IF running = None THEN None ELSE Content(running)

\* Only complete, verified firmware ever runs; a new one runs once before it
\* is confirmed or given up for the last confirmed one, which is still there
\* whole at every moment at which power can fail.
Trials == UpdateIsATrial!TrialSpec

\* Why Trials holds: the slot the probe would start from is whole, a trial
\* always has the confirmed image behind it, and an upload only writes to the
\* slot that is neither running nor on trial.
SlotsSafe ==
    /\ Intact(selected)
    /\ OnTrial => /\ Intact(Other(selected)) /\ state[Other(selected)] # "aborted"
                  /\ job.at # "receive"
    /\ state[selected] # "aborted"
    /\ state[Other(selected)] \notin {"new", "pending"}
    /\ (running = None) = (phase = "off")
    /\ phase = "off" => job.at = "idle"
    /\ running = selected => state[selected] # "new" /\ job.at # "restart"
    /\ running = Other(selected) => job.at = "restart" /\ state[selected] = "new"
    /\ job.at = "receive" => job.to = Other(selected)
=============================================================================
