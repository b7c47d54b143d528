# OpenKNX DebugProbe in TLA+

The DebugProbe is an ESP32-S3 that hosts a target device on its USB port and
offers it to the network: a console on TCP 2323, an RFC 2217 serial port on TCP
4000, a web interface and an HTTP API that flashes and resets targets, and an
over-the-air update of the probe itself. This directory holds TLA+ modules of
the firmware's own logic (`src/firmware`), TLC configurations that check them on
small instances, and TLAPS proofs of the properties that should hold for every
instance.

File names below are relative to `src/firmware/components` unless they start
with `src/`.

## 1. Inventory

### Tasks

| task | core, source | what it does |
| --- | --- | --- |
| `usb_daemon` | `usb_target/UsbTarget.cpp` daemonTask | pumps the USB host library |
| `usb_client` | clientTask, clientEventCb | attach and detach of the target, completion callbacks of control and bulk transfers |
| `usb_serial` | serialTask | opens the CDC interface or the mass-storage interface of a new target (blocking) |
| CDC and MSC driver tasks | serialDataCb, serialEventCb, mscEventCb | received bytes, "disconnected" events |
| `httpd` | `web_api/WebServer.cpp`, all handlers | one task, so HTTP handlers never overlap each other |
| `serial_bridge` | `serial_bridge/SerialBridge.cpp` | console server, one client at a time |
| `rfc2217` | `serial_bridge/Rfc2217Server.cpp` | serial-port server, one client at a time |
| WiFi event loop | `net_wifi/WiFiManager.cpp` eventHandler | join, reconnect |
| `usb_gate`, `led_sup`, `battery`, `main` | `src/main.cpp`, `battery/` | late USB start, LED, cell measurement, boot and image confirmation |

### Components, their state and what makes them correct

* **UsbTarget** keeps the target's state (`m_state`, `m_device`, `m_info` under a
  mutex), the open serial handle and mass-storage handle (atomics), the pending
  mass-storage address, the line coding, the interface it has claimed, and one
  `CtrlWait` context per control transfer. It is written by five tasks. Correct
  means: a context is freed once, by the last party that touches it; a device
  handle can always be closed, so the next target can enumerate; a target that
  is attached gets its console; the console survives the 1200-baud touch.
* **SerialBridge, RingBuffer, Rfc2217Server** carry target bytes to clients. Bytes
  go to the console ring or, while an RFC 2217 client is connected, to that
  client's ring. Correct means: what a reader gets is a gap-free window of the
  stream or an announced gap, what one session configures does not leak into the
  next, and the Telnet parser is a faithful decoder.
* **WiFiManager** keeps `m_state`, the attempt counter and an event group, written by
  `main` and by the event task, and the count of clients that want the radio awake.
  Correct means: every boot ends where somebody can reach the probe, a portal is
  left alone by the station, a lost network is joined again, and the radio is awake
  exactly while a client is served.
* **OtaUpdater and boot flow** write the other application slot, reject a foreign
  image, and confirm the running one after a probation period. The state is in
  flash: two slots and the OTA data. Correct means: whenever the power fails there
  is a whole image that ran before, and a new one gets one run to prove itself.
* **Uf2Flasher, B003Link** (`handleFlash`, `handleCh32Flash`) write firmware to a
  target. Their state lives in the request and in the target. Correct means: nothing
  is touched for a file that is wrong, and the answer says what was really written.
* **AssetStore** installs the web interface in LittleFS. Correct means: a wrong file
  does no harm, and an answered upload is completely in the partition.
* **StatusLed and its supervisor** derive one mode from the state of five
  components; a flashing handler overrides it. Correct means: the override ends with
  the flash, and an empty cell is shown.
* **BatteryMonitor** classifies the cell with a hysteresis and keeps a trim in NVS.
* **The handlers of `src/main.cpp`** that reset a target (`handleTargetReset`) ask what
  is attached, announce what they will do and then do it to what is attached by
  then. Correct means: what is done suits the target and the request, and is what
  was announced.
* **`app_main` and `usbGateTask`** decide three times, at three moments, from one
  variable of the WiFi: which pages are served, whether the interface is among them,
  and when the USB host takes the port. Correct means: the pages fit the mode until
  the next boot, and the host comes when the network does, neither before nor never.
* **Settings, CaptiveDns, WebServer** are small helpers; the web pages and the host
  tools are clients.

### What is hard

Transfers that complete after their waiter gave up; a target that disappears and
returns (its normal way of rebooting) between any two steps of another task;
notifications that coalesce; a bridge that diverts a byte stream between two
readers while both come and go; per-session state that outlives the session; an
update interrupted by power loss; a supervisor that reads a mode and writes it
later. `PROJECT.json` lists each of these hazards at its line.


## 2. Modules and plan

Each module models one component or one protocol between tasks; composition is by
`EXTENDS` and by actions that conjoin those of the parts.

| module | models | composed of, refines |
| --- | --- | --- |
| `CtrlWait` | ownership of a USB transfer context | |
| `Claim` | the interface a transfer claims, a target that leaves | extends `CtrlWait` and implements it |
| `UsbTarget` | attach, detach, serial and mass-storage sessions | |
| `TargetReset` | the requests that restart a target or send it to its boot loader | extends `UsbTarget` |
| `ConsoleLine` | line coding: console, 1200-baud touch, RFC 2217 client | takes sessions of `UsbTarget` as single steps |
| `AutoReset` | DTR and RTS as reset lines, web server against flash tool | |
| `RingBuffer`, `Stream` | the target's bytes to three kinds of reader | `Stream` extends `RingBuffer`, implements two instances of `Transcript` |
| `Transcript` | abstract: one growing transcript, readers that lose nothing silently | |
| `Telnet` | Telnet parser, RFC 2217 requests, escaping both ways | |
| `PowerSave` | the radio's power saving | |
| `WiFi` | join, portal, reconnect, credentials | |
| `Gate` | `app_main` behind `wifi.start()`, routes, the gate of the USB host | extends `WiFi` and implements it |
| `OtaUpdater` | update, boot loader, probation | implements `Trial` |
| `Trial` | abstract: known firmware, one on trial | |
| `AssetStore` | upload and delivery of the web interface | |
| `Uploads` | both uploads, boot and power failure | `OtaUpdater`, `AssetStore` |
| `Uf2Flasher` | flashing an RP2040 | |
| `B003Link` | flashing, identifying and starting a CH32V003 | |
| `StatusLed`, `BatteryMonitor` | lamp, supervisor, gauge | |
| `Flash` | flashing and what the lamp says | the four above |

`MC<module>.tla` names the small sets an instance uses and `MC<module>.cfg` is its
configuration; a module that another one extends and implements is checked with
that one. `<module>Proofs.tla` holds the proofs about a module and about those it
extends: `ClaimProofs` those of `CtrlWait`, `StreamProofs` those of `RingBuffer`,
`TargetResetProofs` those of `UsbTarget`, `UploadsProofs`
and `FlashProofs` those of their parts. `LineProofs` takes `ConsoleLine` and `AutoReset`,
which share nothing, together, and `WiFiProofs` takes `Gate`, with `WiFi`, and `PowerSave`. An operator that stands directly
before a definition, has its parameters and a comment such as "a validation that
believes the count the file announces" is a plausible wrong version of that
definition; substituted for it, it violates a property. These operators document
what each property can tell apart and take part in no specification.

The order was: ownership and sessions of the USB target first, since five tasks
meet there; then the streams; then what survives a power failure; then the
one-task handlers, which are long but sequential; then the compositions `Claim`,
`TargetReset` and `Gate`, in which a decision taken by one task meets what another
has done since. Every part of the firmware with state of its own now has its
module, and every safety property of the passing runs is a theorem.
What is left to prove:

1. `DeferredIsApplied`, `ConsoleCatchesUp` and `LowBatteryShows` have safety parts, the
   steps that must not be lost, which can be stated as invariants; those of
   `NeverStranded`, `HostComes` and `DeadSessionsEnd` are proved.
2. The type invariants of `StatusLed` and `BatteryMonitor`. Those of `ConsoleLine` and
   `B003Link` are proved as parts of the invariants of section 5.
3. `Telnet` with the target's reaction: `ConsoleLine` and `AutoReset` take the requests
   as they come, `Telnet` says which requests those are; their composition would say
   what a stream of bytes does to the target.

## 3. State and actions against the code

`PROJECT.json` maps every definition to its lines. What follows is the idea of each
module.

**CtrlWait.** A context per call (`heap`, `frees`), its flags `done`, `abandoned`
and its binary semaphore. `WaiterStep` is the httpd task in `hidFeature` (one
submission) or `picobootReboot` (the same context twice), one action per critical
section and per semaphore operation; the callback's critical section and its
`xSemaphoreGive` are two steps, as in the code. A freed context is never reused,
so that a use after free stays visible; what such a use reads is any value.

**Claim.** The same calls with what surrounds them: the claim of the interface, the
note in `m_claimedIntf`, and its exchange, which decides whether the call or
`onDeviceGone` releases. The library is two sets, handles that are open and handles
with a claim; it refuses to close a claimed handle and to release an interface
with a bulk transfer in flight. Targets leave at any step, and a new one may be
enumerated before the call has noticed. `missed` records the targets for which
one of two races was lost: the claim was not in the note when `onDeviceGone` looked,
or a release was refused. The call reads the address, the device and the interface
number in three steps, between which the target may leave.

**UsbTarget.** Three queues carry the events of the USB library, the mass-storage
driver and the CDC driver to their callbacks; the serial task waits on one
coalescing notification (`bell`) and blocks in opens. `port` is what is plugged in.
The world may move at any step. A move while callbacks are outstanding is counted in
`hasty` and bounded by `MaxHasty`; at rest and during an open, which is where a jump to
BOOTSEL happens, it is not. `missed` records the devices whose disconnect was handled
between the return of their open and the store of the session, where there is nothing
to close yet. `closeMsc` reads and clears `m_msc` in one step: only the serial task sets
it, and only while it is null, so nothing can come between the two.

**TargetReset.** A request walks through `handleTargetReset`, `resetSupport` and
`resetTarget` with one step per read of the target (`look` says which is next), and
records each deed with the kind of target it met. Between the reads the actions of `UsbTarget` go on, except that with
`SwapMidway = FALSE` a target does not leave, come back and enumerate from one read to the
next: the reads are microseconds apart, an enumeration takes some hundred
milliseconds, and only the wait for mass storage is long enough for it. Leaving alone may
happen at every step. What a deed consists of is in other modules.

**ConsoleLine.** What the target was last told (`line`), the two variables named
`m_baudRate`, and the three tasks that write them: opening a session, `touch` with
its retry and `restoreConsole`, and an RFC 2217 session with its reset at the end. Each
of them reads a rate, blocks in a transfer, and stores the rate afterwards if the
transfer got through: three steps, between which the others go on. Two histories keep
what goes wrong there apart: `apart` (no touch, replug or opening fell into an RFC 2217
session) and `raced` (`openSerial` read the 1200 that `touch` stores for a moment).

**AutoReset.** The two lines as the target sees them, the chip behind them
according to the comments of `bridgeReset` and `jtagReset`, a reset sequence step
by step, and a client that sends one line at a time while the server holds back
the state with both lines asserted until its deadline. Every transfer may fail, those
included whose result the code ignores: the one that ends `resetTarget`, the server's
own, and the one that puts the lines back when a client has gone; `lost` says that the
last one did.

**RingBuffer, Stream, Transcript.** `RingBuffer` has the code's index arithmetic.
`Stream` puts two of them between the receive callback, which decides per transfer
which ring gets it and counts what it diverts, the console task with its status
lines, the RFC 2217 task, and the browser's cursor, which outlives the probe.
`written` is a history variable, and so is `reported`, the sum of what the log says
was hidden; `Transcript` is the promise to a reader. `read()` says how many bytes the ring
overran; the browser is told, the console task writes it to the probe's own log, and
the RFC 2217 server does not look at it, so only the browser is among those that are `Told`.

**Telnet.** Bytes are numbers. The parser is the code's state machine and runs over
chunks that end anywhere; a script of items is what a client means, and the
history `heard` what the server did because of it. `Understood` is the other side, an
automaton that reads the server's bytes as a Telnet client does; it is a recursive
function and not a recursive operator, so that it can be proved about.

**PowerSave.** The counter is changed outside the mutex and read inside it; every
one of these is a step. `FailingCalls` names the tasks whose `esp_wifi_set_ps` may
fail.

**WiFi.** `main` walks through `start`, `connectSta` and `startPortal`; the event
task has a higher priority on the same core, so a step of `main` needs an empty
queue. `cfg` is the copy of the credentials in the driver. The network name and
the password are written in two steps, between which the power may fail or the
portal's timer restart the probe.

**Gate.** `app_main` goes on where `WiFi` has it serve: each look at `m_state` and what
follows from it is a step, and the event task may change `m_state` before the next.
`usbGateTask` looks, and starts the USB host in a later step. A restart, for whatever
reason, sets all of it back.

**OtaUpdater, Trial, AssetStore, Uploads.** A slot or partition is a file and how
much of it is there, so that a power failure at any step leaves a real remainder.
The boot loader with rollback is external. `Down` may happen at every step.

**Uf2Flasher, B003Link.** A file is its blocks with the fields that are checked; a
chip is its pages. `did` and the numbers in the chip's pages are histories against
which the answers are compared. A command of `B003Link` is acknowledged, fails, or goes
unanswered and is taken for done because the byte polled is that of the command before;
then it may or may not have run, and a word read is any word. `lost` records these
commands of a request with their page, and `Losses` bounds them. A request to
`B003Link` flashes, reads the identity word by word, or sends the routine that
starts the application, which is the one command that is not polled.

**StatusLed, BatteryMonitor, Flash.** The supervisor's look and its write are two
steps. Voltages, hysteresis and calibration are the code's integers.

## 4. Runs

| run | distinct states | question and bounds |
| --- | --- | --- |
| `ctrlwait` | 302 897 | Is a context freed once, an interface released once, and a handle closed whatever the target does? Two calls of both kinds and two targets: one call may be abandoned with its target while the next claims on the next target, and the client task, one event at a time, still has to clean up after the first. |
| `powersave` | 9 341 | Is the radio awake throughout a session and dozing at rest? Three servers, one more than the firmware has, every call may fail. |
| `usbtarget` | 1 171 671 | Is an attached target served, no dead session kept, and what a request does right for the target it meets? Three plugs, so that a storage device can come and go between two serial ones; one move of the world that is faster than the callbacks, which is enough for a disconnect between an open and its store; two addresses, so that an address is reused or not; one request, which the handler's single task finishes before the next; four mixes of kinds, so that each kind meets every other mode of itself and a stranger. |
| `console` | 8 511 721 | Is the console usable after touches, replugs and flash sessions? Two touches with two attempts each, two openings, a client that asks for the touch's own rate and for another framing, one failing transfer. |
| `reset` | 250 223 | Do reset sequences do what they say, and does a tool over the network reach the boot loader? Both boards, three calls, two failing transfers, so that one can fail in a sequence and one after it, two clients of three kinds. |
| `stream` | 228 052 | Does each reader get what was written, in order, but for what was overrun? Rings of three, transfers and reads of two, so that a transfer wraps and a reader is overrun; four mixes of up to six bytes, among them a flash session that no console client sees begin. |
| `telnet` | 362 143 | Is the parser a faithful decoder, over every cut, and is what the server sends readable? Every script of two of fifteen items, one of them longer than the buffer for a request, chunks of up to three bytes, two clients, so that the second meets what the first left. |
| `uploads` | 327 120 | Does the probe survive every upload and power failure? A sound, an early crashing, a late crashing, a damaged and a foreign image; a web interface whose header needs two units, so that it comes in pieces or at once, and whose last piece is smaller than the buffer; unbounded reboots and uploads. |
| `flash` | 672 304 | Do the answers say what was written? Files of every defect, chips of four scratchpads, images with a partial last page, two requests of one kind or a mix with the lamp and the gauge, a target that leaves twice, two commands per request that go unanswered, which is what it takes to lose both keys and the question for the lock; requests for the identity and for a start among them. |
| `wifi` | 286 358 | Can the probe be reached after every boot, do its pages fit, and does the USB host come with the network? Two networks, three worlds that bound their changes, failures of a good network, timeouts, power cuts and requests. |
| `ch32_written` | violation | see section 6 |
| `wifi_reconnects` | violation | see section 6 |

All passing runs but `powersave` set `CHECK_DEADLOCK FALSE`: when the bounds are
used up, or nobody plugs, calls or uploads anything, the system rests. The type invariants
of all modules, `KnownIsAttached` of `UsbTarget` and `CounterIsExact` of `PowerSave` hold of
the same configurations; they are not among the runs' properties, which are the
ones that need more than one actor to break.

**Fairness.** A task that can go on does (FreeRTOS schedules every ready task, none
of these spins at a higher priority): `WF` of the waiting call and of the client
task in `Claim`, of the callbacks and the serial task in `UsbTarget`, to which
`TargetReset` adds the handler, of the polling server in `AutoReset`,
of the console task and the callback in `Stream`, of main, event task, portal timer
and a begun request in `WiFi`, to which `Gate` adds `app_main` and the gate, of httpd, supervisor and render task in `Flash`. The
USB library owes no answer: a transfer may never complete. `Uploads` has `SF` of
`ReachNetwork`: if the power fails again and again, it sometimes stays long
enough to come to the network; `Reachable` is false for a power that never does.
In `WiFi` a radio that joins answers in the end (`Air`), and a network that works
refuses only as often as `Bounds` allows. No client is obliged to come.

## 5. Proofs

No proof uses fairness: each rests on the initial states and the next-state relation,
and so holds of `Spec` and `FairSpec` alike, for every value of the constants that
satisfies the named assumptions of the modules, such as `None` not being a context.

* **ClaimProofs**, of `CtrlWait`: `TypeCorrect`, `NoLeak` (`ContextHasAnOwner`),
  `HidFreesOnce`, `FirstWait`. The invariant says where a live context's end is to
  come from: `WaiterHoldsLive` (the waiter's context is live and not abandoned; while
  it waits the callback is still to come or has been there), `FirstRound` (in the
  first submission every sign of completion is true; in the second it need not be),
  `CallbackFrees`, `FreeCount`. The safety properties are not inductive by
  themselves, because they do not say whose turn it is.
* **ClaimProofs**, of `Claim`: `NobodyReleasesTwice` (`ReleaseIsOfAClaim`) and
  `CallsAreCtrlWait`, the calls with their claims implement `CtrlWait`, so that the
  theorems above hold while targets leave. The property speaks of both tasks, also where
  `onDeviceGone` takes out the note of an older target whose end it has missed; it says
  nothing of the note, but the invariant does: `OneReleases` relates what stands in `m_claimedIntf` to the place of
  the call and to its claim, and says that of the call and `onDeviceGone` at most one
  has taken the note out and not yet released. `OnlyRacesKeepHandles` and `CallsGiveBack`
  need more (`EInv`): every handle and every claim that was not missed has somebody on
  the way to end it (`HandleHasAnEnd`, `ClaimHasAnEnd`), what is about to be closed stays
  free (`ClosesWhatIsFree`), and, so that one target's end is not taken for another's,
  targets are numbered in the order in which the client task hears of them
  (`InOrder`).
* **TargetResetProofs**, of `UsbTarget`: `SessionsEnd` (`EndIsOnItsWay`) and `AttachedServed`
  (`AttachedIsServed`). `Shapes` lists what each of the three queues can hold and that
  port, `m_info` and sessions never name two targets; `OnTheWay` says for a target on
  the port which step towards its session is due. `SessionsEnd` holds of targets that move
  between any two instructions, however often: its property excepts the one instant at which
  the code is wrong (`missed`; `GoneMeansClosed` of section 6 does not except it). `AttachedServed` is
  about targets that came and went at rest (`smooth`), which its property says.
* **TargetResetProofs**, of the requests: `DeedsFit`, `NeverContrary`, `AnnouncedWasDone`, and
  `RequestsLeaveSessions`, the program with requests implements `UsbTarget`. `RInv` carries
  what was seen at the first look to the deed: as long as anything is left of the target
  that was looked at, its kind has the way that was announced (`AnnouncedFits`,
  `CopyFits`, `BranchFits`, `DeedFits`). The three properties are about targets in the
  callbacks' rhythm (`hasty = 0`), and the theorems assume `~SwapMidway`, whose reason is in
  section 3; without it they are false (section 6).
* **WiFiProofs**, of `PowerSave`: type correctness, `CounterIsExact`, `SessionKeepsAwake`,
  `IdleMeansDoze`, `FlagIsTrue`, for any finite set of servers. The core is
  `StaleCountIsQueued`: a count that was read inside the mutex and is no longer true
  was changed by a task that is queued behind the mutex and will read again.
* **LineProofs**, of `ConsoleLine`: `NextSession` (`NextSessionIsUsable`) and `QuietConsole`
  (`QuietConsoleIsUsable`), for every number of touches, openings, rates and failing
  transfers. The invariant follows the rate through its copies: every rate that a task has
  read and not yet stored is the console's unless `raced` (`CopiesAreConsole`), the tasks that
  write are not in each other's windows (`Windows`, `Separate`), while a client is served
  the server knows the rate (`ServerKnowsRate`), the target was told the same
  (`TargetToldRate`), and a rate or a DTR that is not the console's has somebody on the way who sets it
  (`RateOnTheWay`, `DtrOnTheWay`). The properties, not the theorems, leave out what the code
  gets wrong: `raced`, an RFC 2217 session that overlapped with something, and for what the
  target was told, a failed transfer, since nobody repeats one.
* **LineProofs**, of `AutoReset`: `ResetDoesIt` (`ResetDidIt`), `EsptoolArrives`
  (`ToolReachesBootloader`), `CrashFreesTarget` (`CrashedToolFreesTarget`), for every number
  of calls, clients and failing transfers, in a call or of the server. `BridgeHolds` and `JtagHolds` say what the
  chip is after each step of a sequence that nobody disturbs, `EsptoolGetsOn` after each
  line of esptool's, `FreeAgain` what a client's end leaves.
* **StreamProofs**, of `RingBuffer`: `WriteHolds` (after a write shorter than the ring it
  holds the newest bytes of everything written) and `ReadTells` (a read returns the
  bytes after cursor and gap). They rest on `SlotOf`, where a position of the stream
  lies in the ring, and on the division facts `DivMod` and `Multiples`.
* **StreamProofs**, of the bridge: `AlwaysHold`, both rings hold the newest of what was
  written; the invariant adds that what the callback carries and what the console task
  notes is shorter than the ring, since a longer write would not keep the content.
  `BridgeImplementsTranscripts` (`ReadersFollowLog`) is the refinement of both instances of
  `Transcript`, step by step; it needs of the readers only that none is ahead of its
  ring (`Places`), and of the browser's cursor from an older run nothing
  (`ReadAnywhere`). `NothingCountedTwice` (`ReportedWasHidden`): each byte that went to a tool
  is in one place only, the log, the line about to be noted, the counter, or the
  callback's hands (`EachByteOnce`); the reset of the counter when a tool is noticed is what
  keeps the counter out of this sum while nobody looks.
* **UploadsProofs**, of the update: `UpdateImplementsTrial` and, for the probe that also
  takes the web interface, `TrialsInProbe`. The refinement maps `known` to the image in
  the slot that is not on trial; the invariant `SlotsSafe` says that this slot is
  intact, and that an upload only ever writes to the other one. The step for the
  boot loader needs `BootKeepsSlot`: it never has to take its second choice.
* **UploadsProofs**, of the web interface: `UploadsKeepTheirWord` (`UploadAnswer`) and
  `WholePageIsSafe` (`WrongFileHarmless`), for files and partitions of every size.
  `UploadCounts` and `PartitionHolds` say that every byte taken is in the buffer or in the
  partition, behind what was written before; so an upload that can end with "ok" has
  put all of the file there, and one that still writes has no whole interface to lose.
* **FlashProofs**, of `Uf2Flasher`: `FlashAnswersRight` (`FlashContract`), for every set of
  files and every target. `InOrder` and `RomCounts` compare the sectors that were sent with
  those the boot ROM has counted, also when it had counted some of an earlier file.
* **FlashProofs**, of `B003Link`: `Ch32AnswersRight` (`Ch32Contract`), for images of every
  size and place, chips of every size and any number of lost transfers; `PageByPage` says which
  pages are new, which old, which in doubt, and in what state the one in work is. That a
  doubt, once there, stays and spreads to no other page is `DoubtsGrow` and `HereDoubted`.
  `RestartStarts` (`StartedRuns`) needs that what was negotiated is never more than the chip
  has (`Agreed`): the large routine is taken from 131 bytes on, and padded to 1152. Both theorems are without
  assumptions; their properties name what they except, a command that went unanswered
  (`ch32_written` in section 6) and a scratchpad of 131 to 1151 bytes (`StartedAlwaysRuns` there).
* **WiFiProofs**, of `WiFi`: `PortalStaysQuiet`. `Clean` (nothing of the radio is left
  when a portal begins), `Silent` (no radio, no station), `Stages` and `Portal` (the
  portal's radio has raised one START and no other event): without the event
  queue's content the property is not inductive, since a late IP event would set
  `m_state` in an open portal. `JoinNeverForgotten` is what `NeverStranded` needs besides
  fairness: while `connectSta` waits, an event is still to be handled or the radio is
  joining (`JoinUnderWay` says which event belongs to which state of the station), and a
  portal that was opened with a network stored has its timer (`WayBackKept`).
* **WiFiProofs**, of `Gate`: `RoutesAlwaysFit`, `HostNeedsNetwork` and, in the composition,
  `PortalQuietInProbe`. `GateStepIsWiFi` lets the invariant of `WiFi` be used as it
  is; on top of it `PortalPlace` (a portal is only where `main` left it, so nothing
  but a restart ends it), `OnlineSeen` (an online probe has its event bit set) and
  `Decided` (each of the three decisions rests on a look that has been taken, and on
  a bit that is never cleared again). `HostNeverForgotten`: behind the one look of `app_main`
  the USB host is started, or a gate that still looks has it.

* **TelnetProofs**, of what the server hears: `ServerHearsRight` (`HeardRight`), for every
  script of items and every size of chunk and buffer. `HeardRight` only compares what was
  heard with what was meant; its invariant `Parsed` says where in the script the
  parser is. The script is split into items done and items to come, and between two
  items the bytes that are left are exactly the encoding of those to come (`Between`);
  within one, `Inside` says for each state of the parser what of that item is left and,
  in a request, that `m_subneg` holds as much of its body as fits. What was acted upon
  and the payload not yet flushed are together the items done (`Taken`), which is why
  the flush before a request keeps the order. A client that breaks off leaves a prefix,
  and `Connect` makes `Between` true of the next one because it sets the parser back:
  without that (`ConnectKeepParse`) the invariant is lost there.
* **TelnetProofs**, of what the client reads: `ClientsUnderstand` (`ClientUnderstands`), and
  `TypesHold`, the type invariant with the bounds of the three buffers. At rest the
  client has read what was said and waits for data (`ClientInv`), and `AllUnderstood`
  says that it reads any sequence of items that way; the answers stay within a byte
  (`HandledType`), on which the frame's escaping rests.

The type invariants are theorems too: `TypeCorrect`, `ClaimTypes`, `SessionTypes`, `LinesTyped`,
`FlashTypes`, `UploadTypes`, `StreamTypes`, `PowerTypes`, `WiFiTypes`, `ProbeTypes` and `TypesHold`. Most are a
part of the invariants above. `StreamTypes` needs that `m_suppressed` counts bytes the
callback has counted in `m_fromTarget` before (`CountsAndCarries`), `WiFiTypes` that a count is only
raised below `MAX_CONNECT_ATTEMPTS`.

`TelnetProofs` needs induction over sequences. The induction theorems of the library
take an operator as a parameter, which no back end can instantiate; `Induction` and
`SeqInduction` state the same of a set instead (a set that holds 0, and n + 1 with every
n, holds every number), from the library's fact that `<` is well founded on `Nat`.
`FlattenSeq` and `Understood` are recursive functions: that a function with their
equations exists, and only one, is proved by that induction (`JoinExists`,
`JoinedOnce`, `FollowsExists`, `FollowsOnce`).

Only model-checked: all liveness (`EveryCallReturns`,
`DeadSessionsEnd`, `DeferredIsApplied`, `ConsoleCatchesUp`, `Reachable`,
`LowBatteryShows`, `NeverStranded`, `HostComes`), since the proof system has no rules for fairness
and `ENABLED` that its back ends could use.
The two `violation` runs show what is not true.

## 6. What the models show of the code

Two findings are runs of their own.

* **`wifi_reconnects`.** `WiFiManager.cpp:370-371` promises to keep trying for ever
  once the probe was online. The first loss sets `m_state` to `Connecting`, so the
  next failures are counted against `MAX_CONNECT_ATTEMPTS`, and the last one sets
  `BIT_FAILED`, for which nobody waits any more. A network that is away for
  longer than four attempts leaves the probe neither joining nor in its portal.
* **`ch32_written`.** A transfer that is not acknowledged is no error for
  `hidFeature` and leaves the response buffer as it was; the byte that `commit` polls
  is then the 0xFF of the command before. One lost transfer, and
  `/api/ch32/flash` answers 200 for an image of which a page is missing.

The following properties are stated in the modules, each with the sentence of the
code or its documentation that it takes by its word, and TLC violates each. They
are not among the runs; add the name to the invariants or properties of the
configuration given to see the trace.

| property | configuration | what happens |
| --- | --- | --- |
| `TrueMeansThrough` | `MCClaim.cfg` | `ctrlWaitArm` does not clear the semaphore: a first submission that was just missed leaves a token that ends the second wait at once, with the transfer in flight. |
| `LastOneCleansUp` | `MCClaim.cfg` | The callback gives the semaphore after the critical section; a waiter that times out in between has deleted it. |
| `HandleCloses` | `MCClaim.cfg` | `onDeviceGone` looks between the claim and the note, or the release is refused: the handle stays open, and nothing enumerates at its address. |
| `SubmitOnOpenHandle` | `MCClaim.cfg` | The target leaves and is closed while the call prepares its transfer; the submission goes to a closed handle. |
| `MethodIsDeed` | `MCTargetReset.cfg` | The first look finds no way, because the console is only just being opened, and the second does: the answer is 200 and its `method` is the reason why it could not be done. |
| `TouchesFitToo` | `MCTargetReset.cfg` | The second touch goes to whatever session is open seconds after the first, also one of another maker's device. |
| `FailureIsNoted` | `MCTargetReset.cfg` | The way out of the boot loader of a CH32V003 fails without the second note. |
| `NoContraryDeed`, `DeedFitsTarget` | `MCTargetReset.cfg` with `SwapMidway = TRUE` | Were a target exchanged between two reads of one request, `resetTarget` would do to it what suits the first. |
| `StreamGoesOn` | `MCUsbTarget_ComesBack.cfg` | Two notifications are taken as one and the stale mass-storage address wins: the serial target that is attached is never opened. |
| `GoneMeansClosed` | `MCTargetReset.cfg` | A disconnect between the return of `open()` and the store to `m_serial` finds nothing to close. |
| `TouchRateEnds` | `MCConsoleLine.cfg` | `openSerial` reads `m_baudRate` while `touch` has it at 1200, and stores it after `touch` has put the old rate back: the next session is opened at 1200, though no transfer failed. |
| `FailedTouchRestores` | `MCConsoleLine_TouchFails.cfg` | The second half of a touch fails and the call returns before `restoreConsole`: the target stays at 1200 baud. |
| `NoForeignBaud`, `NoForeignFraming` | `MCConsoleLine.cfg` | The reset after a flash session is skipped while the target re-enumerates, and does not send the framing unless the rate differs. |
| `ResetAlwaysDidIt` | `MCAutoReset.cfg` | A client of port 4000 sets DTR in the pause of `jtagReset`; the call reports a reset, the chip is in its download mode. |
| `CrashedToolAlwaysFreesTarget` | `MCAutoReset.cfg` | The transfer that puts the lines back after a client fails, its result is ignored, and the chip stays in reset. |
| `CrashedToolLeavesBootloader` | `MCAutoReset.cfg` | The lines are put back, but a chip that is already in its boot loader stays there. |
| `ClientKeepsAwake` | `MCPowerSave.cfg` | A console client that comes before the activity hook is installed is not counted. |
| `BacklogShared` | `MCStream.cfg` | The two ports do not share a backlog: what a flash tool gets never enters the log. |
| `EveryReaderIsTold` | `MCStream.cfg` | The ring overruns a console client or a flash tool: `read` reports how much is missing, and neither server passes it on. |
| `BrowserIsTold` | `MCStream.cfg` | After a restart of the probe the browser's old cursor is taken for a place in the new log. |
| `ConfirmedAfterUsb` | `MCUploads_ConfirmedAfterUsb.cfg` | Without the network the image is confirmed before the USB host has been started once. |
| `NothingWritten` | `MCUploads.cfg` | A refused update has erased the other slot. |
| `AbortedShowsEmergency` | `MCUploads.cfg` | What an aborted upload has written may mount and is served in pieces. |
| `StartedAlwaysRuns` | `MCFlash.cfg` | A scratchpad of 131 to 1151 bytes holds the large start routine, but not the report it is padded to; the magic lies behind its end, nothing starts, and the answer is 200. |
| `IdentityIsTheChips` | `MCFlash.cfg` | A lost transfer, and the word of the one before is reported as the chip's identity. |
| `HostComesWithNetwork` | `MCGate.cfg` | The probe gives up joining before anybody has looked; the network comes back, the USB host never does. |
| `FlashingWins` | `MCFlash.cfg` | The supervisor looks, a flash begins, the supervisor overwrites its mode. |
| `RememberedPinWorks` | `MCFlash.cfg` | `setPin` is answered when the flag goes down, which is before the new strip is tried; a pin that does not work is stored. |
| `ZeroIsCritical` | `MCFlash.cfg` | At 3300 mV the percentage is 0 and the level low. |

Seen while reading, and not stated as a property: the first join makes four
attempts, not three, because `connectSta` overwrites the handler's count; an UF2
file goes to any mass storage that is ready, so a memory stick answers 200 as a
boot ROM would; `isFlashAddress` accepts addresses beyond the 16 KB
of the chip; flashing a CH32V003 does not switch the lamp; `calibrateTo` uses a trim
that it then fails to store; and a client that sends nothing keeps the only HTTP
task for ever.

## 7. Not modelled

* Memory errors after a use after free: the models show that it can happen, not
  what the heap then does. The C++ data races on plain members (`m_state` of
  `WiFiManager`, `m_mscPendingAddress`) are word-sized and modelled as atomic.
* A write that is under way while its session is closed: `write`, `setLineCoding` and
  `setControlLines` use `m_serial` after `closeSerial` may have deleted the object
  (`UsbTarget.cpp:1527`), which is a use after free.
* The descriptors a target is recognised by: `identify` is abstracted to the kind it
  finds, and so are the endpoints of an interface.
* ESP-IDF, LittleFS, the boot loaders, targets, access points and clients: external,
  modelled from how the code uses them.
* Scanning for networks, mDNS, the captive DNS (it keeps nothing between two queries),
  the status pages, wording and logs. `WebServer` is a registration table in front of
  the server of ESP-IDF, and `Settings` a layer over NVS: what they do is a step of the
  module that uses them.
* Exhausted memory, except where a handler answers it (`413`), and failing NVS
  writes other than that of the calibration.
* Host tools, the web pages, the test firmware and the hardware.

## 8. Running

In this directory, `tlc -config MCFlash.cfg MCFlash.tla` checks a run, and
`tlapm UploadsProofs.tla` a module of proofs; the largest run takes about two and a
half minutes with two workers.
