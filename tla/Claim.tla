------------------------------- MODULE Claim -------------------------------
(***************************************************************************)
(* The interface a transfer claims, against a target that leaves           *)
(* (usb_target/UsbTarget.cpp hidFeature, picobootReboot, claimInterface,   *)
(* releaseClaimed, onNewDevice, onDeviceGone).                             *)
(*                                                                         *)
(* The httpd task claims an interface of the target, runs the transfer of  *)
(* CtrlWait and releases the interface.  If the target leaves meanwhile,   *)
(* the usb_client task must release it first, because the library closes   *)
(* no handle with a claimed interface; m_claimedIntf, exchanged by         *)
(* whoever releases, says which of the two does it.                        *)
(*                                                                         *)
(* The transfer's callbacks and the events of a target run in the same     *)
(* usb_client task, one at a time.                                         *)
(***************************************************************************)
EXTENDS CtrlWait, Sequences

CONSTANTS MaxTargets   \* bound: how many targets come


VARIABLES
  here,     \* the target on the port, or None
  came,     \* how many have come
  events,   \* what the library has still to tell the client task
  device,   \* m_device, or None; m_hidIntf or m_picobootIntf is known with it
  noted,    \* m_claimedIntf is not PICOBOOT_NO_INTF
  opened,   \* the library: handles that m_client has open
  held,     \* the library: those of which an interface is claimed
  wire,     \* [Contexts -> the target and endpoint of the last submission]
  call,     \* hidFeature() or picobootReboot() (its kind), and its local device
  gone,     \* onDeviceGone(), and its handle
  missed    \* history: targets whose claim onDeviceGone could not see, or
            \* whose interface the library refused to release

target    == <<here, came>>
library   == <<opened, held>>
claimVars == <<target, events, device, noted, library, wire, call, gone, missed>>
allVars   == <<vars, claimVars>>

Targets   == [id : 1 .. MaxTargets, kind : Kinds]
ASSUME TargetsAssumption == MaxTargets \in Nat /\ None \notin Targets

Calls     == [at : {"idle", "device", "number", "claim", "note", "allocate", "transfer",
                    "exchange", "release"},
              dev : Targets \cup {None}, kind : Kinds \cup {None}]
Events    == [what : {"new", "gone"}, dev : Targets]
Leavings  == [at : {"idle", "exchange", "release", "close"}, dev : Targets \cup {None}]
Endpoints == [dev : Targets \cup {None}, bulk : BOOLEAN]

ClaimInit ==
  /\ Init
  /\ here = None /\ came = 0 /\ events = <<>>
  /\ device = None /\ noted = FALSE
  /\ opened = {} /\ held = {}
  /\ wire = [c \in Contexts |-> [dev |-> None, bulk |-> FALSE]]
  /\ call = [at |-> "idle", dev |-> None, kind |-> None]
  /\ gone = [at |-> "idle", dev |-> None]
  /\ missed = {}

(* A bulk transfer in flight keeps its interface; endpoint 0 belongs to none. *)
Busy(d) == \E c \in Contexts : inflight[c] /\ wire[c] = [dev |-> d, bulk |-> TRUE]

(* ------------------------------- the world ----------------------------- *)

Plug(k) ==
  /\ here = None /\ came < MaxTargets
  /\ here' = [id |-> came + 1, kind |-> k]
  /\ came' = came + 1
  /\ events' = Append(events, [what |-> "new", dev |-> here'])
  /\ UNCHANGED <<vars, device, noted, library, wire, call, gone, missed>>

(* Only a client that has the device open is told that it is gone. *)
Pull ==
  /\ here # None
  /\ here' = None
  /\ events' = IF here \in opened
               THEN Append(events, [what |-> "gone", dev |-> here]) ELSE events
  /\ UNCHANGED <<vars, came, device, noted, library, wire, call, gone, missed>>

(* ------------------------------- httpd task ---------------------------- *)

CallGoes(at) == call' = [call EXCEPT !.at = at]
rest         == <<target, events, device, gone>>

(* A call looks three times without a lock: whether the member of its kind *)
(* is set, at m_device, and for the interface's number.  onNewDevice sets  *)
(* the device first and onDeviceGone clears it first, so to these looks    *)
(* the member is there as long as the device is.                           *)
Load ==
  /\ call.at = "idle" /\ device # None
  /\ \E c \in Contexts : heap[c] = "fresh"
  /\ call' = [at |-> "device", dev |-> None, kind |-> device.kind]
  /\ UNCHANGED <<vars, rest, noted, library, wire, missed>>

(* Without a device the call ends. *)
LoadDevice ==
  /\ call.at = "device"
  /\ call' = IF device = None THEN [call EXCEPT !.at = "idle"]
             ELSE [call EXCEPT !.at = "number", !.dev = device]
  /\ UNCHANGED <<vars, rest, noted, library, wire, missed>>

(* PICOBOOT_NO_INTF, if the target has left since, is refused as a claim. *)
LoadNumber ==
  /\ call.at = "number"
  /\ CallGoes(IF device # None /\ device.kind = call.kind THEN "claim" ELSE "idle")
  /\ UNCHANGED <<vars, rest, noted, library, wire, missed>>

(* usb_host_interface_claim(): needs the handle open and the interface free. *)
ClaimInterface ==
  /\ call.at = "claim"
  /\ \/ call.dev \in opened \ held /\ held' = held \cup {call.dev} /\ CallGoes("note")
     \/ UNCHANGED held /\ CallGoes("idle")
  /\ UNCHANGED <<vars, rest, noted, opened, wire, missed>>

(* m_claimedIntf.store(intf). *)
Note ==
  /\ call.at = "note"
  /\ noted' = TRUE
  /\ CallGoes("allocate")
  /\ UNCHANGED <<vars, rest, library, wire, missed>>

Allocate(c) ==
  /\ call.at = "allocate"
  /\ Begin(c, call.kind)
  /\ CallGoes(IF pc' = "idle" THEN "exchange" ELSE "transfer")
  /\ UNCHANGED <<rest, noted, library, wire, missed>>

(* A timeout's way out that forgets the interface. *)
TransferLeaves ==
  /\ call.at = "transfer"
  /\ WaiterStep
  /\ CallGoes(CASE pc' # "idle" -> "transfer" [] pc = "timedout" -> "idle" [] OTHER -> "exchange")
  /\ wire' = IF pc = "ready"
             THEN [wire EXCEPT ![cur] = [dev |-> call.dev, bulk |-> step = 2]]
             ELSE wire
  /\ UNCHANGED <<rest, noted, library, missed>>

(* The transfer, until cleanup() or the timeout's way out.  cleanup() frees *)
(* the context after the release, which does not look at it.               *)
Transfer ==
  /\ call.at = "transfer"
  /\ WaiterStep
  /\ CallGoes(IF pc' = "idle" THEN "exchange" ELSE "transfer")
  /\ wire' = IF pc = "ready"
             THEN [wire EXCEPT ![cur] = [dev |-> call.dev, bulk |-> step = 2]]
             ELSE wire
  /\ UNCHANGED <<rest, noted, library, missed>>

Exchange ==
  /\ call.at = "exchange"
  /\ noted' = FALSE
  /\ CallGoes(IF noted THEN "release" ELSE "idle")
  /\ UNCHANGED <<vars, rest, library, wire, missed>>

(* usb_host_interface_release(): refused while a bulk transfer is in flight. *)
Releases(d) ==
  IF Busy(d)
  THEN UNCHANGED held /\ missed' = missed \cup {d}
  ELSE held' = held \ {d} /\ UNCHANGED missed

Release ==
  /\ call.at = "release"
  /\ Releases(call.dev)
  /\ CallGoes("idle")
  /\ UNCHANGED <<vars, rest, noted, opened, wire>>

(* --------------------------- usb_client task --------------------------- *)

ClientIdle == cbPc = "idle" /\ gone.at = "idle"

GoneGoes(at) == gone' = [gone EXCEPT !.at = at]

(* onNewDevice(): usb_host_device_open fails for what has left again. *)
OnNewDevice ==
  /\ ClientIdle /\ events # <<>> /\ Head(events).what = "new"
  /\ events' = Tail(events)
  /\ LET d == Head(events).dev IN
       IF here = d
       THEN opened' = opened \cup {d} /\ device' = d
       ELSE UNCHANGED <<opened, device>>
  /\ UNCHANGED <<vars, target, noted, held, wire, call, gone, missed>>

(* onDeviceGone() that goes straight to the closing. *)
ForgetAndClose ==
  /\ ClientIdle /\ events # <<>> /\ Head(events).what = "gone"
  /\ events' = Tail(events)
  /\ gone' = [at |-> "close", dev |-> Head(events).dev]
  /\ device' = IF device = Head(events).dev THEN None ELSE device
  /\ UNCHANGED <<vars, target, noted, library, wire, call, missed>>

(* onDeviceGone(): forgotten under the mutex, and the interfaces with it. *)
Forget ==
  /\ ClientIdle /\ events # <<>> /\ Head(events).what = "gone"
  /\ events' = Tail(events)
  /\ gone' = [at |-> "exchange", dev |-> Head(events).dev]
  /\ device' = IF device = Head(events).dev THEN None ELSE device
  /\ UNCHANGED <<vars, target, noted, library, wire, call, missed>>

(* Where a claim of d is not in m_claimedIntf: it is about to be made or   *)
(* noted, or it has been taken out and is about to be released.            *)
Unnoted(d) == call.dev = d /\ call.at \in {"number", "claim", "note", "release"}

(* onDeviceGone() that releases without asking the note. *)
GoneExchangeBlind ==
  /\ gone.at = "exchange"
  /\ noted' = FALSE
  /\ GoneGoes("release")
  /\ missed' = IF Unnoted(gone.dev) THEN missed \cup {gone.dev} ELSE missed
  /\ UNCHANGED <<vars, target, events, device, library, wire, call>>

GoneExchange ==
  /\ gone.at = "exchange"
  /\ noted' = FALSE
  /\ GoneGoes(IF noted THEN "release" ELSE "close")
  /\ missed' = IF Unnoted(gone.dev) THEN missed \cup {gone.dev} ELSE missed
  /\ UNCHANGED <<vars, target, events, device, library, wire, call>>

GoneRelease ==
  /\ gone.at = "release"
  /\ Releases(gone.dev)
  /\ GoneGoes("close")
  /\ UNCHANGED <<vars, target, events, device, noted, opened, wire, call>>

(* usb_host_device_close(): fails, and is logged, while an interface is claimed. *)
GoneClose ==
  /\ gone.at = "close"
  /\ opened' = IF gone.dev \in held THEN opened ELSE opened \ {gone.dev}
  /\ gone' = [at |-> "idle", dev |-> None]
  /\ UNCHANGED <<vars, target, events, device, noted, held, wire, call, missed>>

Callback ==
  /\ gone.at = "idle"
  /\ CbStep
  /\ UNCHANGED claimVars

(* -------------------------- the specification -------------------------- *)

World  == Pull \/ \E k \in Kinds : Plug(k)
Httpd  == \/ LoadDevice \/ LoadNumber \/ ClaimInterface \/ Note
          \/ (\E c \in Contexts : Allocate(c)) \/ Transfer \/ Exchange \/ Release
Client == \/ OnNewDevice \/ Forget \/ GoneExchange \/ GoneRelease \/ GoneClose

ClaimNext == World \/ Load \/ Httpd \/ Client \/ Callback

ClaimSpec == ClaimInit /\ [][ClaimNext]_allVars

(* Both tasks are scheduled; a request and a callback need not come. *)
FairClaimSpec ==
  ClaimSpec /\ WF_allVars(Httpd) /\ WF_allVars(Client)

(* ------------------------------ properties ----------------------------- *)

ClaimTypeOK ==
  /\ here \in Targets \cup {None} /\ came \in 0 .. MaxTargets
  /\ events \in Seq(Events)
  /\ device \in Targets \cup {None}
  /\ noted \in BOOLEAN
  /\ opened \in SUBSET Targets /\ held \in SUBSET Targets
  /\ wire \in [Contexts -> Endpoints]
  /\ call \in Calls /\ gone \in Leavings
  /\ missed \in SUBSET Targets

(* Targets that have left, with nobody left who will close their handle. *)
Stuck ==
  {d \in opened : /\ d # here /\ gone.dev # d
                  /\ \A i \in DOMAIN events : events[i].dev # d}

(* releaseClaimed(), in either task: whoever takes the note out releases   *)
(* what is claimed, of a handle that is open, and the two tasks are never  *)
(* at it together; so no interface is released twice.  What onDeviceGone   *)
(* takes out may be the note of an older target, whose end it has missed.  *)
ReleaseIsOfAClaim ==
  /\ call.at = "release" => call.dev \in held \cap opened
  /\ gone.at = "release" =>
       /\ gone.dev \in opened
       /\ gone.dev \in held \/ held \cap missed # {}
  /\ ~(call.at = "release" /\ gone.at = "release")

(* onDeviceGone(): a target that leaves while a transfer waits for it is   *)
(* closed, whichever of the two tasks gets to the note first.  A handle    *)
(* only stays open if the claim was not in the note when onDeviceGone      *)
(* looked, or if the library refused to release the interface.             *)
OnlyRacesStick == Stuck \subseteq missed

(* A call that has returned leaves no interface claimed, on any way out,   *)
(* but for the same two reasons.                                           *)
ClaimEndsWithCall ==
  (call.at = "idle" /\ gone.at # "release") => held \subseteq missed

(* The comment in onDeviceGone: the claim must be released before the      *)
(* handle is closed, or nothing enumerates at that address any more.       *)
HandleCloses == Stuck = {}

(* The comment in hidFeature: a handle that onDeviceGone has closed is not *)
(* to be used any more; here, not for a submission either.                 *)
SubmitOnOpenHandle ==
  (call.at = "transfer" /\ pc = "ready") => call.dev \in opened
=============================================================================
