---------------------------- MODULE TargetReset ----------------------------
(***************************************************************************)
(* POST /api/reset and POST /api/bootmode (src/main.cpp handleTargetReset; *)
(* usb_target/UsbTarget.cpp resetSupport, resetTarget, enterBootsel).      *)
(*                                                                         *)
(* The handler finds out how the target can be reset, notes it in the log, *)
(* and has resetTarget() find out again; then one of six deeds is done to  *)
(* whatever is attached by then.  A deed makes most targets leave the bus, *)
(* so the tasks of UsbTarget move between any two of these steps.          *)
(* What the deeds consist of is in ConsoleLine (touch), AutoReset (lines), *)
(* Claim (PICOBOOT and feature report) and B003Link (routine).             *)
(***************************************************************************)
EXTENDS UsbTarget

CONSTANTS
  Mixes,       \* sets of kinds that are plugged in alternately
  MaxRequests, \* bound: how many requests come
  SwapMidway   \* a target may enumerate from one read of a request to the next

ASSUME ResetAssumption ==
  /\ \A m \in Mixes : m \subseteq Kinds
  /\ MaxRequests \in Nat /\ SwapMidway \in BOOLEAN

VARIABLES
  mix,       \* what is plugged in here; chosen once
  req,       \* the request, or the last one
  asked      \* how many have come

resetVars == <<vars, mix, req, asked>>
usb       == <<vars, mix>>

TOUCH_ATTEMPTS == 2

Modes == {"Run", "Bootloader"}
Deeds == {"touch", "bridgeLines", "jtagLines", "report", "picoboot", "routine"}

(* What one does to a target of a kind, if it can be done at all: "there"  *)
(* is nothing to do.                                                       *)
Way(kind, m) ==
  IF m = "Run"
  THEN CASE kind = "SerialBridge"  -> "bridgeLines" [] kind = "EspCdc"  -> "jtagLines"
         [] kind = "HidBootloader" -> "routine"      [] kind = "Bootsel" -> "picoboot"
         [] OTHER -> "none"
  ELSE CASE kind = "SerialBridge"  -> "bridgeLines" [] kind = "EspCdc"  -> "jtagLines"
         [] kind = "HidBootloader" -> "there"        [] kind = "Hid"     -> "report"
         [] kind = "Cdc" -> "touch" [] kind \in StorageKinds -> "there"
         [] OTHER -> "none"

(* m_picobootIntf and m_hidIntf are found with the device that has them.   *)
HasPicoboot == info # None /\ info.kind = "Bootsel"
HasHid      == info # None /\ info.kind \in {"Hid", "HidBootloader"}

KindOf(dev) == IF dev = None THEN "Unsupported" ELSE dev.kind

(* ------------------------------ the request ---------------------------- *)

NoRequest == [at |-> "idle", mode |-> "Run", how |-> "none", attempt |-> 1,
              deeds |-> {}, answer |-> "none", noted |-> "none",
              look |-> "done", seen |-> None]

ResetInit == Init /\ mix \in Mixes /\ req = NoRequest /\ asked = 0

(* A step that takes its copy of m_info out of scope. *)
Goes(at) == req' = [req EXCEPT !.at = at, !.seen = None]

(* The deed reaches a target that is still on the port, or nobody. *)
Deed(what, dev) ==
  [what |-> what, on |-> IF dev # None /\ dev = port THEN dev.kind ELSE "nobody",
   again |-> req.attempt > 1]
Does(what, dev) == req.deeds \cup {Deed(what, dev)}

(* An announcement is followed by a second note if resetTarget() failed.   *)
Ends(a, deeds) ==
  req' = [req EXCEPT !.at = "idle", !.look = "done", !.seen = None,
                     !.answer = a, !.deeds = deeds,
                     !.noted = IF a = "409" /\ @ = "announced" THEN "failed" ELSE @]
Answers(a) == Ends(a, req.deeds)

(* It is done, or fails half way. *)
DoneOrNot(what, dev) == \E a \in {"200", "409"} : Ends(a, Does(what, dev))

Request(m) ==
  /\ req.at = "idle" /\ asked < MaxRequests
  /\ req' = [NoRequest EXCEPT !.at = "consult", !.look = "state", !.mode = m]
  /\ asked' = asked + 1
  /\ UNCHANGED usb

(* resetSupport(), the handler's with its note or resetTarget()'s: reads    *)
(* m_state, copies m_info, and reads m_msc and what else it needs one after *)
(* the other.  An answer that there is no way is no announcement.          *)
Looks(then) == req' = [req EXCEPT !.look = then]

Finds(how) ==
  IF req.at = "consult"
  THEN req' = [req EXCEPT !.at = "special", !.look = "done", !.seen = None, !.how = how,
                          !.noted = IF how # "none" THEN "announced" ELSE "none"]
  ELSE IF how = "none" THEN Answers("409")
  ELSE req' = [req EXCEPT !.at = "branch", !.look = "done", !.seen = None]

LookState ==
  /\ req.look = "state"
  /\ IF info = None THEN Finds("none") ELSE Looks("copy")

LookCopy ==
  /\ req.look = "copy"
  /\ req' = [req EXCEPT !.look = "storage", !.seen = info]

(* A look that takes every CDC device for one of Espressif's. *)
LookStorageAnyCdc ==
  /\ req.look = "storage"
  /\ IF msc # None \/ KindOf(req.seen) \in StorageKinds
     THEN IF req.mode = "Bootloader" THEN Finds("there") ELSE Looks("picoboot")
     ELSE IF KindOf(req.seen) = "OtherCdc" THEN Finds("jtagLines")
     ELSE IF KindOf(req.seen) \in SerialKinds THEN Looks("session")
     ELSE Finds(Way(KindOf(req.seen), req.mode))

LookStorage ==
  /\ req.look = "storage"
  /\ IF msc # None \/ KindOf(req.seen) \in StorageKinds
     THEN IF req.mode = "Bootloader" THEN Finds("there") ELSE Looks("picoboot")
     ELSE IF KindOf(req.seen) \in SerialKinds THEN Looks("session")
     ELSE Finds(Way(KindOf(req.seen), req.mode))

LookPicoboot ==
  /\ req.look = "picoboot"
  /\ Finds(IF HasPicoboot THEN "picoboot" ELSE "none")

(* An open session only counts where the way needs one. *)
LookSession ==
  /\ req.look = "session"
  /\ Finds(IF serial = None THEN "none" ELSE Way(KindOf(req.seen), req.mode))

ResetSupport == LookState \/ LookCopy \/ LookStorage \/ LookPicoboot \/ LookSession

(* A handler that leaves every target to resetTarget(). *)
SpecialNever ==
  /\ req.at = "special"
  /\ req' = [req EXCEPT !.at = "again", !.look = "state"]

(* A handler that leaves out the asking again. *)
SpecialTrusting ==
  /\ req.at = "special"
  /\ Goes(IF req.mode = "Run" /\ info # None /\ info.kind = "HidBootloader"
          THEN "routine" ELSE "branch")

(* The way out of the boot loader of a CH32V003 is not for resetTarget(),   *)
(* which else begins by asking again.                                      *)
Special ==
  /\ req.at = "special"
  /\ IF req.mode = "Run" /\ info # None /\ info.kind = "HidBootloader"
     THEN Goes("routine") ELSE req' = [req EXCEPT !.at = "again", !.look = "state"]

(* B003Link: begin() and bootUserCode(); no note on failure here. *)
Routine ==
  /\ req.at = "routine"
  /\ \/ HasHid /\ info.kind = "HidBootloader"
        /\ Ends("200", Does("routine", info))
     \/ Answers("502")

(* resetTarget(): a copy of m_info, a look at m_msc, and what is done to   *)
(* such a target.  The modes are not looked at again where resetSupport()  *)
(* leaves only one.                                                        *)
BranchCopy ==
  /\ req.at = "branch"
  /\ req' = [req EXCEPT !.at = "choose", !.seen = info]

Branch ==
  /\ req.at = "choose"
  /\ LET kind == KindOf(req.seen) IN
       IF msc # None \/ kind \in StorageKinds
       THEN IF req.mode = "Bootloader" THEN Answers("200") ELSE Goes("picoboot")
       ELSE IF kind = "HidBootloader" THEN Answers("200")
       ELSE Goes(CASE kind = "Cdc" -> "touch" [] kind = "Hid" -> "report"
                   [] kind = "SerialBridge" -> "bridgeLines" [] OTHER -> "jtagLines")

(* picobootReboot() and hidGetFeature(): on the device that is there now.  *)
Transfer(what, possible) ==
  /\ req.at = what
  /\ IF possible THEN DoneOrNot(what, info) ELSE Answers("409")

(* bridgeReset() and jtagReset(): on the session that is open now; a line  *)
(* of a target that has left cannot be set.                                *)
Lines(what) ==
  /\ req.at = what
  /\ IF serial \in {port} \ {None} THEN DoneOrNot(what, serial) ELSE Answers("409")

(* enterBootsel(): its own look at the target, before the first touch.     *)
EnterBootsel ==
  /\ req.at = "touch" /\ req.attempt = 1
  /\ IF msc # None THEN Answers("200")
     ELSE IF info = None \/ info.kind # "Cdc" \/ serial = None THEN Answers("409")
     ELSE \/ req' = [req EXCEPT !.at = "wait", !.deeds = Does("touch", serial)]
          \/ Ends("409", Does("touch", serial))

(* The second touch goes to whatever session is open after the wait; its   *)
(* failure only counts while there is one.                                 *)
TouchAgain ==
  /\ req.at = "touch" /\ req.attempt > 1
  /\ \/ req' = [req EXCEPT !.at = "wait", !.deeds = Does("touch", serial)]
     \/ serial # None /\ msc = None /\ Ends("409", Does("touch", serial))

(* waitForMsc(): mass storage, or the end of the wait. *)
WaitForMsc ==
  /\ req.at = "wait"
  /\ \/ msc # None /\ Answers("200")
     \/ /\ msc = None
        /\ IF req.attempt < TOUCH_ATTEMPTS
           THEN req' = [req EXCEPT !.at = "touch", !.attempt = @ + 1]
           ELSE Answers("409")

(* -------------------------- the specification -------------------------- *)

Handler ==
  /\ \/ ResetSupport \/ Special \/ Routine \/ BranchCopy \/ Branch
     \/ Transfer("picoboot", HasPicoboot) \/ Transfer("report", HasHid)
     \/ Lines("bridgeLines") \/ Lines("jtagLines")
     \/ EnterBootsel \/ TouchAgain \/ WaitForMsc
  /\ UNCHANGED <<usb, asked>>

(* An enumeration takes far longer than the handler from one read to the   *)
(* next; the wait for mass storage takes seconds.                          *)
Swaps ==
  SwapMidway \/ req.at \in {"idle", "wait"} \/ (req.at = "consult" /\ req.look = "state")
rest2 == <<mix, req, asked>>

Enumerated == Swaps /\ OnNewDevice /\ UNCHANGED rest2
Client     == Enumerated \/ (OnDeviceGone /\ UNCHANGED rest2)
Storage    == MscTask /\ UNCHANGED rest2
Hangup     == CloseSerial /\ UNCHANGED rest2
Opening    == SerialTask /\ UNCHANGED rest2
Plugs ==
  /\ Unplug \/ (Swaps /\ \E k \in mix, a \in Addresses : Plug(k, a))
  /\ UNCHANGED rest2

ResetNext ==
  \/ Plugs \/ Client \/ Storage \/ Hangup \/ Opening
  \/ Handler \/ \E m \in Modes : Request(m)

ResetSpec == ResetInit /\ [][ResetNext]_resetVars

FairResetSpec ==
  /\ ResetSpec
  /\ WF_resetVars(Client) /\ WF_resetVars(Storage) /\ WF_resetVars(Hangup)
  /\ WF_resetVars(Opening) /\ WF_resetVars(Handler)

(* ------------------------------ properties ----------------------------- *)

ResetTypeOK ==
  /\ mix \in Mixes /\ asked \in 0 .. MaxRequests
  /\ req.mode \in Modes /\ req.how \in Deeds \cup {"there", "none"}
  /\ req.deeds \subseteq [what : Deeds, on : AllKinds \cup {"nobody"}, again : BOOLEAN]
  /\ req.answer \in {"none", "200", "409", "502"}
  /\ req.noted \in {"none", "announced", "failed"}
  /\ req.look \in {"done", "state", "copy", "storage", "picoboot", "session"}
  /\ req.seen \in Devices \cup {None}

(* The three that follow are about targets that come and go as fast as     *)
(* the callbacks can follow (hasty = 0), and that do not enumerate between *)
(* two reads of a request (SwapMidway); leave they may at any of them.     *)

(* resetSupport(): what is done to a target is right for its kind, though  *)
(* it was chosen by looks of which each may find less than the one before. *)
(* A device whose wiring the probe does not know gets no pulse.            *)
Fits(d) == d.on = "nobody" \/ (\E m \in Modes : Way(d.on, m) = d.what)
DeedFitsTarget == hasty = 0 => \A d \in req.deeds : d.again \/ Fits(d)

(* resetTarget(): a request to run never sends a target into its boot      *)
(* loader, and one for the boot loader never starts the application.       *)
Asked(d) == \E k \in AllKinds : Way(k, req.mode) = d.what
NoContraryDeed == hasty = 0 => \A d \in req.deeds : Asked(d)

(* handleTargetReset: what was announced in the log, and what a 200 gives   *)
(* as its method, is what was done, or that nothing had to be done.        *)
AnnouncedIsDeed ==
  (hasty = 0 /\ req.answer = "200" /\ req.noted = "announced") =>
    {d.what : d \in req.deeds} = {req.how} \ {"there"}

(* The comment on handleTargetReset: "method" names what was really used.  *)
MethodIsDeed ==
  req.answer = "200" => {d.what : d \in req.deeds} = {req.how} \ {"there"}

(* enterBootsel: the touch is for devices of Raspberry Pi only; also the   *)
(* second one, seconds later.                                              *)
TouchesFitToo == \A d \in req.deeds : Fits(d)

(* handleTargetReset: what was announced and failed must be in the log.    *)
FailureIsNoted ==
  (req.how # "none" /\ req.answer \in {"409", "502"}) => req.noted = "failed"
=============================================================================
