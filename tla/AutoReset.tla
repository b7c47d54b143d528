----------------------------- MODULE AutoReset -----------------------------
(***************************************************************************)
(* DTR and RTS as reset lines of an ESP32 target: the probe's own reset    *)
(* sequences (UsbTarget.cpp bridgeReset, jtagReset, resetTarget) and those *)
(* of an RFC2217 client that changes one line at a time                    *)
(* (Rfc2217Server.cpp handleSubnegotiation SET_CONTROL,                    *)
(* applyControlLines, run).                                                *)
(*                                                                         *)
(* What the lines do to the chip is external; it is modelled as the        *)
(* comments of bridgeReset and jtagReset describe the board and the chip.  *)
(***************************************************************************)
EXTENDS Integers, Sequences

CONSTANTS
  Boards,       \* "bridge": transistor pair on EN and IO0; "jtag": in the chip
  Tools,        \* what clients do: each a sequence of <<line, on, long pause
                \* after it>>
  Calls,        \* bound: how often resetTarget() is called
  MaxResetFailures,\* bound: how many control transfers fail
  Sessions      \* bound: how many clients come

ASSUME ResetAssumption ==
  /\ Boards \subseteq {"bridge", "jtag"}
  /\ Tools \subseteq Seq({"dtr", "rts"} \X BOOLEAN \X BOOLEAN)
  /\ Calls \in Nat /\ MaxResetFailures \in Nat /\ Sessions \in Nat

VARIABLES
  board,     \* the target that is plugged in
  wire,      \* DTR and RTS as the target sees them
  chip,      \* "run", "boot" (waiting for a flash tool) or "held" in reset
  latch,     \* the chip remembers a phase with DTR alone
  lost,      \* history: the last transfer, whosever it was, failed
  mode,      \* resetTarget: mode, or "none"
  step,      \* how far its sequence is
  done,      \* mode of the last successful call, with nothing since
  alone,     \* no client touched the lines since that call began
  client,    \* RFC2217 server: "none", "served" or "gone"
  asked,     \* Rfc2217Server::m_dtr and m_rts
  deferred,  \* m_controlDeadlineUs # 0
  tool,      \* what this client does
  tidy,      \* history: no resetTarget() and no failed transfer since the
             \* client came, to a rest
  at,        \* how far the client is
  calls, resetFailures, sessions

caller    == <<mode, step, calls>>
server    == <<client, asked, deferred, tool, at, sessions>>
lines     == <<wire, chip, latch, lost, resetFailures>>
resetVars == <<board, lines, done, alone, tidy, caller, server>>

Lines(d, r) == [dtr |-> d, rts |-> r]
Off  == Lines(FALSE, FALSE)

(* resetControlLines(): DTR only for real CDC. *)
Rest == Lines(board = "jtag", FALSE)

(* ---------------------------- the target ------------------------------- *)

InReset(w) == w.rts /\ ~w.dtr
DtrAlone(w) == w.dtr /\ ~w.rts

(* Releasing EN starts the chip: with IO0 low, or with the latch set, in   *)
(* the bootloader.                                                         *)
Started(w) ==
  IF board = "bridge"
  THEN IF DtrAlone(w) THEN "boot" ELSE "run"
  ELSE IF latch THEN "boot" ELSE "run"

Drive(w) ==
  /\ wire' = w
  /\ chip' = IF InReset(w) THEN "held"
             ELSE IF chip = "held" THEN Started(w) ELSE chip
  /\ latch' = IF DtrAlone(w) THEN TRUE ELSE IF w = Off THEN FALSE ELSE latch
  /\ lost' = FALSE
  /\ UNCHANGED resetFailures

(* setControlLines() without an acknowledgement.                           *)
NotDriven ==
  /\ resetFailures < MaxResetFailures
  /\ resetFailures' = resetFailures + 1
  /\ lost' = TRUE
  /\ UNCHANGED <<wire, chip, latch>>

(* ... and with a result that nobody looks at. *)
TryToDrive(w) == Drive(w) \/ NotDriven

ResetInit ==
  /\ board \in Boards
  /\ wire = Rest /\ chip = "run" /\ latch = DtrAlone(Rest)
  /\ lost = FALSE
  /\ mode = "none" /\ step = 1 /\ done = "none"
  /\ alone = TRUE
  /\ client = "none" /\ asked = Off /\ deferred = FALSE /\ at = 1
  /\ tool \in Tools /\ tidy = TRUE
  /\ calls = 0 /\ resetFailures = 0 /\ sessions = 0

(* -------------------------- resetTarget() ------------------------------ *)

(* A hard reset that forgets the latch. *)
SequenceNoClear(m) ==
  IF board = "bridge"
  THEN IF m = "Bootloader"
       THEN <<Lines(FALSE, TRUE), Lines(TRUE, FALSE), Off>>
       ELSE <<Lines(FALSE, TRUE), Off>>
  ELSE IF m = "Bootloader"
       THEN <<Lines(TRUE, FALSE), Lines(FALSE, TRUE), Off>>
       ELSE <<Lines(FALSE, TRUE), Off>>

(* bridgeReset() and jtagReset(). *)
Sequence(m) ==
  IF board = "bridge"
  THEN IF m = "Bootloader"
       THEN <<Lines(FALSE, TRUE), Lines(TRUE, FALSE), Off>>
       ELSE <<Lines(FALSE, TRUE), Off>>
  ELSE IF m = "Bootloader"
       THEN <<Off, Lines(TRUE, FALSE), Lines(FALSE, TRUE), Off>>
       ELSE <<Off, Lines(FALSE, TRUE), Off>>

ResetTarget(m) ==
  /\ mode = "none" /\ calls < Calls
  /\ mode' = m /\ step' = 1 /\ calls' = calls + 1
  /\ done' = "none" /\ alone' = TRUE
  /\ tidy' = FALSE
  /\ UNCHANGED <<board, lines, server>>

ResetStep ==
  /\ mode # "none" /\ step <= Len(Sequence(mode))
  /\ Drive(Sequence(mode)[step])
  /\ step' = step + 1
  /\ UNCHANGED <<board, tidy, mode, calls, done, alone, server>>

(* Every transfer of the sequence ends it when it fails. *)
ResetFails ==
  /\ mode # "none" /\ step <= Len(Sequence(mode))
  /\ NotDriven
  /\ mode' = "none"
  /\ UNCHANGED <<board, tidy, step, calls, done, alone, server>>

(* ESP_OK, whatever became of the last transfer. *)
ResetReturns ==
  /\ mode # "none" /\ step > Len(Sequence(mode))
  /\ IF mode = "Run" THEN TryToDrive(Rest) ELSE UNCHANGED lines
  /\ mode' = "none" /\ done' = mode
  /\ UNCHANGED <<board, tidy, step, calls, alone, server>>

(* -------------------------- RFC2217 server ----------------------------- *)

ToolComes ==
  /\ client = "none" /\ sessions < Sessions
  /\ client' = "served" /\ at' = 1 /\ deferred' = FALSE
  /\ sessions' = sessions + 1
  /\ tool' \in Tools
  /\ tidy' = (mode = "none" /\ chip = "run" /\ wire = Rest)
  /\ UNCHANGED <<board, lines, done, alone, asked, caller>>

(* A transfer of the client's that failed spoils what it is up to. *)
TidyIfDriven == tidy' = (tidy /\ UNCHANGED resetFailures)

(* SET_CONTROL that sets every state at once. *)
SetControlNow ==
  /\ client = "served" /\ at <= Len(tool)
  /\ LET w == [asked EXCEPT ![tool[at][1]] = tool[at][2]] IN
       /\ asked' = w
       /\ deferred' = FALSE /\ TryToDrive(w)
  /\ at' = at + 1 /\ done' = "none" /\ alone' = FALSE /\ TidyIfDriven
  /\ UNCHANGED <<board, tool, client, sessions, caller>>

(* SET_CONTROL: both lines asserted is held back, all else set at once.    *)
SetControl ==
  /\ client = "served" /\ at <= Len(tool)
  /\ LET w == [asked EXCEPT ![tool[at][1]] = tool[at][2]] IN
       /\ asked' = w
       /\ IF w.dtr /\ w.rts
          THEN deferred' = TRUE /\ UNCHANGED lines
          ELSE deferred' = FALSE /\ TryToDrive(w)
  /\ at' = at + 1 /\ done' = "none" /\ alone' = FALSE /\ TidyIfDriven
  /\ UNCHANGED <<board, tool, client, sessions, caller>>

Paused == at = 1 \/ tool[at - 1][3]

(* A deadline that is forgotten. *)
ApplyControlLinesNever ==
  /\ client = "served" /\ deferred /\ Paused
  /\ UNCHANGED <<board, tool, tidy, lines, done, alone, asked, deferred, at,
                 client, sessions, caller>>

(* applyControlLines(), if the client pauses for longer than the deadline. *)
ApplyControlLines ==
  /\ client = "served" /\ deferred /\ Paused
  /\ deferred' = FALSE
  /\ TryToDrive(asked)
  /\ done' = "none" /\ alone' = FALSE /\ TidyIfDriven
  /\ UNCHANGED <<board, tool, client, asked, at, sessions, caller>>

(* The client left or crashed: its lines are forgotten ... *)
ToolLeaves ==
  /\ client = "served"
  /\ client' = "gone"
  /\ asked' = Off
  /\ UNCHANGED <<board, tool, tidy, lines, done, alone, deferred, at, sessions,
                 caller>>

(* ... and not given back. *)
ResetControlLinesNot ==
  /\ client = "gone" /\ client' = "none"
  /\ done' = "none" /\ alone' = FALSE
  /\ UNCHANGED <<board, tool, tidy, lines, asked, deferred, at, sessions, caller>>

(* ... and the target gets its rest state back, if it answers. *)
ResetControlLines ==
  /\ client = "gone" /\ client' = "none"
  /\ TryToDrive(Rest)
  /\ done' = "none" /\ alone' = FALSE
  /\ UNCHANGED <<board, tool, tidy, asked, deferred, at, sessions, caller>>

(* -------------------------- the specification -------------------------- *)

ResetCall ==
  \/ \E m \in {"Run", "Bootloader"} : ResetTarget(m)
  \/ ResetStep \/ ResetFails \/ ResetReturns
ToolServer ==
  \/ ToolComes \/ SetControl \/ ApplyControlLines
  \/ ToolLeaves \/ ResetControlLines

ResetNext == ResetCall \/ ToolServer

ResetSpec == ResetInit /\ [][ResetNext]_resetVars

(* The server polls its deadline every millisecond. *)
FairResetSpec == ResetSpec /\ WF_resetVars(ApplyControlLines)

(* ------------------------- clients worth naming ------------------------ *)

(* esptool, classic reset into the bootloader, line by line. *)
Esptool == << <<"dtr", FALSE, FALSE>>, <<"rts", TRUE, FALSE>>,
              <<"dtr", TRUE, FALSE>>, <<"rts", FALSE, FALSE>>,
              <<"dtr", FALSE, TRUE>> >>

(* A terminal that opens the port with both lines asserted, twice. *)
Terminal == << <<"dtr", TRUE, TRUE>>, <<"rts", TRUE, TRUE>>,
               <<"rts", FALSE, TRUE>>, <<"dtr", FALSE, TRUE>>,
               <<"dtr", TRUE, FALSE>>, <<"rts", TRUE, TRUE>> >>

(* A tool that goes through every state at its leisure. *)
Leisurely == << <<"rts", TRUE, TRUE>>, <<"dtr", TRUE, TRUE>>,
                <<"rts", FALSE, TRUE>>, <<"dtr", FALSE, TRUE>>,
                <<"rts", TRUE, TRUE>> >>

(* ------------------------------ properties ----------------------------- *)

AllLines == [dtr : BOOLEAN, rts : BOOLEAN]

ResetTypeOK ==
  /\ wire \in AllLines /\ asked \in AllLines
  /\ chip \in {"run", "boot", "held"} /\ latch \in BOOLEAN /\ alone \in BOOLEAN
  /\ mode \in {"none", "Run", "Bootloader"} /\ done \in {"none", "Run", "Bootloader"}
  /\ step \in 1 .. 5 /\ at \in 1 .. Len(tool) + 1
  /\ board \in Boards /\ tool \in Tools /\ tidy \in BOOLEAN
  /\ client \in {"none", "served", "gone"} /\ deferred \in BOOLEAN
  /\ lost \in BOOLEAN /\ calls \in 0 .. Calls /\ resetFailures \in 0 .. MaxResetFailures
  /\ sessions \in 0 .. Sessions

(* resetTarget() that returned ESP_OK did to the chip what it was asked    *)
(* for, wherever earlier calls, failed ones and former clients left the    *)
(* lines, the latch and the chip.  The lines are at rest after it, unless  *)
(* the one transfer failed whose result it ignores: then they are as the   *)
(* sequence left them, both off.                                           *)
AsAsked ==
  /\ done = "Run" => chip = "run" /\ wire = IF lost THEN Off ELSE Rest
  /\ done = "Bootloader" => chip = "boot"

ResetDidIt == alone => AsAsked

(* The same although a client may come and go during the call: nothing in  *)
(* UsbTarget.hpp says that resetTarget() needs the lines for itself.       *)
ResetAlwaysDidIt == AsAsked

(* Line by line, over a network, with a pause between any two requests     *)
(* shorter than the deadline, esptool still reaches the bootloader: the    *)
(* state in between never reaches the board (comment at                    *)
(* BOTH_ASSERTED_DEFER_US).                                                *)
ToolReachesBootloader ==
  (tidy /\ client = "served" /\ tool = Esptool /\ at > Len(tool)
    /\ board = "bridge") => chip = "boot"

(* A held-back state is not forgotten: if the client waits it reaches the  *)
(* wire, or the transfer that failed was tried.                            *)
DeferredIsApplied ==
  (deferred /\ client = "served" /\ at > Len(tool)) ~>
    (client # "served" \/ wire = asked \/ lost)

(* Neither a tool that crashed, in whatever state it stopped, nor a call   *)
(* that gave up leaves the target in reset (comment in Rfc2217Server.cpp   *)
(* run), except where the last transfer that was tried is the one that     *)
(* failed: nobody repeats it.                                              *)
CrashedToolFreesTarget ==
  (client = "none" /\ mode = "none" /\ ~lost) => chip # "held"

(* The comment without the exception. *)
CrashedToolAlwaysFreesTarget ==
  (client = "none" /\ mode = "none") => chip # "held"

(* ... nor in the bootloader. *)
CrashedToolLeavesBootloader ==
  (client = "none" /\ calls = 0) => chip # "boot"
=============================================================================
