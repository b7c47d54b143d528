------------------------------ MODULE B003Link ------------------------------
(***************************************************************************)
(* A CH32V003 behind the rv003usb boot loader (ch32_flasher/B003Link.cpp):   *)
(* POST /api/ch32/flash writes its firmware, GET /api/ch32 says what chip it  *)
(* is, and POST /api/reset starts its application (main.cpp).                *)
(* Every step is a routine that is sent into the chip's scratchpad, runs    *)
(* there, and says that it is done in a byte the probe polls.  Chip and     *)
(* boot loader are external; what a routine does to the flash is its meaning *)
(* in B003Link.cpp.                                                         *)
(***************************************************************************)
EXTENDS Integers, FiniteSets

CONSTANTS Scratchpads,  \* what the boot loader's scratchpad may hold
          Images,       \* what is sent: [where, page, size]
          ChipPages,    \* pages of the chip's flash
          Losses        \* bound: commands of one request that go unanswered

SECTOR_SIZE        == 64
DEFAULT_SCRATCHPAD == 128
MAX_IMAGE          == 16 * 1024

\* where: in the flash on a page, beside a page, or not in the flash; page is
\* the first one.
ASSUME B003Assumption ==
  /\ Scratchpads \subseteq {n \in Nat : n >= DEFAULT_SCRATCHPAD}
  /\ Images \subseteq [where : {"flash", "beside", "elsewhere"}, page : Nat, size : Nat]
  /\ ChipPages \in Nat /\ Losses \in Nat

VARIABLES chip,    \* the chip at the other end
          link,    \* the B003Link of the request, and where it is
          lost,    \* history: the commands of this request that went unanswered
                   \* and were taken for done
          result   \* how the last request was answered

chipVars == <<chip, link, lost, result>>

NoImage == [where |-> "elsewhere", page |-> 0, size |-> 0]
NoLink == [at |-> "idle", want |-> "flash", image |-> NoImage,
           scratch |-> DEFAULT_SCRATCHPAD, written |-> 0]
NoResult == [status |-> "none", want |-> "flash", image |-> NoImage, written |-> 0]

\* A page of the flash holds what was there when the request came, nothing, a
\* mixture, or the page of that number of the image, counted from one.
Old == 0
Blank == -1
Mixed == -2
OldFlash == [p \in 0..ChipPages - 1 |-> Old]

LinkPlaces == {"idle", "body", "begin", "halt", "probe", "unlock", "keys",
               "verify", "erase", "buffer", "program",
               "obr", "wrpr", "low", "high", "run"}
Wants == {"flash", "identify", "run"}
Words == {"obr", "wrpr", "low", "high"}

ChipTypeOK ==
  /\ chip \in [at : {"boot", "app", "gone"}, scratch : Scratchpads, locked : BOOLEAN,
               clean : BOOLEAN, flash : [0..ChipPages - 1 -> Int]]
  /\ link \in [at : LinkPlaces, want : Wants, image : Images \cup {NoImage},
               scratch : Nat, written : Nat]
  /\ lost \subseteq [at : LinkPlaces, page : Nat]
  /\ result \in [status : {"none", "ok", "400", "409", "413", "502"}, want : Wants,
                 image : Images \cup {NoImage}, written : Nat]

ChipInit == /\ \E s \in Scratchpads :
                 chip = [at |-> "gone", scratch |-> s, locked |-> TRUE,
                         clean |-> FALSE, flash |-> OldFlash]
            /\ link = NoLink /\ lost = {} /\ result = NoResult

-----------------------------------------------------------------------------
(* The chip.  It leaves at any moment; it is back in its boot loader only   *)
(* when the request that lost it has ended.                                 *)

Leave == /\ chip.at # "gone"
         /\ chip' = [chip EXCEPT !.at = "gone"]
         /\ UNCHANGED <<link, lost, result>>

Arrive == /\ chip.at = "gone" /\ link.at = "idle"
          /\ \E a \in {"boot", "app"} :
               chip' = [chip EXCEPT !.at = a, !.locked = TRUE, !.clean = FALSE]
          /\ UNCHANGED <<link, lost, result>>

WithPage(c, p, x) == IF p \in 0..ChipPages - 1 /\ ~c.locked
                     THEN [c EXCEPT !.flash[p] = x] ELSE c

Erased(c, p) == WithPage(c, p, Blank)
Cleaned(c) == [c EXCEPT !.clean = TRUE]
Unlocked(c) == [c EXCEPT !.locked = FALSE]
Programmed(c, p, k) ==
  [WithPage(c, p, IF c.clean /\ c.flash[p] = Blank THEN k ELSE Mixed) EXCEPT !.clean = FALSE]

-----------------------------------------------------------------------------
(* Commands: the report's first four bytes, the routine, its parameters,    *)
(* the data and the start magic have to fit into the scratchpad.            *)

Command(blob, words, send, recv) ==
  [place |-> 4 + blob + 4 * words, send |-> send, recv |-> recv]

HaltCmd    == Command(10, 0, 0, 0)
ReadCmd    == Command(48, 2, 0, 4)
WriteCmd   == Command(48, 2, 4, 0)
EraseCmd   == Command(52, 3, 0, 0)
ProgramCmd == Command(48, 2, SECTOR_SIZE, 0)

\* The newer routine, where the scratchpad holds it.
RunCmd(scratch) == Command(IF scratch >= 4 + 123 + 4 THEN 123 ELSE 48, 0, 0, 0)

Needed(c) == c.place + c.send + 4
Returned(c) == IF c.recv > 0 THEN c.place + c.recv + 4 ELSE 0

Steps == {128, 1152, 2176, 3200, 4096, 5248, 6272}

\* The smallest step the command fits in, the largest if none.
PadSize(needed) ==
  IF needed > 5248 THEN 6272
  ELSE IF needed > 4096 THEN 5248
  ELSE IF needed > 3200 THEN 4096
  ELSE IF needed > 2176 THEN 3200
  ELSE IF needed > 1152 THEN 2176
  ELSE IF needed > 128 THEN 1152
  ELSE 128

Fits(c, scratch) == Needed(c) <= scratch /\ Returned(c) <= scratch

\* The magic ends the padded report: beyond the end of the chip's scratchpad
\* it starts nothing.
Starts(c, scratch) == PadSize(Needed(c)) <= scratch

-----------------------------------------------------------------------------
(* The handlers. *)

Answers32(s, written) ==
  /\ result' = [status |-> s, want |-> link.want, image |-> link.image, written |-> written]
  /\ link' = NoLink
Ends32(s) == Answers32(s, link.written)
Goes32(to) == link' = [link EXCEPT !.at = to] /\ UNCHANGED result

\* commit().  A command that fits is sent, and runs if the chip is there and its
\* magic lies inside the scratchpad.
Delivered(c) == Fits(c, link.scratch) /\ chip.at = "boot" /\ Starts(c, chip.scratch)
MayRun(c, new) == chip' = chip \/ (Delivered(c) /\ chip' = new)

Acknowledged(c, new) == Delivered(c) /\ chip' = new /\ UNCHANGED lost

\* hidFeature() reports no error for a transfer that nobody answers, whether it
\* was cut off by the chip's leaving or only by the time; the byte polled still
\* holds the 0xFF of the command before.  Whether the routine ran is open.
Here == [at |-> link.at, page |-> link.written \div SECTOR_SIZE + 1]

Unacknowledged(c, new) ==
  /\ Fits(c, link.scratch) /\ MayRun(c, new)
  /\ Cardinality(lost) < Losses /\ lost' = lost \cup {Here}

Done(c, new) == Acknowledged(c, new) \/ Unacknowledged(c, new)

\* Refused, stalled, never started, or never seen to be done.
Failed(c, new) == MayRun(c, new) /\ UNCHANGED lost

\* A restart asks for the boot loader before it takes this way.
Ch32Request ==
  /\ link.at = "idle"
  /\ \/ \E i \in Images : link' = [NoLink EXCEPT !.at = "body", !.image = i]
     \/ link' = [NoLink EXCEPT !.at = "begin", !.want = "identify"]
     \/ chip.at = "boot" /\ link' = [NoLink EXCEPT !.at = "begin", !.want = "run"]
  /\ chip' = [chip EXCEPT !.flash = OldFlash] /\ result' = NoResult
  /\ lost' = {}

Body == /\ link.at = "body"
        /\ \/ link.image.size = 0 /\ Ends32("400")
           \/ link.image.size > MAX_IMAGE /\ Ends32("413")
           \/ link.image.size \in 1..MAX_IMAGE /\ (Ends32("400") \/ Goes32("begin"))
        /\ UNCHANGED <<chip, lost>>

NotBegun == Ends32(IF link.want = "run" THEN "502" ELSE "409")

Begin == /\ link.at = "begin"
         /\ IF chip.at = "boot" THEN Goes32("halt") ELSE NotBegun
         /\ UNCHANGED <<chip, lost>>

Halt == /\ link.at = "halt"
        /\ \/ Done(HaltCmd, chip) /\ Goes32("probe")
           \/ Failed(HaltCmd, chip) /\ NotBegun

\* A negotiation that believes what it asked for.
NegotiatedAsAsked == {DEFAULT_SCRATCHPAD, 6272, 4096, 3200, 2176}

\* What really came back counts, not what was asked for.
Negotiated == {DEFAULT_SCRATCHPAD} \cup
  {IF chip.scratch < p THEN chip.scratch ELSE p : p \in {6272, 4096, 3200, 2176, 128}}

FirstOf == [flash |-> "unlock", identify |-> "obr", run |-> "run"]

Probe == /\ link.at = "probe"
         /\ \E s \in Negotiated : link' = [link EXCEPT !.at = FirstOf[link.want], !.scratch = s]
         /\ UNCHANGED <<chip, lost, result>>

\* readWord(ADDR_FLASH_CTLR): without an answer the word is whatever the
\* transfers before have left in the buffer.
Reads(locked) == \/ Acknowledged(ReadCmd, chip) /\ locked = chip.locked
                 \/ Unacknowledged(ReadCmd, chip)

\* The lock is asked for once per link.
Unlock == /\ link.at = "unlock"
          /\ IF link.image.where # "flash" THEN Ends32("502") /\ UNCHANGED <<chip, lost>>
             ELSE \/ Reads(TRUE) /\ Goes32("keys")
                  \/ Reads(FALSE) /\ Goes32("erase")
                  \/ Failed(ReadCmd, chip) /\ Ends32("502")

\* Three pairs of keys, six commands; one that is lost leaves the lock.
Keys == /\ link.at = "keys"
        /\ \/ Done(WriteCmd, Unlocked(chip)) /\ Goes32("verify")
           \/ Failed(WriteCmd, Unlocked(chip)) /\ Ends32("502")

Verify == /\ link.at = "verify"
          /\ \/ Reads(FALSE) /\ Goes32("erase")
             \/ Reads(TRUE) /\ Ends32("502")
             \/ Failed(ReadCmd, chip) /\ Ends32("502")

PageOf(i, n) == i.page + n \div SECTOR_SIZE

EraseBlock == /\ link.at = "erase"
              /\ LET new == Erased(chip, PageOf(link.image, link.written)) IN
                 \/ Done(EraseCmd, new) /\ Goes32("buffer")
                 \/ Failed(EraseCmd, new) /\ Ends32("502")

\* Two commands; the page buffer would else keep what the last page left.
ResetBuffer == /\ link.at = "buffer"
               /\ \/ Done(WriteCmd, Cleaned(chip)) /\ Goes32("program")
                  \/ Failed(WriteCmd, Cleaned(chip)) /\ Ends32("502")

\* The last page is filled up with 0xFF.
Chunk(i, n) == IF i.size - n < SECTOR_SIZE THEN i.size - n ELSE SECTOR_SIZE

\* An end that leaves out what does not fill a page.
AdvanceWholePages == LET w == link.written + Chunk(link.image, link.written) IN
  IF w + SECTOR_SIZE <= link.image.size
  THEN link' = [link EXCEPT !.at = "erase", !.written = w] /\ UNCHANGED result
  ELSE Answers32("ok", w)

Advance == LET w == link.written + Chunk(link.image, link.written) IN
  IF w < link.image.size
  THEN link' = [link EXCEPT !.at = "erase", !.written = w] /\ UNCHANGED result
  ELSE Answers32("ok", w)

WriteFlash64 == /\ link.at = "program"
                /\ LET k == link.written \div SECTOR_SIZE + 1
                       new == Programmed(chip, PageOf(link.image, link.written), k) IN
                   \/ Done(ProgramCmd, new) /\ Advance
                   \/ Failed(ProgramCmd, new) /\ Ends32("502")

\* The series decides whether there is a second half of the identity to read.
Identify ==
  /\ link.at \in Words
  /\ \/ Done(ReadCmd, chip) /\ \/ link.at = "obr" /\ Goes32("wrpr")
                               \/ link.at = "wrpr" /\ Goes32("low")
                               \/ link.at = "low" /\ (Goes32("high") \/ Ends32("ok"))
                               \/ link.at = "high" /\ Ends32("ok")
     \/ Failed(ReadCmd, chip) /\ Ends32("502")

\* Nothing is polled: the chip is gone when it worked, and a routine that never
\* starts looks the same.
BootUserCode ==
  LET run == RunCmd(link.scratch)
      new == [chip EXCEPT !.at = "app"] IN
  /\ link.at = "run"
  /\ \/ Done(run, new) /\ Ends32("ok")
     \/ /\ Fits(run, link.scratch) /\ chip.at = "boot" /\ ~Starts(run, chip.scratch)
        /\ Ends32("ok") /\ UNCHANGED <<chip, lost>>
     \/ Failed(run, new) /\ Ends32("502")

HandleCh32Flash == \/ Body \/ Begin \/ Halt \/ Probe \/ Unlock \/ Keys \/ Verify
                   \/ EraseBlock \/ ResetBuffer \/ WriteFlash64

HandleCh32 == HandleCh32Flash \/ Identify \/ BootUserCode

-----------------------------------------------------------------------------
(* Correctness. *)

PagesOf(size) == (size + SECTOR_SIZE - 1) \div SECTOR_SIZE

\* The page k was written without an answer to each of its commands, or without
\* the lock being known to be off: one answer, to the first question or to the
\* keys or to the second question, is enough for that.
Lost(at, k) == [at |-> at, page |-> k] \in lost
LockInDoubt == Lost("unlock", 1) \/ (Lost("keys", 1) /\ Lost("verify", 1))
InDoubt(k) == LockInDoubt \/ \E at \in {"erase", "buffer", "program"} : Lost(at, k)

\* Every page of the image up to n bytes that is not in doubt is in its place.
Holds(i, n) == \A k \in 1..PagesOf(n) : chip.flash[i.page + k - 1] = k \/ InDoubt(k)

\* 200 says that the whole image is in the flash, 502 with n bytes written that
\* these are -- but for the pages of which a command of their own went unanswered:
\* a lost transfer never spoils another page, and a lost key or a lost question
\* for the lock alone none at all.  Only pages of the image are touched, on 502 at
\* most one behind those reported; on every other answer nothing is.
Ch32Contract ==
  LET i == result.image
      end == i.page + PagesOf(result.written) IN
  result.status # "none" /\ i.page + PagesOf(i.size) <= ChipPages =>
    /\ result.status = "ok" => result.written = i.size
    /\ result.status \in {"ok", "502"} => Holds(i, result.written)
    /\ \A p \in 0..ChipPages - 1 :
         chip.flash[p] # Old =>
           /\ result.status \in {"ok", "502"}
           /\ p \in i.page..end
           /\ result.status = "ok" => p < end

\* B003Link.cpp:249-251 "Byte 1 auf 0xFF ist das Signal, das der Stub am Ende
\* setzt" -- violated once a transfer is not acknowledged: the byte polled is
\* that of the command before.
WrittenIsThere ==
  LET i == result.image IN
  result.status = "ok" /\ i.page + PagesOf(i.size) <= ChipPages =>
    \A k \in 1..PagesOf(i.size) : chip.flash[i.page + k - 1] = k

\* B003Link.cpp:338-344: a restart that is answered with 200 has started the
\* application, unless its one transfer went unanswered or the scratchpad is one of
\* those that hold the large routine but not the report it is padded to.  Of all
\* other sizes, whichever was negotiated, routine and magic lie inside.
StartedRuns ==
  [][result'.status = "ok" /\ link.want = "run" /\ link.at = "run" =>
       chip'.at = "app" \/ Lost("run", 1)' \/ chip.scratch \in 131..1151]_chipVars

\* B003Link.cpp:338-344 says that the magic is never put behind the scratchpad's
\* end -- violated by a scratchpad of 131 to 1151 bytes: the size negotiated is
\* right, and the report is padded beyond it.
StartedAlwaysRuns ==
  [][result'.status = "ok" /\ link.want = "run" /\ link.at = "run" =>
       chip'.at = "app" \/ Lost("run", 1)']_chipVars

\* B003Link.hpp:76 "Chip-Kennung des Ziels" -- violated once a transfer is not
\* acknowledged: the word of the transfer before is taken for the one asked for.
IdentityIsTheChips ==
  result.status = "ok" /\ result.want = "identify" => lost = {}
=============================================================================
