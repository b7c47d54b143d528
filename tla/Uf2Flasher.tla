---------------------------- MODULE Uf2Flasher ----------------------------
(***************************************************************************)
(* POST /api/flash: the firmware of an RP2040 target (main.cpp handleFlash, *)
(* uf2_flasher/Uf2Flasher.cpp).  The file is fetched and checked whole,     *)
(* then the target is sent to its boot ROM, then every block is written as  *)
(* one sector.  The boot ROM, the target and whoever pulls its cable are    *)
(* external; how a drive is opened in detail is in UsbTarget.               *)
(***************************************************************************)
EXTENDS Integers, Sequences, FiniteSets

CONSTANTS Files,     \* the files sent to the endpoint
          Sticks,    \* drives that are no boot ROM
          Changes,   \* bound: how often the target is plugged or pulled
          None

\* One 512-byte block: sound is its three magics and its payload size; num is
\* numBlocks, no is blockNo, rp is whether its family is that of the RP2040.
Blocks == [sound : BOOLEAN, num : Nat, no : Nat, rp : BOOLEAN]

Answers == {"ok", "valid", "400", "409", "413", "502"}

\* uf2: the file begins with the first magic; even: its size is a multiple of 512.
ASSUME Uf2Assumption ==
  /\ \A f \in Files : /\ f.uf2 \in BOOLEAN /\ f.even \in BOOLEAN
                      /\ f.blocks \in Seq(Blocks)
                      /\ f.uf2 /\ f.even => f.blocks # <<>>
  /\ None \notin Files /\ None \notin {"app", "rom"} /\ None \notin Answers
  /\ Changes \in Nat

VARIABLES port,     \* what hangs on the cable: None, "app", "rom" or a stick
          msc,      \* m_msc: "closed", "open", or "dead" when its device has left
          changes,  \* how often the target was plugged or pulled
          rom,      \* the blocks the boot ROM has taken, and of how many
          job,      \* the request the httpd task works on
          did,      \* history: what the request has done to the target
          answer    \* how the last request was answered

uf2Vars == <<port, msc, changes, rom, job, did, answer>>
worldVars == <<port, msc, changes, rom>>

Idle == [at |-> "idle", file |-> None, only |-> FALSE, next |-> 0]

\* jumped: torn out of its application; wrote: blocks a drive has taken;
\* stick: one of them was no boot ROM; ran: a boot ROM has started what it took.
Nothing == [jumped |-> FALSE, wrote |-> {}, stick |-> FALSE, ran |-> FALSE]

Fresh == [of |-> 0, got |-> {}]

Places == {"idle", "head", "alloc", "rest", "ready", "touch", "warn", "check", "write", "unwarn"}

Uf2TypeOK ==
  /\ port \in {None, "app", "rom"} \cup Sticks
  /\ msc \in {"closed", "open", "dead"}
  /\ changes \in 0..Changes
  /\ rom \in [of : Nat, got : SUBSET Nat]
  /\ job \in [at : Places, file : Files \cup {None}, only : BOOLEAN, next : Nat]
  /\ did \in [jumped : BOOLEAN, wrote : SUBSET Nat, stick : BOOLEAN, ran : BOOLEAN]
  /\ answer \in [status : Answers \cup {None}, file : Files \cup {None}]

Uf2Init == /\ port = None /\ msc = "closed" /\ changes = 0 /\ rom = Fresh
           /\ job = Idle /\ did = Nothing
           /\ answer = [status |-> None, file |-> None]

-----------------------------------------------------------------------------
(* The target. *)

IsDrive(p) == p = "rom" \/ p \in Sticks

\* Whatever was open on the device that leaves is dead.
Dead(m) == IF m = "open" THEN "dead" ELSE m

\* Plugging takes far longer than a sector: a write to the target that was
\* pulled has failed before another one hangs on the cable.
Plug == /\ port = None /\ changes < Changes /\ job.at # "write"
        /\ \E p \in {"app", "rom"} \cup Sticks : port' = p
        /\ rom' = Fresh /\ changes' = changes + 1
        /\ UNCHANGED <<msc, job, did, answer>>

Pull == /\ port # None /\ changes < Changes
        /\ port' = None /\ msc' = Dead(msc) /\ changes' = changes + 1
        /\ UNCHANGED <<rom, job, did, answer>>

\* onDeviceGone() and closeMsc(), then openMsc() of a drive.
Session == /\ \/ msc = "dead" /\ msc' = "closed"
              \/ msc = "closed" /\ IsDrive(port) /\ msc' = "open"
           /\ UNCHANGED <<port, changes, rom, job, did, answer>>

\* The 1200-baud touch takes effect.
Jumps == /\ job.at = "touch" /\ port = "app"
         /\ port' = "rom" /\ rom' = Fresh
         /\ did' = [did EXCEPT !.jumped = TRUE]
         /\ UNCHANGED <<msc, changes, job, answer>>

\* The boot ROM takes only sound blocks of its family, begins anew when they
\* announce another number, and starts the program when it has that many.
RomTakes(b) == b.sound /\ b.rp
RomWith(b) == IF ~RomTakes(b) THEN rom
              ELSE [of |-> b.num, got |-> {b.no} \cup IF rom.of = b.num THEN rom.got ELSE {}]
RomStarts(b) == RomTakes(b) /\ Cardinality(RomWith(b).got) = b.num

-----------------------------------------------------------------------------
(* The file. *)

CheckPrologue(f) == f.uf2 /\ f.even

\* A validation that believes the count the file announces.
ValidateNoCount(f) == LET n == Len(f.blocks) IN
  /\ CheckPrologue(f)
  /\ \A i \in 1..n : f.blocks[i].sound /\ f.blocks[i].no = i - 1 /\ f.blocks[i].rp

Validate(f) == LET n == Len(f.blocks) IN
  /\ CheckPrologue(f)
  /\ \A i \in 1..n : LET b == f.blocks[i] IN
       b.sound /\ b.num = n /\ b.no = i - 1 /\ b.rp = f.blocks[1].rp
  /\ f.blocks[1].rp

-----------------------------------------------------------------------------
(* The handler.  It runs in the httpd task, which serves one request at a  *)
(* time; the file is named by what it holds from the start.                 *)

Says(s) == answer' = [status |-> s, file |-> job.file]
Goes(to) == job' = [job EXCEPT !.at = to]
Ends(s) == job' = Idle /\ Says(s)

Request == /\ job.at = "idle"
           /\ \E f \in Files, o \in BOOLEAN :
                job' = [at |-> "head", file |-> f, only |-> o, next |-> 0]
           /\ did' = Nothing
           /\ answer' = [status |-> None, file |-> None]
           /\ UNCHANGED worldVars

\* The first block decides before memory is requested.
FirstBlock == /\ job.at = "head"
              /\ IF CheckPrologue(job.file) THEN Goes("alloc") /\ UNCHANGED answer ELSE Ends("400")
              /\ UNCHANGED <<worldVars, did>>

Alloc == /\ job.at = "alloc"
         /\ (Goes("rest") /\ UNCHANGED answer) \/ Ends("413")
         /\ UNCHANGED <<worldVars, did>>

\* The connection breaks while the body is fetched.
Breaks == /\ job.at \in {"head", "rest"}
          /\ Ends("400")
          /\ UNCHANGED <<worldVars, did>>

Check == /\ job.at = "rest"
         /\ IF ~Validate(job.file) THEN Ends("400")
            ELSE IF job.only THEN Ends("valid")
            ELSE Goes("ready") /\ UNCHANGED answer
         /\ UNCHANGED <<worldVars, did>>

IsMscReady == msc # "closed"

\* enterBootsel() is called only for a target that is not a drive yet.
Ready == /\ job.at = "ready"
         /\ Goes(IF IsMscReady THEN "warn" ELSE "touch")
         /\ UNCHANGED <<worldVars, did, answer>>

\* Three touches and what can be wrong before the first; the target may
\* answer too late for it.
EnterBootsel == /\ job.at = "touch"
                /\ \/ IsMscReady /\ Goes("warn") /\ UNCHANGED answer
                   \/ ~IsMscReady /\ Ends("409")
                /\ UNCHANGED <<worldVars, did>>

Warn == /\ job.at = "warn"
        /\ Goes("check")
        /\ UNCHANGED <<worldVars, did, answer>>

\* A drive with sectors of another size is refused.
FlashCheck == /\ job.at = "check"
              /\ \/ IsMscReady /\ Goes("write") /\ UNCHANGED answer
                 \/ (~IsMscReady \/ port # "rom") /\ Goes("unwarn") /\ Says("502")
              /\ UNCHANGED <<worldVars, did>>

Last == job.next + 1 = Len(job.file.blocks)

Wrote == IF Last THEN Goes("unwarn") /\ Says("ok")
         ELSE job' = [job EXCEPT !.next = @ + 1] /\ UNCHANGED answer

\* The boot ROM restarts on the last block, so its failure is none.
WriteFailed == /\ Goes("unwarn")
               /\ Says(IF Last THEN "ok" ELSE "502")

SectorLost == /\ job.at = "write"
              /\ WriteFailed
              /\ UNCHANGED <<worldVars, did>>

SectorTaken == /\ job.at = "write" /\ msc = "open"
               /\ LET b == job.file.blocks[job.next + 1]
                      starts == port = "rom" /\ RomStarts(b) IN
                  /\ did' = [did EXCEPT !.wrote = @ \cup {job.next}, !.ran = @ \/ starts,
                                         !.stick = @ \/ port # "rom"]
                  /\ rom' = IF port = "rom" THEN RomWith(b) ELSE rom
                  /\ IF starts
                     THEN port' = "app" /\ msc' = Dead(msc) /\ (Wrote \/ WriteFailed)
                     ELSE Wrote /\ UNCHANGED <<port, msc>>
               /\ UNCHANGED changes

Unwarn == /\ job.at = "unwarn"
          /\ job' = Idle
          /\ UNCHANGED <<worldVars, did, answer>>

HandleFlash == \/ FirstBlock \/ Alloc \/ Breaks \/ Check \/ Ready \/ EnterBootsel
               \/ FlashCheck \/ SectorLost \/ SectorTaken

-----------------------------------------------------------------------------
(* Correctness. *)

\* A file from which a boot ROM that gets its blocks in order makes a program.
Program(f) == LET n == Len(f.blocks) IN
  /\ f.uf2 /\ f.even
  /\ \A i \in 1..n : RomTakes(f.blocks[i])
  /\ {f.blocks[i].no : i \in 1..n} = 0..n - 1

\* docs/protocol.md:170-177: a target is touched and written only for a file
\* that is a program from end to end and was not sent to be checked only; and
\* 200 says that every block was taken but perhaps the last, and that a boot
\* ROM which took that one too has started the program.
FlashContract ==
  /\ did.jumped \/ did.wrote # {} =>
       /\ answer.status \notin {"400", "413", "valid"}
       /\ job.at # "idle" => ~job.only /\ Program(job.file)
  /\ answer.status = "ok" =>
       LET n == Len(answer.file.blocks) IN
       /\ 0..n - 2 \subseteq did.wrote
       /\ n - 1 \in did.wrote /\ ~did.stick => did.ran
=============================================================================
