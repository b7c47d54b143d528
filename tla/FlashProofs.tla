----------------------------- MODULE FlashProofs -----------------------------
(***************************************************************************)
(* The contracts of /api/flash and /api/ch32, whatever files and images are *)
(* sent, wherever the target is pulled and whichever transfers go           *)
(* unanswered; and when a restart that was answered with 200 has started    *)
(* the application.                                                         *)
(***************************************************************************)
EXTENDS Flash, FiniteSetTheorems, TLAPS

(* -------------------- /api/flash: the RP2040 target --------------------- *)

(* Where the file has been found to be sound, and where nothing is said yet. *)
Early  == {"head", "alloc", "rest"}
Going  == {"ready", "touch", "warn", "check"}
Writes == {"write"}
Late   == Going \cup Writes \cup {"unwarn"}

HasFile   == job.at # "idle" => job.file \in Files
Accepted  == job.at \in Late => Validate(job.file) /\ ~job.only
Untouched == job.at \in Early => did = Nothing
Silent    == job.at \in Early \cup Going \cup Writes => answer.status = None

(* The sectors go out one by one, from the first. *)
InOrder ==
  /\ job.at \in Going \cup Writes => did.wrote = 0..job.next - 1
  /\ job.at \in Early \cup Going => job.next = 0
  /\ job.at = "write" => job.next < Len(job.file.blocks)

(* The boot ROM counts by what a block announces, and what it has counted   *)
(* of an earlier file is no more than that.                                 *)
RomCounts ==
  /\ rom.got \subseteq 0..rom.of - 1
  /\ job.at = "write" /\ port = "rom" /\ job.next > 0 =>
       rom.of = Len(job.file.blocks) /\ 0..job.next - 1 \subseteq rom.got

FileInv == /\ Uf2TypeOK /\ HasFile /\ Accepted /\ Untouched /\ Silent
           /\ InOrder /\ RomCounts /\ FlashContract

(* What a step may do to the part that flashes an RP2040. *)
Uf2Step == \/ Request \/ HandleFlash \/ Warn \/ Unwarn
           \/ Pull \/ Session \/ Jumps \/ Plug \/ UNCHANGED uf2Vars

LEMMA StepIsUf2Step == [Next]_vars => Uf2Step
BY DEF Next, vars, Uf2Step, Uf2Arrives, Ch32Arrives, LedArrives, TrimArrives, Httpd, Uf2Goes, Indicate,
       Indicated, Ch32Goes, LedGoes, Supervisor, Renderer, Gauge, Targets

(* handleFlash: what a file that passed the check is made of. *)
LEMMA ValidFile ==
  ASSUME NEW f \in Files, Validate(f)
  PROVE  /\ Len(f.blocks) \in Nat \ {0}
         /\ \A i \in 1..Len(f.blocks) :
              /\ RomTakes(f.blocks[i])
              /\ f.blocks[i].num = Len(f.blocks) /\ f.blocks[i].no = i - 1
         /\ Program(f)
<1> DEFINE n == Len(f.blocks)
<1>1. f.uf2 /\ f.even /\ f.blocks \in Seq(Blocks) /\ f.blocks # <<>>
  BY Uf2Assumption DEF Validate, CheckPrologue
<1>2. n \in Nat \ {0}
  BY <1>1
<1>3. \A i \in 1..n : /\ RomTakes(f.blocks[i])
                      /\ f.blocks[i].num = n /\ f.blocks[i].no = i - 1
  BY <1>2 DEF Validate, RomTakes
<1>4. {f.blocks[i].no : i \in 1..n} = 0..n - 1
  <2>1. ASSUME NEW k \in 0..n - 1 PROVE k \in {f.blocks[i].no : i \in 1..n}
    <3>1. k + 1 \in 1..n /\ f.blocks[k + 1].no = k
      BY <1>2, <1>3, <2>1
    <3> QED
      BY <3>1
  <2>2. ASSUME NEW i \in 1..n PROVE f.blocks[i].no \in 0..n - 1
    BY <1>2, <1>3, <2>2
  <2> HIDE DEF n
  <2> QED
    BY <2>1, <2>2
<1> QED
  BY <1>1, <1>2, <1>3, <1>4 DEF Program

LEMMA FileInvStarts == Init => FileInv
<1> SUFFICES ASSUME Init PROVE FileInv
  OBVIOUS
<1>1. Uf2Init
  BY DEF Init
<1>2. Uf2TypeOK
  BY <1>1, Uf2Assumption DEF Uf2Init, Uf2TypeOK, Fresh, Idle, Nothing, Places
<1> QED
  BY <1>1, <1>2, Uf2Assumption
  DEF Answers, Uf2Init, FileInv, HasFile, Accepted, Untouched, Silent, InOrder, RomCounts, FlashContract,
      Early, Going, Writes, Late, Idle, Nothing, Fresh

(* The target comes, goes and jumps as it likes. *)
LEMMA TargetKeepsFile ==
  ASSUME FileInv, Pull \/ Session \/ Jumps \/ Plug PROVE FileInv'
<1> USE DEF FileInv
<1>1. UNCHANGED <<job, answer>> /\ did'.wrote = did.wrote /\ did'.stick = did.stick
      /\ did'.ran = did.ran
  BY DEF Pull, Session, Jumps, Plug, Uf2TypeOK
<1>2. did' = did \/ job.at = "touch"
  BY DEF Pull, Session, Jumps, Plug
<1>3. Uf2TypeOK'
  <2>1. CASE Pull
    BY <2>1, Uf2Assumption DEF Pull, Uf2TypeOK, Dead
  <2>2. CASE Session
    BY <2>2 DEF Session, Uf2TypeOK
  <2>3. CASE Jumps
    BY <2>3 DEF Jumps, Uf2TypeOK, Fresh
  <2>4. CASE Plug
    BY <2>4, Uf2Assumption DEF Plug, Uf2TypeOK, Fresh
  <2> QED
    BY <2>1, <2>2, <2>3, <2>4
<1>4. HasFile' /\ Accepted' /\ Silent' /\ InOrder'
  BY <1>1 DEF HasFile, Accepted, Silent, InOrder
<1>5. Untouched'
  BY <1>1, <1>2 DEF Untouched, Early
<1>6. RomCounts'
  <2>1. rom' = rom \/ (rom' = Fresh /\ job.at # "write")
    BY DEF Pull, Session, Jumps, Plug
  <2>2. job.at = "write" => port' \in {port, None}
    BY DEF Pull, Session, Jumps, Plug
  <2>3. CASE rom' = Fresh /\ job.at # "write"
    BY <1>1, <2>3 DEF RomCounts, Fresh
  <2>4. CASE rom' = rom
    BY <1>1, <2>2, <2>4, Uf2Assumption DEF RomCounts
  <2> QED
    BY <2>1, <2>3, <2>4
<1>7. FlashContract'
  <2>1. CASE did' = did
    BY <1>1, <2>1 DEF FlashContract
  <2>2. CASE job.at = "touch"
    <3>1. answer.status = None /\ ~job.only /\ job.file \in Files /\ Validate(job.file)
      BY <2>2 DEF Silent, Accepted, HasFile, Late, Early, Going, Writes
    <3>2. Program(job.file)
      BY <3>1, ValidFile
    <3> QED
      BY <1>1, <3>1, <3>2, Uf2Assumption DEF FlashContract, Answers
  <2> QED
    BY <1>2, <2>1, <2>2
<1> QED
  BY <1>3, <1>4, <1>5, <1>6, <1>7

(* A step of the handler that goes on and does nothing to the target. *)
LEMMA GoingKeepsFile ==
  ASSUME FileInv, UNCHANGED <<worldVars, did, answer>>, job.at # "idle",
         NEW to \in Places \ {"idle"}, Goes(to),
         to \in Early => job.at \in Early,
         to \in Going => job.at \in Early \cup Going,
         to \in Writes => job.at \in Going,
         to \in Late => Validate(job.file) /\ ~job.only,
         to \in Going /\ job.at \in Early => did = Nothing
  PROVE  FileInv'
<1> USE DEF FileInv
<1>1. /\ job'.at = to /\ job'.file = job.file /\ job'.only = job.only /\ job'.next = job.next
      /\ job' \in [at : Places, file : Files \cup {None}, only : BOOLEAN, next : Nat]
  BY DEF Goes, Uf2TypeOK
<1>2. UNCHANGED <<port, msc, changes, rom, did, answer>>
  BY DEF worldVars
<1>3. Uf2TypeOK' /\ HasFile' /\ Accepted'
  BY <1>1, <1>2 DEF Uf2TypeOK, HasFile, Accepted
<1>4. Untouched' /\ Silent'
  BY <1>1, <1>2 DEF Untouched, Silent, Early, Going, Writes
<1>5. InOrder'
  <2>1. to \in Late => Len(job.file.blocks) \in Nat \ {0}
    BY ValidFile DEF HasFile
  <2>2. job.at \in Early \cup Going /\ to \in Going \cup Writes => did.wrote = {} /\ job.next = 0
    <3>1. Nothing.wrote = {} /\ 0..0 - 1 = {}
      BY DEF Nothing
    <3>2. job.at \in Early \cup Going => job.next = 0
      BY DEF InOrder
    <3>3. job.at \in Going => did.wrote = 0..job.next - 1
      BY DEF InOrder
    <3>4. job.at \in Going => did.wrote = {}
      BY <3>1, <3>2, <3>3
    <3> QED
      BY <3>1, <3>2, <3>4
  <2>3. 0..0 - 1 = {}
    OBVIOUS
  <2>4. to \in Going \cup Writes => job.at \in Early \cup Going
    OBVIOUS
  <2>5. to \in Going \cup Writes => did'.wrote = 0..job'.next - 1
    BY <1>1, <1>2, <2>2, <2>3, <2>4
  <2>6. to \in Early \cup Going => job'.next = 0
    BY <1>1 DEF InOrder
  <2>7. to = "write" => job'.next < Len(job'.file.blocks)
    BY <1>1, <2>1, <2>2, <2>4 DEF Late, Writes
  <2> QED
    BY <1>1, <2>5, <2>6, <2>7 DEF InOrder
<1>6. RomCounts'
  BY <1>1, <1>2 DEF RomCounts, InOrder, Early, Going, Writes
<1>7. FlashContract'
  <2>1. to \in Late => Program(job.file)
    BY ValidFile DEF HasFile
  <2>2. to \notin Late => did = Nothing
    BY DEF Untouched, Late, Early, Going, Writes, Places
  <2> QED
    BY <1>1, <1>2, <2>1, <2>2 DEF FlashContract, Nothing
<1> QED
  BY <1>3, <1>4, <1>5, <1>6, <1>7

(* A step of the handler that ends the request, the file being at fault or *)
(* the target not ready: nothing was written.                              *)
LEMMA EndingKeepsFile ==
  ASSUME FileInv, UNCHANGED <<worldVars, did>>, NEW s \in Answers \ {"ok"},
         Ends(s), did = Nothing \/ s = "409", job.at # "idle"
  PROVE  FileInv'
<1> USE DEF FileInv
<1>1. UNCHANGED <<port, msc, changes, rom, did>> /\ job' = Idle
  BY DEF worldVars, Ends
<1>2. answer' = [status |-> s, file |-> job.file]
  BY DEF Ends, Says
<1>3. Uf2TypeOK' /\ HasFile'
  BY <1>1, <1>2 DEF Uf2TypeOK, HasFile, Idle, Places
<1>4. Accepted' /\ Untouched' /\ Silent' /\ InOrder' /\ RomCounts'
  BY <1>1 DEF Accepted, Untouched, Silent, InOrder, RomCounts, Idle, Early, Going, Writes, Late
<1>5. FlashContract'
  BY <1>1, <1>2 DEF FlashContract, Idle, Nothing
<1> QED
  BY <1>3, <1>4, <1>5

LEMMA RequestKeepsFile == ASSUME FileInv, Request PROVE FileInv'
<1> USE DEF FileInv
<1>1. PICK f \in Files, o \in BOOLEAN :
        job' = [at |-> "head", file |-> f, only |-> o, next |-> 0]
  BY DEF Request
<1>2. /\ did' = Nothing /\ answer' = [status |-> None, file |-> None]
      /\ UNCHANGED <<port, msc, changes, rom>>
  BY DEF Request, worldVars
<1>3. Uf2TypeOK' /\ HasFile'
  BY <1>1, <1>2 DEF Uf2TypeOK, HasFile, Places, Nothing
<1>4. Accepted' /\ Untouched' /\ Silent' /\ InOrder' /\ RomCounts'
  BY <1>1, <1>2 DEF Accepted, Untouched, Silent, InOrder, RomCounts, Early, Going, Writes, Late
<1>5. FlashContract'
  BY <1>1, <1>2, Uf2Assumption DEF FlashContract, Nothing, Answers
<1> QED
  BY <1>3, <1>4, <1>5

(* From the sectors on, an answer is prepared and the lamp goes out. *)
LEMMA AnsweringKeepsFile ==
  ASSUME FileInv, UNCHANGED <<worldVars, did>>, NEW s \in {"ok", "502"},
         Goes("unwarn"), Says(s), job.at \in {"check", "write"},
         s = "ok" => job.at = "write" /\ Last
  PROVE  FileInv'
<1> USE DEF FileInv
<1>1. /\ UNCHANGED <<port, msc, changes, rom, did>>
      /\ job' = [job EXCEPT !.at = "unwarn"]
      /\ answer' = [status |-> s, file |-> job.file]
  BY DEF worldVars, Goes, Says
<1>2. Uf2TypeOK' /\ HasFile'
  BY <1>1 DEF Uf2TypeOK, HasFile, Places, Answers
<1>3. job'.at = "unwarn" /\ job'.only = job.only /\ job'.file = job.file
  BY <1>1 DEF Uf2TypeOK
<1>4. Accepted' /\ Untouched' /\ Silent' /\ InOrder' /\ RomCounts'
  BY <1>1, <1>3 DEF Accepted, Untouched, Silent, InOrder, RomCounts, Early, Going, Writes, Late
<1>5. job.file \in Files /\ Program(job.file) /\ ~job.only /\ Len(job.file.blocks) \in Nat \ {0}
  BY ValidFile DEF HasFile, Accepted, Late, Going, Writes
<1>6. FlashContract'
  <2>1. CASE s = "502"
    BY <1>1, <1>3, <1>5, <2>1 DEF FlashContract
  <2>2. CASE s = "ok"
    <3> DEFINE n == Len(job.file.blocks)
    <3>1. did.wrote = 0..n - 2
      BY <1>5, <2>2 DEF InOrder, Last, Writes, Uf2TypeOK
    <3>2. n - 1 \notin did.wrote
      BY <1>5, <3>1
    <3> QED
      BY <1>1, <1>3, <1>5, <2>2, <3>1, <3>2 DEF FlashContract
  <2> QED
    BY <2>1, <2>2
<1> QED
  BY <1>2, <1>4, <1>6

LEMMA UnwarnKeepsFile == ASSUME FileInv, Unwarn PROVE FileInv'
<1> USE DEF FileInv
<1>1. UNCHANGED <<port, msc, changes, rom, did, answer>> /\ job' = Idle
  BY DEF Unwarn, worldVars
<1>2. Uf2TypeOK' /\ HasFile'
  BY <1>1 DEF Uf2TypeOK, HasFile, Idle, Places
<1>3. Accepted' /\ Untouched' /\ Silent' /\ InOrder' /\ RomCounts'
  BY <1>1 DEF Accepted, Untouched, Silent, InOrder, RomCounts, Idle, Early, Going, Writes, Late
<1>4. FlashContract'
  BY <1>1 DEF FlashContract, Idle
<1> QED
  BY <1>2, <1>3, <1>4

(* What the boot ROM has counted once it has taken the next block. *)
LEMMA RomTakesNext ==
  ASSUME FileInv, job.at = "write", NEW n, n = Len(job.file.blocks),
         NEW b, b = job.file.blocks[job.next + 1]
  PROVE  /\ n \in Nat \ {0} /\ job.next \in 0..n - 1 /\ RomTakes(b)
         /\ RomWith(b).of = n /\ RomWith(b).got \subseteq 0..n - 1
         /\ port = "rom" => 0..job.next \subseteq RomWith(b).got
         /\ port = "rom" /\ Last => RomStarts(b)
<1> USE DEF FileInv
<1>1. job.file \in Files /\ Validate(job.file)
  BY DEF HasFile, Accepted, Late, Writes
<1>2. n \in Nat \ {0} /\ job.next \in 0..n - 1
  BY <1>1, ValidFile DEF InOrder, Uf2TypeOK
<1>3. job.next + 1 \in 1..n
  BY <1>2
<1>4. RomTakes(b) /\ b.num = n /\ b.no = (job.next + 1) - 1
  BY <1>1, <1>3, ValidFile
<1>5. b.no = job.next
  BY <1>2, <1>4
<1>6. /\ RomWith(b).of = n
      /\ RomWith(b).got = {job.next} \cup IF rom.of = n THEN rom.got ELSE {}
  BY <1>4, <1>5 DEF RomWith
<1>7. RomWith(b).got \subseteq 0..n - 1
  BY <1>2, <1>6 DEF RomCounts
<1>8. ASSUME port = "rom" PROVE 0..job.next \subseteq RomWith(b).got
  <2>1. CASE job.next = 0
    BY <1>6, <2>1
  <2>2. CASE job.next > 0
    <3>1. rom.of = n /\ 0..job.next - 1 \subseteq rom.got
      BY <1>8, <2>2 DEF RomCounts
    <3>2. 0..job.next = {job.next} \cup 0..job.next - 1
      BY <1>2
    <3> QED
      BY <1>6, <3>1, <3>2
  <2> QED
    BY <1>2, <2>1, <2>2
<1>9. ASSUME port = "rom", Last PROVE RomStarts(b)
  <2>1. job.next = n - 1
    BY <1>2, <1>9 DEF Last
  <2>2. RomWith(b).got = 0..n - 1
    <3>1. 0..job.next \subseteq RomWith(b).got
      BY <1>8, <1>9
    <3>2. 0..n - 1 \subseteq RomWith(b).got
      BY <2>1, <3>1
    <3> QED
      BY <1>7, <3>2
  <2>3. Cardinality(0..n - 1) = n
    <3>1. 0 \in Int /\ n - 1 \in Int /\ ~(0 > n - 1) /\ (n - 1) - 0 + 1 = n
      BY <1>2
    <3>2. Cardinality(0..n - 1) = IF 0 > n - 1 THEN 0 ELSE (n - 1) - 0 + 1
      BY <3>1, FS_Interval, Zenon
    <3> QED
      BY <3>1, <3>2
  <2> QED
    BY <1>4, <2>2, <2>3 DEF RomStarts
<1> QED
  BY <1>2, <1>4, <1>6, <1>7, <1>8, <1>9

LEMMA SectorKeepsFile == ASSUME FileInv, SectorTaken PROVE FileInv'
<1> USE DEF FileInv
<1> DEFINE n == Len(job.file.blocks)
           b == job.file.blocks[job.next + 1]
           starts == port = "rom" /\ RomStarts(b)
<1>1. /\ n \in Nat \ {0} /\ job.next \in 0..n - 1
      /\ RomWith(b).of = n /\ RomWith(b).got \subseteq 0..n - 1
      /\ port = "rom" => 0..job.next \subseteq RomWith(b).got
      /\ port = "rom" /\ Last => RomStarts(b)
  BY RomTakesNext DEF SectorTaken
<1>2. job.at = "write" /\ job.file \in Files /\ ~job.only /\ Validate(job.file) /\ Program(job.file)
  BY ValidFile DEF SectorTaken, HasFile, Accepted, Late, Writes
<1>3. /\ did' = [did EXCEPT !.wrote = @ \cup {job.next}, !.ran = @ \/ starts,
                           !.stick = @ \/ port # "rom"]
      /\ rom' = (IF port = "rom" THEN RomWith(b) ELSE rom)
      /\ port' = (IF starts THEN "app" ELSE port) /\ msc' = (IF starts THEN Dead(msc) ELSE msc)
      /\ changes' = changes
      /\ Wrote \/ (starts /\ WriteFailed)
  BY DEF SectorTaken
<1>4. did'.wrote = 0..job.next /\ did'.jumped = did.jumped
      /\ did'.ran = (did.ran \/ starts) /\ did'.stick = (did.stick \/ port # "rom")
  <2>1. did.wrote = 0..job.next - 1
    BY <1>2 DEF InOrder, Writes
  <2>2. 0..job.next = (0..job.next - 1) \cup {job.next}
    BY <1>1
  <2>3. /\ did'.wrote = did.wrote \cup {job.next} /\ did'.jumped = did.jumped
        /\ did'.ran = (did.ran \/ starts) /\ did'.stick = (did.stick \/ port # "rom")
    BY <1>3 DEF Uf2TypeOK
  <2> QED
    BY <2>1, <2>2, <2>3
<1>5. /\ port' \in {port, "app"} /\ msc' \in {"closed", "open", "dead"}
      /\ rom' \in [of : Nat, got : SUBSET Nat] /\ rom'.got \subseteq 0..rom'.of - 1
      /\ did' \in [jumped : BOOLEAN, wrote : SUBSET Nat, stick : BOOLEAN, ran : BOOLEAN]
  <2>1. RomWith(b) \in [of : Nat, got : SUBSET Nat]
    <3>1. RomWith(b) = [of |-> b.num, got |-> {b.no} \cup IF rom.of = b.num THEN rom.got ELSE {}]
      BY <1>1, <1>2, RomTakesNext DEF RomWith
    <3>2. RomWith(b).got \subseteq Nat
      BY <1>1
    <3> QED
      BY <1>1, <3>1, <3>2
  <2> HIDE DEF b
  <2>2. (did.ran \/ starts) \in BOOLEAN /\ (did.stick \/ port # "rom") \in BOOLEAN
    BY DEF Uf2TypeOK
  <2>3. did.wrote \cup {job.next} \in SUBSET Nat
    BY DEF Uf2TypeOK
  <2> HIDE DEF starts
  <2>4. did' \in [jumped : BOOLEAN, wrote : SUBSET Nat, stick : BOOLEAN, ran : BOOLEAN]
    BY <1>3, <2>2, <2>3 DEF Uf2TypeOK
  <2>5. rom'.got \subseteq 0..rom'.of - 1
    BY <1>1, <1>3 DEF RomCounts
  <2> QED
    BY <1>3, <2>1, <2>4, <2>5 DEF Uf2TypeOK, Dead
<1> HIDE DEF b
<1>6. CASE WriteFailed \/ (Wrote /\ Last)
  <2>1. PICK s \in {"ok", "502"} : Goes("unwarn") /\ Says(s) /\ (s = "ok" => Last)
    BY <1>6 DEF WriteFailed, Wrote
  <2>2. /\ job' = [job EXCEPT !.at = "unwarn"]
        /\ answer' = [status |-> s, file |-> job.file]
    BY <2>1 DEF Goes, Says
  <2>3. job'.at = "unwarn" /\ job'.file = job.file /\ job'.only = job.only
    BY <2>2 DEF Uf2TypeOK
  <2>4. Uf2TypeOK' /\ HasFile'
    BY <1>2, <1>3, <1>5, <2>2, <2>3 DEF Uf2TypeOK, HasFile, Places, Answers
  <2>5. Accepted' /\ Untouched' /\ Silent' /\ InOrder' /\ RomCounts'
    BY <1>2, <1>5, <2>3 DEF Accepted, Untouched, Silent, InOrder, RomCounts, Early, Going, Writes, Late
  <2>6. ASSUME s = "ok" PROVE 0..n - 2 \subseteq did'.wrote /\ (did'.stick \/ did'.ran)
    <3>1. Last /\ job.next = n - 1
      BY <1>1, <2>1, <2>6 DEF Last
    <3>2. 0..n - 2 \subseteq 0..job.next
      BY <1>1, <3>1
    <3>3. port = "rom" => starts
      BY <1>1, <3>1
    <3> QED
      BY <1>4, <3>2, <3>3
  <2>7. FlashContract'
    BY <1>2, <2>2, <2>3, <2>6 DEF FlashContract
  <2> QED
    BY <2>4, <2>5, <2>7
<1>7. CASE Wrote /\ ~Last
  <2>1. job' = [job EXCEPT !.next = @ + 1] /\ answer' = answer
    BY <1>7 DEF Wrote
  <2>2. /\ job'.at = "write" /\ job'.file = job.file /\ job'.only = job.only
        /\ job'.next = job.next + 1
    BY <1>2, <2>1 DEF Uf2TypeOK
  <2>3. Uf2TypeOK' /\ HasFile'
    BY <1>2, <1>3, <1>5, <2>1, <2>2 DEF Uf2TypeOK, HasFile
  <2>4. Accepted' /\ Untouched' /\ Silent'
    BY <1>2, <2>1, <2>2 DEF Accepted, Untouched, Silent, Early, Going, Writes, Late
  <2>5. job'.next - 1 = job.next /\ job'.next < n
    BY <1>1, <1>7, <2>2 DEF Last
  <2>6. InOrder'
    BY <1>4, <2>2, <2>5 DEF InOrder, Early, Going, Writes
  <2>7. RomCounts'
    <3>1. port' = "rom" => port = "rom"
      BY <1>3
    <3>2. port' = "rom" => rom'.of = n /\ 0..job.next \subseteq rom'.got
      BY <1>1, <1>3, <3>1
    <3> QED
      BY <1>5, <2>2, <2>5, <3>2 DEF RomCounts
  <2>8. FlashContract'
    <3>1. answer.status = None
      BY <1>2 DEF Silent, Writes
    <3> QED
      BY <1>2, <2>1, <2>2, <3>1, Uf2Assumption DEF FlashContract, Answers
  <2> QED
    BY <2>3, <2>4, <2>6, <2>7, <2>8
<1> QED
  BY <1>3, <1>6, <1>7

LEMMA HandlerKeepsFile == ASSUME FileInv, HandleFlash PROVE FileInv'
<1> USE DEF FileInv
<1>1. CASE FirstBlock
  BY <1>1, GoingKeepsFile, EndingKeepsFile
  DEF FirstBlock, Untouched, Early, Going, Writes, Late, Places, Answers
<1>2. CASE Alloc
  BY <1>2, GoingKeepsFile, EndingKeepsFile
  DEF Alloc, Untouched, Early, Going, Writes, Late, Places, Answers
<1>3. CASE Breaks
  BY <1>3, EndingKeepsFile DEF Breaks, Untouched, Early, Answers
<1>4. CASE Check
  BY <1>4, GoingKeepsFile, EndingKeepsFile
  DEF Check, Untouched, Early, Going, Writes, Late, Places, Answers
<1>5. CASE Ready
  BY <1>5, GoingKeepsFile DEF Ready, Accepted, Early, Going, Writes, Late, Places
<1>6. CASE EnterBootsel
  BY <1>6, GoingKeepsFile, EndingKeepsFile
  DEF EnterBootsel, Accepted, Early, Going, Writes, Late, Places, Answers
<1>7. CASE FlashCheck
  BY <1>7, GoingKeepsFile, AnsweringKeepsFile
  DEF FlashCheck, Accepted, Early, Going, Writes, Late, Places
<1>8. CASE SectorLost
  BY <1>8, AnsweringKeepsFile DEF SectorLost, WriteFailed
<1> QED
  BY <1>1, <1>2, <1>3, <1>4, <1>5, <1>6, <1>7, <1>8, SectorKeepsFile DEF HandleFlash

LEMMA FileStep == FileInv /\ [Next]_vars => FileInv'
<1> SUFFICES ASSUME FileInv, Uf2Step PROVE FileInv'
  BY StepIsUf2Step
<1>1. CASE Warn
  BY <1>1, GoingKeepsFile DEF FileInv, Warn, Accepted, Early, Going, Writes, Late, Places
<1>2. CASE UNCHANGED uf2Vars
  BY <1>2 DEF uf2Vars, FileInv, Uf2TypeOK, HasFile, Accepted, Untouched, Silent, InOrder, RomCounts,
              FlashContract, Last
<1> QED
  BY <1>1, <1>2, TargetKeepsFile, RequestKeepsFile, UnwarnKeepsFile, HandlerKeepsFile DEF Uf2Step

(* docs/protocol.md:170-177, for every file and every target: it is touched *)
(* and written only for a file that is a program from end to end and was    *)
(* not sent to be checked only; and 200 says that every block was taken but *)
(* perhaps the last, and that a boot ROM which took that one has started.   *)
THEOREM FlashAnswersRight == Spec => []FlashContract
<1>1. FileInv => FlashContract
  BY DEF FileInv
<1> QED
  BY <1>1, FileInvStarts, FileStep, PTL DEF Spec

(* --------------------- /api/ch32: the CH32V003 target ------------------- *)

(* The places of a link that belong to one kind of request, and those at    *)
(* which pages are being written.                                           *)
Opening32 == {"begin", "halt", "probe"}
Unlocking == {"unlock", "keys", "verify"}
Paging    == {"erase", "buffer", "program"}

PlaceFits ==
  /\ link.at \in {"body"} \cup Unlocking \cup Paging => link.want = "flash"
  /\ link.at \in Words => link.want = "identify"
  /\ link.at = "run" => link.want = "run"
  /\ link.want # "flash" => link.image = NoImage
  /\ link.at \in Unlocking \cup Paging => link.image.size > 0
  /\ link.at \in Opening32 /\ link.want = "flash" => link.image.size > 0

NoAnswer == link.at # "idle" => result.status = "none"

(* The two agree on a part of the scratchpad that is really there. *)
Agreed == link.scratch \in DEFAULT_SCRATCHPAD..chip.scratch

(* Until the first page nothing in the flash has changed. *)
NotYet ==
  link.at \notin {"idle"} \cup Paging =>
    /\ chip.flash = OldFlash /\ link.written = 0
    /\ link.at = "verify" => ~chip.locked \/ Lost("keys", 1)

(* The pages that may be wrong. *)
Doubted == {k \in Nat : InDoubt(k)}
Losable == [at : LinkPlaces, page : Nat]

Fitting(i) == i.page + PagesOf(i.size) <= ChipPages

(* The flash while the pages up to byte w are complete, the next one holds *)
(* x, and those of D may hold anything.                                     *)
FlashIs(fl, D, i, w, x) ==
  \A p \in 0..ChipPages - 1 :
    /\ p \in i.page..i.page + w \div SECTOR_SIZE - 1 =>
         fl[p] = p - i.page + 1 \/ p - i.page + 1 \in D
    /\ p = i.page + w \div SECTOR_SIZE => fl[p] = x \/ w \div SECTOR_SIZE + 1 \in D
    /\ p \notin i.page..i.page + w \div SECTOR_SIZE => fl[p] = Old

PageByPage ==
  link.at \in Paging =>
    /\ link.written % SECTOR_SIZE = 0 /\ link.written < link.image.size
    /\ chip.locked => LockInDoubt
    /\ link.at = "program" => chip.clean \/ link.written \div SECTOR_SIZE + 1 \in Doubted
    /\ Fitting(link.image) =>
         FlashIs(chip.flash, Doubted, link.image, link.written,
                 IF link.at = "erase" THEN Old ELSE Blank)

ChipInv == /\ ChipTypeOK /\ PlaceFits /\ NoAnswer /\ Agreed /\ NotYet /\ PageByPage
           /\ Ch32Contract

(* What a step may do to the part that flashes a CH32V003. *)
ChipStep == Ch32Request \/ HandleCh32 \/ Leave \/ Arrive \/ UNCHANGED chipVars

LEMMA StepIsChipStep == [Next]_vars => ChipStep
BY DEF Next, vars, ChipStep, Uf2Arrives, Ch32Arrives, LedArrives, TrimArrives, Httpd, Uf2Goes, Indicate,
       Indicated, Ch32Goes, LedGoes, Supervisor, Renderer, Gauge, Targets

(* B003Link::writeFlash64: how many pages there are up to a byte. *)
LEMMA Pages ==
  ASSUME NEW n \in Nat, NEW size \in Nat, n % SECTOR_SIZE = 0, n < size
  PROVE  /\ PagesOf(n) = n \div SECTOR_SIZE /\ n \div SECTOR_SIZE \in Nat
         /\ n \div SECTOR_SIZE < PagesOf(size)
         /\ size - n <= SECTOR_SIZE => PagesOf(size) = n \div SECTOR_SIZE + 1
         /\ (n + SECTOR_SIZE) % SECTOR_SIZE = 0
         /\ (n + SECTOR_SIZE) \div SECTOR_SIZE = n \div SECTOR_SIZE + 1
BY DEF SECTOR_SIZE, PagesOf

LEMMA NoPages == PagesOf(0) = 0 /\ 0 % SECTOR_SIZE = 0 /\ 0 \div SECTOR_SIZE = 0
BY DEF SECTOR_SIZE, PagesOf

(* What a command can do, whether or not anybody answers it. *)
LEMMA CommandTried ==
  ASSUME ChipTypeOK, link.at \in LinkPlaces, link.written \in Nat, NEW c, NEW new
  PROVE  /\ Done(c, new) \/ Failed(c, new) => /\ chip' \in {chip, new} /\ lost \subseteq lost'
                                              /\ lost' \in SUBSET Losable
         /\ Done(c, new) => (chip' = new /\ lost' = lost) \/ Here \in lost'
         /\ Failed(c, new) => lost' = lost
<1>1. Here \in Losable
  BY DEF Here, Losable, SECTOR_SIZE
<1> QED
  BY <1>1 DEF Done, Failed, Acknowledged, Unacknowledged, MayRun, ChipTypeOK, Losable

(* Nobody doubts less for one more loss. *)
LEMMA DoubtsGrow ==
  ASSUME lost \subseteq lost'
  PROVE  Doubted \subseteq Doubted' /\ (LockInDoubt => LockInDoubt')
BY DEF Doubted, InDoubt, LockInDoubt, Lost

LEMMA AllDoubted == ASSUME LockInDoubt PROVE Nat \subseteq Doubted
BY DEF Doubted, InDoubt

(* The page in work. *)
LEMMA HereDoubted ==
  ASSUME link.at \in Paging, link.written \in Nat, link.written \div SECTOR_SIZE \in Nat, Here \in lost'
  PROVE  link.written \div SECTOR_SIZE + 1 \in Doubted'
BY DEF Here, Doubted, InDoubt, Lost, Paging

ChipStates == [at : {"boot", "app", "gone"}, scratch : Scratchpads, locked : BOOLEAN,
          clean : BOOLEAN, flash : [0..ChipPages - 1 -> Int]]

(* What the three routines of a page do to the chip. *)
LEMMA PageRoutines ==
  ASSUME NEW c \in ChipStates, NEW p \in Nat, NEW x \in Int
  PROVE  /\ WithPage(c, p, x) \in ChipStates
         /\ WithPage(c, p, x).scratch = c.scratch /\ WithPage(c, p, x).locked = c.locked
         /\ \A q \in 0..ChipPages - 1 :
              /\ q # p => WithPage(c, p, x).flash[q] = c.flash[q]
              /\ q = p /\ ~c.locked => WithPage(c, p, x).flash[q] = x
         /\ Cleaned(c) \in ChipStates /\ Cleaned(c).clean /\ Cleaned(c).scratch = c.scratch
         /\ Cleaned(c).locked = c.locked /\ Cleaned(c).flash = c.flash
         /\ Unlocked(c) \in ChipStates /\ ~Unlocked(c).locked /\ Unlocked(c).scratch = c.scratch
         /\ Unlocked(c).flash = c.flash
<1>1. CASE p \in 0..ChipPages - 1 /\ ~c.locked
  <2> DEFINE new == [c.flash EXCEPT ![p] = x]
  <2>1. WithPage(c, p, x) = [c EXCEPT !.flash = new]
    BY <1>1 DEF WithPage
  <2>2. /\ new \in [0..ChipPages - 1 -> Int]
        /\ \A q \in 0..ChipPages - 1 : new[q] = IF q = p THEN x ELSE c.flash[q]
    BY DEF ChipStates
  <2> HIDE DEF new
  <2>3. /\ WithPage(c, p, x) \in ChipStates /\ WithPage(c, p, x).flash = new
        /\ WithPage(c, p, x).scratch = c.scratch /\ WithPage(c, p, x).locked = c.locked
    BY <2>1, <2>2 DEF ChipStates
  <2> QED
    BY <2>2, <2>3 DEF ChipStates, Cleaned, Unlocked
<1>2. CASE ~(p \in 0..ChipPages - 1 /\ ~c.locked)
  <2>1. WithPage(c, p, x) = c
    BY <1>2 DEF WithPage
  <2> QED
    BY <1>2, <2>1 DEF ChipStates, Cleaned, Unlocked
<1> QED
  BY <1>1, <1>2

(* What Ch32Contract asks of an answer. *)
Right(s, i, w, fl, D) == Fitting(i) =>
  /\ s = "ok" => w = i.size
  /\ s \in {"ok", "502"} => \A k \in 1..PagesOf(w) : fl[i.page + k - 1] = k \/ k \in D
  /\ \A p \in 0..ChipPages - 1 : fl[p] # Old =>
       /\ s \in {"ok", "502"}
       /\ p \in i.page..i.page + PagesOf(w)
       /\ s = "ok" => p < i.page + PagesOf(w)

LEMMA OldIsRight ==
  ASSUME NEW s, NEW i, NEW D, s = "ok" => i.size = 0 PROVE Right(s, i, 0, OldFlash, D)
BY NoPages DEF Right, OldFlash

LEMMA PartIsRight ==
  ASSUME NEW i \in Images, NEW w \in Nat, w % SECTOR_SIZE = 0, w < i.size,
         NEW fl, NEW D, NEW x, Fitting(i) => FlashIs(fl, D, i, w, x)
  PROVE  Right("502", i, w, fl, D)
<1> SUFFICES ASSUME Fitting(i) PROVE Right("502", i, w, fl, D)
  BY DEF Right
<1> DEFINE j == w \div SECTOR_SIZE
<1>1. i.page \in Nat /\ i.size \in Nat /\ ChipPages \in Nat
  BY B003Assumption
<1>2. j \in Nat /\ PagesOf(w) = j /\ j < PagesOf(i.size) /\ PagesOf(i.size) \in Int
  BY <1>1, Pages DEF PagesOf, SECTOR_SIZE
<1>3. i.page + j < ChipPages
  BY <1>1, <1>2 DEF Fitting
<1>4. \A p \in 0..ChipPages - 1 :
        /\ p \in i.page..i.page + j - 1 => fl[p] = p - i.page + 1 \/ p - i.page + 1 \in D
        /\ p \notin i.page..i.page + j => fl[p] = Old
  BY DEF FlashIs
<1> HIDE DEF j
<1>5. \A k \in 1..j : fl[i.page + k - 1] = k \/ k \in D
  <2> TAKE k \in 1..j
  <2> DEFINE q == i.page + k - 1
  <2>1. q \in 0..ChipPages - 1 /\ q \in i.page..i.page + j - 1 /\ q - i.page + 1 = k
    <3>1. j \in Nat
      BY <1>2
    <3> QED
      BY <1>1, <1>3, <3>1
  <2> HIDE DEF q
  <2>2. fl[q] = k \/ k \in D
    BY <1>4, <2>1
  <2> QED
    BY <2>2 DEF q
<1>6. \A p \in 0..ChipPages - 1 : fl[p] # Old => p \in i.page..i.page + j
  BY <1>4
<1> QED
  BY <1>2, <1>5, <1>6 DEF Right

LEMMA WholeIsRight ==
  ASSUME NEW i \in Images, NEW w \in Nat, w % SECTOR_SIZE = 0, w < i.size,
         i.size - w <= SECTOR_SIZE, NEW fl, NEW D,
         Fitting(i) => FlashIs(fl, D, i, w, w \div SECTOR_SIZE + 1)
  PROVE  Right("ok", i, i.size, fl, D)
<1> SUFFICES ASSUME Fitting(i) PROVE Right("ok", i, i.size, fl, D)
  BY DEF Right
<1> DEFINE j == w \div SECTOR_SIZE
<1>1. i.page \in Nat /\ i.size \in Nat /\ ChipPages \in Nat
  BY B003Assumption
<1>2. j \in Nat /\ PagesOf(i.size) = j + 1
  BY <1>1, Pages
<1>3. i.page + j < ChipPages
  BY <1>1, <1>2 DEF Fitting
<1>4. \A p \in 0..ChipPages - 1 :
        /\ p \in i.page..i.page + j - 1 => fl[p] = p - i.page + 1 \/ p - i.page + 1 \in D
        /\ p = i.page + j => fl[p] = j + 1 \/ j + 1 \in D
        /\ p \notin i.page..i.page + j => fl[p] = Old
  BY DEF FlashIs
<1> HIDE DEF j
<1>5. \A k \in 1..j + 1 : fl[i.page + k - 1] = k \/ k \in D
  <2> TAKE k \in 1..j + 1
  <2>1. i.page + k - 1 \in 0..ChipPages - 1 /\ (i.page + k - 1) - i.page + 1 = k
        /\ (i.page + k - 1 \in i.page..i.page + j - 1 \/ i.page + k - 1 = i.page + j)
        /\ (i.page + k - 1 = i.page + j => k = j + 1)
    BY <1>1, <1>2, <1>3
  <2> QED
    BY <1>4, <2>1
<1>6. \A p \in 0..ChipPages - 1 : fl[p] # Old => p \in i.page..i.page + j
  BY <1>4
<1>7. \A p \in 0..ChipPages - 1 :
        fl[p] # Old => p \in i.page..i.page + (j + 1) /\ p < i.page + (j + 1)
  BY <1>1, <1>2, <1>6
<1> QED
  BY <1>2, <1>5, <1>7 DEF Right

(* --------------------------- step by step ------------------------------ *)

LEMMA ChipInvStarts == Init => ChipInv
<1> SUFFICES ASSUME Init PROVE ChipInv
  OBVIOUS
<1>1. /\ link = NoLink /\ lost = {} /\ result = NoResult
      /\ \E s \in Scratchpads : chip = [at |-> "gone", scratch |-> s, locked |-> TRUE,
                                       clean |-> FALSE, flash |-> OldFlash]
  BY DEF Init, ChipInit
<1>2. ChipTypeOK
  BY <1>1, B003Assumption
  DEF ChipTypeOK, NoLink, NoResult, NoImage, LinkPlaces, Wants, Words, OldFlash, Old, DEFAULT_SCRATCHPAD
<1>3. PlaceFits /\ NoAnswer /\ NotYet /\ PageByPage /\ Ch32Contract
  BY <1>1 DEF PlaceFits, NoAnswer, NotYet, PageByPage, Ch32Contract, NoLink, NoResult,
              Opening32, Unlocking, Paging, Words
<1>4. Agreed
  BY <1>1, B003Assumption DEF Agreed, NoLink, DEFAULT_SCRATCHPAD
<1> QED
  BY <1>2, <1>3, <1>4 DEF ChipInv

LEMMA ScratchIsThere ==
  ASSUME ChipTypeOK PROVE chip.scratch \in Nat /\ DEFAULT_SCRATCHPAD \in 1..chip.scratch
<1>1. chip.scratch \in Scratchpads
  BY DEF ChipTypeOK
<1>2. chip.scratch \in {n \in Nat : n >= DEFAULT_SCRATCHPAD}
  BY <1>1, B003Assumption
<1> QED
  BY <1>2 DEF DEFAULT_SCRATCHPAD

(* An answer ends the link. *)
LEMMA AnswerKeepsChip ==
  ASSUME ChipInv, lost' \in SUBSET Losable, chip' \in ChipStates, chip'.scratch = chip.scratch,
         NEW s \in {"ok", "400", "409", "413", "502"}, NEW w \in Nat,
         Answers32(s, w), Right(s, link.image, w, chip'.flash, Doubted')
  PROVE  ChipInv'
<1> USE DEF ChipInv
<1>1. /\ link' = NoLink
      /\ result' = [status |-> s, want |-> link.want, image |-> link.image, written |-> w]
  BY DEF Answers32
<1>2. ChipTypeOK'
  BY <1>1 DEF ChipTypeOK, ChipStates, Losable, NoLink, NoImage, LinkPlaces, Wants, DEFAULT_SCRATCHPAD
<1>3. PlaceFits' /\ NoAnswer' /\ NotYet' /\ PageByPage'
  BY <1>1 DEF PlaceFits, NoAnswer, NotYet, PageByPage, NoLink, Opening32, Unlocking, Paging, Words
<1>4. Agreed'
  BY <1>1, ScratchIsThere DEF Agreed, NoLink
<1>5. Ch32Contract'
  <2>1. Fitting(link.image) /\ s \in {"ok", "502"} =>
          \A k \in 1..PagesOf(w) : chip'.flash[link.image.page + k - 1] = k \/ InDoubt(k)'
    BY DEF Right, Doubted
  <2> QED
    BY <1>1, <2>1 DEF Right, Fitting, Ch32Contract, Holds
<1> QED
  BY <1>2, <1>3, <1>4, <1>5

(* The chip comes and goes; its flash stays. *)
LEMMA ComingKeepsChip == ASSUME ChipInv, Leave \/ Arrive PROVE ChipInv'
<1> USE DEF ChipInv
<1>1. UNCHANGED <<link, lost, result>> /\ chip' \in ChipStates
      /\ chip'.flash = chip.flash /\ chip'.scratch = chip.scratch
      /\ (link.at = "idle" \/ (chip'.locked = chip.locked /\ chip'.clean = chip.clean))
  <2>1. chip \in ChipStates
    BY DEF ChipTypeOK, ChipStates
  <2>2. CASE Leave
    BY <2>1, <2>2 DEF Leave, ChipStates
  <2>3. CASE Arrive
    BY <2>1, <2>3 DEF Arrive, ChipStates
  <2> QED
    BY <2>2, <2>3
<1>0. Doubted' = Doubted /\ LockInDoubt' = LockInDoubt /\ \A k : InDoubt(k)' = InDoubt(k)
  BY <1>1 DEF Doubted, LockInDoubt, InDoubt, Lost
<1>2. ChipTypeOK'
  BY <1>1 DEF ChipTypeOK, ChipStates
<1>3. PlaceFits' /\ NoAnswer' /\ NotYet' /\ Agreed'
  BY <1>1 DEF PlaceFits, NoAnswer, NotYet, Agreed, Lost
<1>4. PageByPage'
  BY <1>1, <1>0 DEF PageByPage, Paging
<1>5. Ch32Contract'
  BY <1>1, <1>0 DEF Ch32Contract, Holds
<1> QED
  BY <1>2, <1>3, <1>4, <1>5

LEMMA RequestKeepsChip == ASSUME ChipInv, Ch32Request PROVE ChipInv'
<1> USE DEF ChipInv
<1>1. /\ chip' = [chip EXCEPT !.flash = OldFlash] /\ result' = NoResult /\ lost' = {}
      /\ \/ \E i \in Images : link' = [NoLink EXCEPT !.at = "body", !.image = i]
         \/ link' = [NoLink EXCEPT !.at = "begin", !.want = "identify"]
         \/ link' = [NoLink EXCEPT !.at = "begin", !.want = "run"]
  BY DEF Ch32Request
<1>2. PICK at \in {"body", "begin"}, want \in Wants, i \in Images \cup {NoImage} :
        /\ link' = [at |-> at, want |-> want, image |-> i,
                    scratch |-> DEFAULT_SCRATCHPAD, written |-> 0]
        /\ at = "body" => want = "flash"
        /\ at = "begin" => want # "flash" /\ i = NoImage
  BY <1>1 DEF NoLink, Wants
<1>3. chip' \in ChipStates /\ chip'.flash = OldFlash /\ chip'.scratch = chip.scratch
  <2>1. OldFlash \in [0..ChipPages - 1 -> Int]
    BY DEF OldFlash, Old
  <2> QED
    BY <1>1, <2>1 DEF ChipTypeOK, ChipStates
<1>4. ChipTypeOK'
  BY <1>1, <1>2, <1>3
  DEF ChipTypeOK, ChipStates, NoResult, NoImage, LinkPlaces, Wants, Words, DEFAULT_SCRATCHPAD
<1>5. PlaceFits' /\ NoAnswer' /\ NotYet' /\ PageByPage' /\ Ch32Contract'
  BY <1>1, <1>2, <1>3 DEF PlaceFits, NoAnswer, NotYet, PageByPage, Ch32Contract, NoResult,
              Opening32, Unlocking, Paging, Words
<1>6. Agreed'
  BY <1>2, <1>3, ScratchIsThere DEF Agreed
<1> QED
  BY <1>4, <1>5, <1>6

(* A step that leaves the flash as it was. *)
LEMMA OpeningKeepsChip ==
  ASSUME ChipInv, lost' \in SUBSET Losable, result' = result, chip' \in ChipStates,
         chip'.scratch = chip.scratch, chip'.flash = chip.flash,
         link.at \notin {"idle"} \cup Paging,
         NEW to \in LinkPlaces \ {"idle"}, to \notin Paging,
         NEW scratch \in DEFAULT_SCRATCHPAD..chip.scratch,
         link' = [link EXCEPT !.at = to, !.scratch = scratch],
         to = "verify" => ~chip'.locked \/ Lost("keys", 1)',
         to \in {"body"} \cup Unlocking => link.want = "flash" /\ link.image.size > 0,
         to \in Words => link.want = "identify",
         to = "run" => link.want = "run",
         to \in Opening32 /\ link.want = "flash" => link.image.size > 0
  PROVE  ChipInv'
<1> USE DEF ChipInv
<1>1. /\ link'.at = to /\ link'.want = link.want /\ link'.image = link.image
      /\ link'.scratch = scratch /\ link'.written = link.written
      /\ link' \in [at : LinkPlaces, want : Wants, image : Images \cup {NoImage},
                    scratch : Nat, written : Nat]
  <2>1. scratch \in Nat
    BY ScratchIsThere DEF DEFAULT_SCRATCHPAD
  <2> QED
    BY <2>1 DEF ChipTypeOK
<1>2. ChipTypeOK'
  BY <1>1 DEF ChipTypeOK, ChipStates, Losable
<1>3. PlaceFits' /\ NoAnswer' /\ NotYet' /\ Agreed' /\ PageByPage'
  BY <1>1 DEF PlaceFits, NoAnswer, NotYet, Agreed, PageByPage
<1>4. Ch32Contract'
  BY DEF NoAnswer, Ch32Contract
<1> QED
  BY <1>2, <1>3, <1>4

(* An answer before the first page. *)
LEMMA EarlyAnswer ==
  ASSUME ChipInv, lost' \in SUBSET Losable, chip' \in ChipStates,
         chip'.scratch = chip.scratch, chip'.flash = chip.flash,
         link.at \notin {"idle"} \cup Paging,
         NEW s \in {"ok", "400", "409", "413", "502"}, NEW w, w = link.written,
         Answers32(s, w), s = "ok" => link.image.size = 0
  PROVE  ChipInv'
<1>1. w = 0 /\ chip'.flash = OldFlash
  BY DEF ChipInv, NotYet
<1>2. Right(s, link.image, w, chip'.flash, Doubted')
  BY <1>1, OldIsRight
<1> QED
  BY <1>1, <1>2, AnswerKeepsChip

LEMMA GoingKeepsChip ==
  ASSUME ChipInv, lost' \in SUBSET Losable, chip' \in ChipStates,
         chip'.scratch = chip.scratch, chip'.flash = chip.flash,
         link.at \notin {"idle"} \cup Paging,
         NEW to \in Opening32 \cup Unlocking, Goes32(to),
         to \in Unlocking => link.want = "flash",
         to = "verify" => ~chip'.locked \/ Lost("keys", 1)',
         link.want = "flash" => link.image.size > 0
  PROVE  ChipInv'
<1>1. link' = [link EXCEPT !.at = to, !.scratch = link.scratch]
  BY DEF ChipInv, ChipTypeOK, Goes32
<1>2. link.scratch \in DEFAULT_SCRATCHPAD..chip.scratch
  BY DEF ChipInv, Agreed
<1>3. to \in LinkPlaces \ {"idle"} /\ to \notin Paging /\ to \notin Words /\ to # "run" /\ to # "body"
  BY DEF Opening32, Unlocking, Paging, Words, LinkPlaces
<1> QED
  BY <1>1, <1>2, <1>3, OpeningKeepsChip DEF Goes32

(* The next steps before the first page, one after the other. *)
LEMMA OpenStepKeepsChip ==
  ASSUME ChipInv,
         Body \/ Begin \/ Halt \/ Probe \/ Keys
  PROVE  ChipInv'
<1> USE DEF ChipInv
<1>1. /\ chip \in ChipStates /\ link.written \in Nat /\ link.at \in LinkPlaces
      /\ lost \in SUBSET Losable
  BY DEF ChipTypeOK, ChipStates, Losable
<1>4. CASE Body
  <2>1. chip' = chip /\ lost' = lost /\ link.at = "body" /\ link.want = "flash"
    BY <1>4 DEF Body, PlaceFits
  <2>2. CASE \E s \in {"400", "413"} : Ends32(s)
    BY <1>1, <2>1, <2>2, EarlyAnswer DEF Ends32, Paging
  <2>3. CASE link.image.size \in 1..MAX_IMAGE /\ Goes32("begin")
    BY <1>1, <2>1, <2>3, GoingKeepsChip
    DEF Paging, Unlocking, Opening32, Words, LinkPlaces
  <2> QED
    BY <1>4, <2>2, <2>3 DEF Body
<1>5. CASE Begin
  <2>1. chip' = chip /\ lost' = lost /\ link.at = "begin"
    BY <1>5 DEF Begin
  <2>2. CASE NotBegun
    BY <1>1, <2>1, <2>2, EarlyAnswer DEF NotBegun, Ends32, Paging
  <2>3. CASE Goes32("halt")
    BY <1>1, <2>1, <2>3, GoingKeepsChip
    DEF PlaceFits, Paging, Unlocking, Opening32, Words, LinkPlaces
  <2> QED
    BY <1>5, <2>2, <2>3 DEF Begin
<1>6. CASE Halt
  <2>1. chip' = chip /\ lost' \in SUBSET Losable /\ link.at = "halt"
    BY <1>1, <1>6, CommandTried DEF Halt
  <2>2. CASE NotBegun
    BY <1>1, <2>1, <2>2, EarlyAnswer DEF NotBegun, Ends32, Paging
  <2>3. CASE Goes32("probe")
    BY <1>1, <2>1, <2>3, GoingKeepsChip
    DEF PlaceFits, Paging, Unlocking, Opening32, Words, LinkPlaces
  <2> QED
    BY <1>6, <2>2, <2>3 DEF Halt
<1>7. CASE Probe
  <2> DEFINE to == FirstOf[link.want]
  <2>1. /\ chip' = chip /\ lost' = lost /\ result' = result /\ link.at = "probe"
        /\ \E n \in Negotiated : link' = [link EXCEPT !.at = to, !.scratch = n]
    BY <1>7 DEF Probe
  <2>2. PICK n \in Negotiated : link' = [link EXCEPT !.at = to, !.scratch = n]
    BY <2>1
  <2>3. n \in DEFAULT_SCRATCHPAD..chip.scratch
    BY ScratchIsThere DEF Negotiated, DEFAULT_SCRATCHPAD
  <2>5. link.want \in Wants
    BY DEF ChipTypeOK
  <2>6. /\ link.want = "flash" => to = "unlock" /\ link.image.size > 0
        /\ link.want = "identify" => to = "obr"
        /\ link.want = "run" => to = "run"
    BY <2>1 DEF FirstOf, PlaceFits, Opening32
  <2> HIDE DEF to
  <2> QED
    BY <1>1, <2>1, <2>2, <2>3, <2>5, <2>6, OpeningKeepsChip
    DEF Wants, Paging, Unlocking, Opening32, Words, LinkPlaces
<1>8. CASE Keys
  <2>1. /\ Unlocked(chip) \in ChipStates /\ Unlocked(chip).scratch = chip.scratch
        /\ Unlocked(chip).flash = chip.flash /\ ~Unlocked(chip).locked
    BY <1>1, PageRoutines DEF Old
  <2>2. /\ chip' \in {chip, Unlocked(chip)} /\ lost' \in SUBSET Losable
        /\ link.at = "keys" /\ link.want = "flash" /\ link.image.size > 0
    BY <1>1, <1>8, CommandTried DEF Keys, PlaceFits, Unlocking
  <2>3. CASE Ends32("502")
    BY <1>1, <2>1, <2>2, <2>3, EarlyAnswer DEF Ends32, Paging
  <2>4. CASE Done(WriteCmd, Unlocked(chip)) /\ Goes32("verify")
    <3>1. link.written = 0
      BY <2>2 DEF NotYet, Paging
    <3>2. Here \in lost' => Lost("keys", 1)'
      BY <2>2, <3>1, NoPages DEF Here, Lost
    <3>3. ~chip'.locked \/ Lost("keys", 1)'
      BY <1>1, <2>1, <2>4, <3>2, CommandTried
    <3> QED
      BY <1>1, <2>1, <2>2, <2>4, <3>3, GoingKeepsChip
      DEF Paging, Unlocking, Opening32, Words, LinkPlaces
  <2> QED
    BY <1>8, <2>3, <2>4 DEF Keys
<1> QED
  BY <1>4, <1>5, <1>6, <1>7, <1>8

(* Pages are only written once the lock has been seen to be off, unless     *)
(* nobody answered when it was looked for.                                  *)
LEMMA PagingBegins ==
  ASSUME ChipInv, link.at \in {"unlock", "verify"}, lost' \in SUBSET Losable,
         chip.locked => LockInDoubt', chip' = chip, Goes32("erase")
  PROVE  ChipInv'
<1> USE DEF ChipInv
<1>1. /\ link'.at = "erase" /\ link'.want = link.want /\ link'.image = link.image
      /\ link'.scratch = link.scratch /\ link'.written = 0 /\ result' = result
      /\ link' = [link EXCEPT !.at = "erase"]
  BY DEF Goes32, ChipTypeOK, NotYet, Paging
<1>2. link.want = "flash" /\ link.image.size > 0 /\ chip.flash = OldFlash
  BY DEF PlaceFits, NotYet, Unlocking, Paging
<1>3. link.image \in Images /\ link.image.page \in Nat /\ link.image.size \in Nat
  BY <1>2, B003Assumption DEF ChipTypeOK, NoImage
<1>4. ChipTypeOK'
  BY <1>1 DEF ChipTypeOK, LinkPlaces, Losable
<1>5. PlaceFits' /\ NoAnswer' /\ NotYet' /\ Agreed'
  BY <1>1, <1>2 DEF PlaceFits, NoAnswer, NotYet, Agreed, Opening32, Unlocking, Paging, Words
<1>6. FlashIs(chip.flash, Doubted', link.image, 0, Old)
  <2>1. \A p \in 0..ChipPages - 1 : chip.flash[p] = Old
    BY <1>2 DEF OldFlash
  <2>2. \A p : p \notin link.image.page..link.image.page + 0 - 1
    BY <1>3
  <2> QED
    BY <2>1, <2>2, NoPages DEF FlashIs
<1>7. PageByPage'
  BY <1>1, <1>2, <1>6, NoPages DEF PageByPage
<1>8. Ch32Contract'
  BY <1>1 DEF NoAnswer, Ch32Contract
<1> QED
  BY <1>4, <1>5, <1>7, <1>8

LEMMA UnlockKeepsChip == ASSUME ChipInv, Unlock \/ Verify PROVE ChipInv'
<1>1. /\ chip \in ChipStates /\ link.written \in Nat /\ lost \in SUBSET Losable
      /\ link.at \in {"unlock", "verify"} /\ link.at \in LinkPlaces
      /\ link.want = "flash" /\ link.image.size > 0 /\ ChipTypeOK
  BY DEF ChipInv, ChipTypeOK, ChipStates, PlaceFits, Unlock, Verify, Unlocking, Losable, LinkPlaces
<1>2. chip' = chip /\ lost' \in SUBSET Losable /\ lost \subseteq lost'
  <2>1. \A b : Reads(b) => Done(ReadCmd, chip)
    BY DEF Reads, Done
  <2>2. CASE Done(ReadCmd, chip) \/ Failed(ReadCmd, chip)
    BY <1>1, <2>2, CommandTried
  <2>3. CASE UNCHANGED <<chip, lost>>
    BY <1>1, <2>3
  <2> QED
    BY <2>1, <2>2, <2>3 DEF Unlock, Verify
<1>3. CASE Ends32("502")
  BY <1>1, <1>2, <1>3, EarlyAnswer DEF Ends32, Paging
<1>4. CASE Goes32("keys")
  BY <1>1, <1>2, <1>4, GoingKeepsChip DEF Paging, Unlocking, Opening32
<1>5. CASE Reads(FALSE) /\ Goes32("erase")
  <2>1. ASSUME chip.locked PROVE LockInDoubt'
    <3>1. Here \in lost'
      BY <1>5, <2>1 DEF Reads, Acknowledged, Unacknowledged
    <3>2. Here = [at |-> link.at, page |-> 1]
      <4>1. link.written = 0
        BY <1>1 DEF ChipInv, NotYet, Paging
      <4> QED
        BY <4>1, NoPages DEF Here
    <3>3. link.at = "verify" => Lost("keys", 1)'
      BY <1>1, <1>2, <2>1 DEF ChipInv, NotYet, Paging, Lost
    <3> QED
      BY <1>1, <3>1, <3>2, <3>3 DEF LockInDoubt, Lost
  <2> QED
    BY <1>1, <1>2, <1>5, <2>1, PagingBegins
<1> QED
  BY <1>3, <1>4, <1>5 DEF Unlock, Verify

(* What is known while pages are written. *)
LEMMA PagingKnown ==
  ASSUME ChipInv, link.at \in Paging
  PROVE  /\ link.image \in Images /\ link.image.page \in Nat /\ link.image.size \in Nat
         /\ link.written \in Nat /\ link.written % SECTOR_SIZE = 0
         /\ link.written < link.image.size
         /\ link.written \div SECTOR_SIZE \in Nat
         /\ PageOf(link.image, link.written) = link.image.page + link.written \div SECTOR_SIZE
         /\ PageOf(link.image, link.written) \in Nat
         /\ Fitting(link.image) => PageOf(link.image, link.written) \in 0..ChipPages - 1
         /\ chip \in ChipStates /\ ChipTypeOK /\ link.at \in LinkPlaces
         /\ chip.locked => link.written \div SECTOR_SIZE + 1 \in Doubted
<1> USE DEF ChipInv
<1>1. /\ chip \in ChipStates /\ link.written \in Nat /\ link.at \in LinkPlaces
      /\ link.written % SECTOR_SIZE = 0 /\ link.written < link.image.size /\ link.image.size > 0
  BY DEF ChipTypeOK, ChipStates, PageByPage, PlaceFits
<1>2. link.image \in Images /\ link.image.page \in Nat /\ link.image.size \in Nat
  BY <1>1, B003Assumption DEF ChipTypeOK, NoImage
<1>3. link.written \div SECTOR_SIZE \in Nat /\ link.written \div SECTOR_SIZE < PagesOf(link.image.size)
  BY <1>1, <1>2, Pages
<1>4. PageOf(link.image, link.written) = link.image.page + link.written \div SECTOR_SIZE
  BY DEF PageOf
<1>5. PagesOf(link.image.size) \in Int /\ ChipPages \in Nat
  BY <1>2, B003Assumption DEF PagesOf, SECTOR_SIZE
<1>6. chip.locked => link.written \div SECTOR_SIZE + 1 \in Doubted
  BY <1>3, AllDoubted DEF PageByPage
<1> QED
  BY <1>1, <1>2, <1>3, <1>4, <1>5, <1>6 DEF Fitting

(* Only the page that is being written changes. *)
LEMMA PageChanges ==
  ASSUME NEW fl, NEW D, NEW i, NEW w, NEW x, NEW y, NEW fl2, NEW E, FlashIs(fl, D, i, w, x),
         D \subseteq E, i.page \in Nat, w \div SECTOR_SIZE \in Nat,
         \A p \in 0..ChipPages - 1 :
           /\ p # i.page + w \div SECTOR_SIZE => fl2[p] = fl[p]
           /\ p = i.page + w \div SECTOR_SIZE => fl2[p] = y \/ w \div SECTOR_SIZE + 1 \in E
  PROVE  FlashIs(fl2, E, i, w, y)
<1> DEFINE j == w \div SECTOR_SIZE
<1>1. i.page + j \notin i.page..i.page + j - 1 /\ i.page + j \in i.page..i.page + j
  OBVIOUS
<1> QED
  BY <1>1 DEF FlashIs

(* A page that is complete counts as one more. *)
LEMMA PageCompletes ==
  ASSUME NEW fl, NEW D, NEW i, NEW w \in Nat, NEW size \in Nat, w % SECTOR_SIZE = 0, w < size,
         i.page \in Nat, FlashIs(fl, D, i, w, w \div SECTOR_SIZE + 1)
  PROVE  FlashIs(fl, D, i, w + SECTOR_SIZE, Old)
<1> DEFINE j == w \div SECTOR_SIZE
<1>1. j \in Nat /\ (w + SECTOR_SIZE) \div SECTOR_SIZE = j + 1
  BY Pages
<1>2. \A p \in 0..ChipPages - 1 :
        /\ p \in i.page..i.page + j - 1 => fl[p] = p - i.page + 1 \/ p - i.page + 1 \in D
        /\ p = i.page + j => fl[p] = j + 1 \/ j + 1 \in D
        /\ p \notin i.page..i.page + j => fl[p] = Old
  BY DEF FlashIs
<1> HIDE DEF j
<1>3. \A p \in 0..ChipPages - 1 :
        /\ p \in i.page..i.page + (j + 1) - 1 => fl[p] = p - i.page + 1 \/ p - i.page + 1 \in D
        /\ p \notin i.page..i.page + (j + 1) - 1 => fl[p] = Old
  <2> TAKE p \in 0..ChipPages - 1
  <2>1. p \in i.page..i.page + (j + 1) - 1 <=> p \in i.page..i.page + j - 1 \/ p = i.page + j
    BY <1>1
  <2>2. p = i.page + j => p - i.page + 1 = j + 1
    BY <1>1
  <2>3. p \in i.page..i.page + (j + 1) - 1 <=> p \in i.page..i.page + j
    BY <1>1
  <2> QED
    BY <1>2, <2>1, <2>2, <2>3
<1>4. \A p \in 0..ChipPages - 1 :
        /\ p = i.page + (j + 1) => p \notin i.page..i.page + (j + 1) - 1
        /\ p \notin i.page..i.page + (j + 1) => p \notin i.page..i.page + (j + 1) - 1
  BY <1>1
<1>5. \A p \in 0..ChipPages - 1 :
        /\ p \in i.page..i.page + (j + 1) - 1 => fl[p] = p - i.page + 1 \/ p - i.page + 1 \in D
        /\ p = i.page + (j + 1) => fl[p] = Old
        /\ p \notin i.page..i.page + (j + 1) => fl[p] = Old
  BY <1>3, <1>4
<1> QED
  BY <1>1, <1>5 DEF FlashIs

(* From one step of a page to the next. *)
LEMMA PageGoesOn ==
  ASSUME ChipInv, link.at \in Paging, lost' \in SUBSET Losable, lost \subseteq lost',
         result' = result,
         chip' \in ChipStates, chip'.scratch = chip.scratch, chip'.locked = chip.locked,
         NEW to \in Paging, NEW w \in Nat, w % SECTOR_SIZE = 0, w < link.image.size,
         link' = [link EXCEPT !.at = to, !.written = w],
         to = "program" => chip'.clean \/ w \div SECTOR_SIZE + 1 \in Doubted',
         Fitting(link.image) =>
           FlashIs(chip'.flash, Doubted', link.image, w, IF to = "erase" THEN Old ELSE Blank)
  PROVE  ChipInv'
<1> USE DEF ChipInv
<1>1. /\ link'.at = to /\ link'.want = link.want /\ link'.image = link.image
      /\ link'.scratch = link.scratch /\ link'.written = w
  BY DEF ChipTypeOK
<1>2. ChipTypeOK'
  BY <1>1 DEF ChipTypeOK, ChipStates, LinkPlaces, Paging, Losable
<1>3. PlaceFits' /\ NoAnswer' /\ NotYet' /\ Agreed'
  BY <1>1 DEF PlaceFits, NoAnswer, NotYet, Agreed, Opening32, Unlocking, Paging, Words
<1>4. PageByPage'
  BY <1>1, DoubtsGrow DEF PageByPage
<1>5. Ch32Contract'
  BY DEF NoAnswer, Paging, Ch32Contract
<1> QED
  BY <1>2, <1>3, <1>4, <1>5

(* A command of a page: it changes that page alone, and whoever goes on     *)
(* after it without having made the change has one more page in doubt.      *)
LEMMA PageCommand ==
  ASSUME ChipInv, link.at \in Paging, NEW c, NEW new \in ChipStates, new.scratch = chip.scratch,
         new.locked = chip.locked, NEW x, NEW y,
         Fitting(link.image) => FlashIs(chip.flash, Doubted, link.image, link.written, x),
         \A q \in 0..ChipPages - 1 :
           q # PageOf(link.image, link.written) => new.flash[q] = chip.flash[q],
         Fitting(link.image) => \/ new.flash[PageOf(link.image, link.written)] = y
                                \/ link.written \div SECTOR_SIZE + 1 \in Doubted
  PROVE  /\ Done(c, new) =>
              /\ chip' \in ChipStates /\ chip'.scratch = chip.scratch /\ chip'.locked = chip.locked
              /\ lost \subseteq lost' /\ lost' \in SUBSET Losable
              /\ chip' = new \/ link.written \div SECTOR_SIZE + 1 \in Doubted'
              /\ Fitting(link.image) =>
                   FlashIs(chip'.flash, Doubted', link.image, link.written, y)
         /\ Failed(c, new) /\ Ends32("502") => ChipInv'
<1> DEFINE i == link.image
           w == link.written
           k == w \div SECTOR_SIZE + 1
<1>1. /\ i \in Images /\ i.page \in Nat /\ w \in Nat /\ w % SECTOR_SIZE = 0 /\ w < i.size
      /\ w \div SECTOR_SIZE \in Nat /\ PageOf(i, w) = i.page + w \div SECTOR_SIZE
      /\ chip \in ChipStates /\ ChipTypeOK /\ link.at \in LinkPlaces
  BY PagingKnown
<1>2. ASSUME NEW E, Doubted \subseteq E, Fitting(i)
      PROVE  FlashIs(new.flash, E, i, w, y) /\ (k \in E => FlashIs(chip.flash, E, i, w, y))
  <2>1. \A p \in 0..ChipPages - 1 :
          /\ p # i.page + w \div SECTOR_SIZE => new.flash[p] = chip.flash[p]
          /\ p = i.page + w \div SECTOR_SIZE => new.flash[p] = y \/ k \in E
    BY <1>1, <1>2
  <2>2. FlashIs(chip.flash, Doubted, i, w, x)
    BY <1>2
  <2>3. FlashIs(new.flash, E, i, w, y)
    BY <1>1, <1>2, <2>1, <2>2, PageChanges
  <2>4. k \in E => FlashIs(chip.flash, E, i, w, y)
    BY <1>1, <1>2, <2>2, PageChanges
  <2> QED
    BY <2>3, <2>4
<1>3. ASSUME Done(c, new)
      PROVE  /\ chip' \in {chip, new} /\ lost \subseteq lost' /\ lost' \in SUBSET Losable
             /\ chip' = new \/ k \in Doubted'
             /\ Fitting(i) => FlashIs(chip'.flash, Doubted', i, w, y)
  <2>1. /\ chip' \in {chip, new} /\ lost \subseteq lost' /\ lost' \in SUBSET Losable
        /\ chip' = new \/ Here \in lost'
    BY <1>1, <1>3, CommandTried
  <2>2. chip' = new \/ k \in Doubted'
    BY <1>1, <2>1, HereDoubted
  <2>3. Doubted \subseteq Doubted'
    BY <2>1, DoubtsGrow
  <2>4. Fitting(i) => FlashIs(chip'.flash, Doubted', i, w, y)
    BY <1>2, <2>1, <2>2, <2>3
  <2> QED
    BY <2>1, <2>2, <2>4
<1>4. ASSUME Failed(c, new), Ends32("502") PROVE ChipInv'
  <2>1. /\ chip' \in {chip, new} /\ lost' = lost /\ lost' \in SUBSET Losable
    BY <1>1, <1>4, CommandTried
  <2>2. Doubted' = Doubted
    BY <2>1, DoubtsGrow DEF Doubted, InDoubt, LockInDoubt, Lost
  <2>3. Right("502", i, w, chip'.flash, Doubted')
    <3>1. CASE chip' = chip
      BY <1>1, <2>2, <3>1, PartIsRight
    <3>2. CASE chip' = new
      BY <1>1, <1>2, <2>2, <3>2, PartIsRight
    <3> QED
      BY <2>1, <3>1, <3>2
  <2>4. chip' \in ChipStates /\ chip'.scratch = chip.scratch
    BY <1>1, <2>1
  <2> QED
    BY <1>1, <1>4, <2>1, <2>3, <2>4, AnswerKeepsChip DEF Ends32
<1> QED
  BY <1>1, <1>3, <1>4

LEMMA EraseKeepsChip == ASSUME ChipInv, EraseBlock PROVE ChipInv'
<1> DEFINE i == link.image
           w == link.written
           new == Erased(chip, PageOf(i, w))
<1>1. link.at = "erase" /\ link.at \in Paging
  BY DEF EraseBlock, Paging
<1>2. Fitting(i) => FlashIs(chip.flash, Doubted, i, w, Old)
  BY <1>1 DEF ChipInv, PageByPage
<1>3. /\ new \in ChipStates /\ new.scratch = chip.scratch /\ new.locked = chip.locked
      /\ \A q \in 0..ChipPages - 1 :
           /\ q # PageOf(i, w) => new.flash[q] = chip.flash[q]
           /\ q = PageOf(i, w) /\ ~chip.locked => new.flash[q] = Blank
  <2>1. chip \in ChipStates /\ PageOf(i, w) \in Nat /\ Blank \in Int
    BY <1>1, PagingKnown DEF Blank
  <2> HIDE DEF i, w
  <2> QED
    BY <2>1, PageRoutines DEF Erased
<1>4. Fitting(i) => new.flash[PageOf(i, w)] = Blank \/ w \div SECTOR_SIZE + 1 \in Doubted
  BY <1>1, <1>3, PagingKnown
<1> HIDE DEF new
<1>5. CASE Done(EraseCmd, new) /\ Goes32("buffer")
  <2>1. link' = [link EXCEPT !.at = "buffer", !.written = w] /\ result' = result
    BY <1>5 DEF Goes32, ChipInv, ChipTypeOK
  <2>2. /\ chip' \in ChipStates /\ chip'.scratch = chip.scratch /\ chip'.locked = chip.locked
        /\ lost \subseteq lost' /\ lost' \in SUBSET Losable
        /\ Fitting(i) => FlashIs(chip'.flash, Doubted', i, w, Blank)
    BY <1>1, <1>2, <1>3, <1>4, <1>5, PageCommand
  <2> QED
    BY <1>1, <2>1, <2>2, PagingKnown, PageGoesOn DEF Paging
<1>6. CASE Failed(EraseCmd, new) /\ Ends32("502")
  BY <1>1, <1>2, <1>3, <1>4, <1>6, PageCommand
<1> QED
  BY <1>5, <1>6 DEF EraseBlock, new

LEMMA BufferKeepsChip == ASSUME ChipInv, ResetBuffer PROVE ChipInv'
<1> DEFINE i == link.image
           w == link.written
           new == Cleaned(chip)
<1>1. link.at = "buffer" /\ link.at \in Paging
  BY DEF ResetBuffer, Paging
<1>2. Fitting(i) => FlashIs(chip.flash, Doubted, i, w, Blank)
  BY <1>1 DEF ChipInv, PageByPage
<1>3. /\ new \in ChipStates /\ new.scratch = chip.scratch /\ new.locked = chip.locked /\ new.clean
      /\ new.flash = chip.flash
  BY <1>1, PagingKnown, PageRoutines DEF Blank
<1>4. Fitting(i) => new.flash[PageOf(i, w)] = Blank \/ w \div SECTOR_SIZE + 1 \in Doubted
  BY <1>1, <1>2, <1>3, PagingKnown DEF FlashIs
<1> HIDE DEF new
<1>5. CASE Done(WriteCmd, new) /\ Goes32("program")
  <2>1. link' = [link EXCEPT !.at = "program", !.written = w] /\ result' = result
    BY <1>5 DEF Goes32, ChipInv, ChipTypeOK
  <2>2. /\ chip' \in ChipStates /\ chip'.scratch = chip.scratch /\ chip'.locked = chip.locked
        /\ lost \subseteq lost' /\ lost' \in SUBSET Losable
        /\ chip' = new \/ w \div SECTOR_SIZE + 1 \in Doubted'
        /\ Fitting(i) => FlashIs(chip'.flash, Doubted', i, w, Blank)
    BY <1>1, <1>2, <1>3, <1>4, <1>5, PageCommand
  <2> QED
    BY <1>1, <1>3, <2>1, <2>2, PagingKnown, PageGoesOn DEF Paging
<1>6. CASE Failed(WriteCmd, new) /\ Ends32("502")
  BY <1>1, <1>2, <1>3, <1>4, <1>6, PageCommand
<1> QED
  BY <1>5, <1>6 DEF ResetBuffer, new

LEMMA ProgramKeepsChip == ASSUME ChipInv, WriteFlash64 PROVE ChipInv'
<1> DEFINE i == link.image
           w == link.written
           k == w \div SECTOR_SIZE + 1
           v == IF chip.clean /\ chip.flash[PageOf(i, w)] = Blank THEN k ELSE Mixed
           W == WithPage(chip, PageOf(i, w), v)
           new == Programmed(chip, PageOf(i, w), k)
<1>1. link.at = "program" /\ link.at \in Paging
  BY DEF WriteFlash64, Paging
<1>2. Fitting(i) => FlashIs(chip.flash, Doubted, i, w, Blank)
  BY <1>1 DEF ChipInv, PageByPage
<1>3. Fitting(i) => v = k \/ k \in Doubted
  <2>1. chip.clean \/ k \in Doubted
    BY <1>1 DEF ChipInv, PageByPage
  <2>2. Fitting(i) => chip.flash[PageOf(i, w)] = Blank \/ k \in Doubted
    BY <1>1, <1>2, PagingKnown DEF FlashIs
  <2> QED
    BY <2>1, <2>2
<1>4. v \in Int /\ chip \in ChipStates /\ PageOf(i, w) \in Nat
  <2>1. k \in Int
    BY <1>1, PagingKnown
  <2> QED
    BY <1>1, <2>1, PagingKnown DEF Mixed
<1>5. new = [W EXCEPT !.clean = FALSE]
  BY DEF Programmed
<1> HIDE DEF v, new
<1>6. /\ W \in ChipStates /\ W.scratch = chip.scratch /\ W.locked = chip.locked
      /\ \A q \in 0..ChipPages - 1 :
           /\ q # PageOf(i, w) => W.flash[q] = chip.flash[q]
           /\ q = PageOf(i, w) /\ ~chip.locked => W.flash[q] = v
  <2> DEFINE p == PageOf(i, w)
  <2>1. p \in Nat /\ v \in Int /\ chip \in ChipStates
    BY <1>4
  <2> HIDE DEF p
  <2>2. W = WithPage(chip, p, v)
    BY DEF p
  <2> HIDE DEF W
  <2>3. \A x \in Int :
          /\ WithPage(chip, p, x) \in ChipStates
          /\ WithPage(chip, p, x).scratch = chip.scratch
          /\ WithPage(chip, p, x).locked = chip.locked
          /\ \A q \in 0..ChipPages - 1 :
               /\ q # p => WithPage(chip, p, x).flash[q] = chip.flash[q]
               /\ q = p /\ ~chip.locked => WithPage(chip, p, x).flash[q] = x
    BY <2>1, PageRoutines
  <2>4. /\ W \in ChipStates /\ W.scratch = chip.scratch /\ W.locked = chip.locked
        /\ \A q \in 0..ChipPages - 1 :
             /\ q # p => W.flash[q] = chip.flash[q]
             /\ q = p /\ ~chip.locked => W.flash[q] = v
    BY <2>1, <2>2, <2>3, Zenon
  <2> QED
    BY <2>4 DEF p
<1> HIDE DEF W
<1>7. new \in ChipStates /\ new.scratch = W.scratch /\ new.locked = W.locked /\ new.flash = W.flash
  BY <1>5, <1>6 DEF ChipStates
<1>8. \A q \in 0..ChipPages - 1 : q # PageOf(i, w) => new.flash[q] = chip.flash[q]
  BY <1>6, <1>7
<1>9. Fitting(i) => new.flash[PageOf(i, w)] = k \/ k \in Doubted
  BY <1>1, <1>3, <1>6, <1>7, PagingKnown
<1>10. CASE Done(ProgramCmd, new) /\ Advance
  <2>1. /\ chip' \in ChipStates /\ chip'.scratch = chip.scratch /\ chip'.locked = chip.locked
        /\ lost \subseteq lost' /\ lost' \in SUBSET Losable
        /\ Fitting(i) => FlashIs(chip'.flash, Doubted', i, w, k)
    BY <1>1, <1>2, <1>6, <1>7, <1>8, <1>9, <1>10, PageCommand
  <2>2. i \in Images /\ i.page \in Nat /\ i.size \in Nat /\ w \in Nat /\ w % SECTOR_SIZE = 0 /\ w < i.size
    BY <1>1, PagingKnown
  <2>3. CASE w + Chunk(i, w) < i.size
    <3>1. w + Chunk(i, w) = w + SECTOR_SIZE /\ w + SECTOR_SIZE \in Nat /\ w + SECTOR_SIZE < i.size
      BY <2>2, <2>3 DEF Chunk, SECTOR_SIZE
    <3>2. link' = [link EXCEPT !.at = "erase", !.written = w + SECTOR_SIZE] /\ result' = result
      BY <1>10, <2>3, <3>1 DEF Advance
    <3>3. (w + SECTOR_SIZE) % SECTOR_SIZE = 0
      BY <2>2, Pages
    <3>4. Fitting(i) => FlashIs(chip'.flash, Doubted', i, w + SECTOR_SIZE, Old)
      BY <2>1, <2>2, PageCompletes
    <3> QED
      BY <1>1, <2>1, <3>1, <3>2, <3>3, <3>4, PageGoesOn DEF Paging
  <2>4. CASE ~(w + Chunk(i, w) < i.size)
    <3>1. w + Chunk(i, w) = i.size /\ i.size - w <= SECTOR_SIZE
      BY <2>2, <2>4 DEF Chunk, SECTOR_SIZE
    <3>2. Answers32("ok", i.size)
      BY <1>10, <2>4, <3>1 DEF Advance
    <3>3. Right("ok", i, i.size, chip'.flash, Doubted')
      BY <2>1, <2>2, <3>1, WholeIsRight
    <3> QED
      BY <2>1, <2>2, <3>2, <3>3, AnswerKeepsChip
  <2> QED
    BY <2>3, <2>4
<1>11. CASE Failed(ProgramCmd, new) /\ Ends32("502")
  BY <1>1, <1>2, <1>6, <1>7, <1>8, <1>9, <1>11, PageCommand
<1> QED
  BY <1>10, <1>11 DEF WriteFlash64, new

LEMMA IdentifyKeepsChip == ASSUME ChipInv, Identify \/ BootUserCode PROVE ChipInv'
<1> USE DEF ChipInv
<1>1. /\ chip \in ChipStates /\ link.written = 0 /\ link.written \in Nat /\ lost \in SUBSET Losable
      /\ link.at \notin {"idle"} \cup Paging /\ link.at \in Words \cup {"run"}
      /\ link.at \in LinkPlaces /\ link.image = NoImage /\ link.image.size = 0
  BY DEF ChipTypeOK, ChipStates, NotYet, PlaceFits, Identify, BootUserCode, Words, Paging, NoImage, Losable
<1>2. /\ chip' \in ChipStates /\ chip'.scratch = chip.scratch /\ chip'.flash = chip.flash
      /\ lost' \in SUBSET Losable
  <2>1. chip' \in {chip, [chip EXCEPT !.at = "app"]} /\ lost' \in SUBSET Losable
    BY <1>1, CommandTried DEF Identify, BootUserCode
  <2> QED
    BY <1>1, <2>1 DEF ChipStates
<1>3. ASSUME NEW s \in {"ok", "502"}, Ends32(s) PROVE ChipInv'
  BY <1>1, <1>2, <1>3, EarlyAnswer DEF Ends32
<1>4. ASSUME link.at \in Words, NEW to \in {"wrpr", "low", "high"}, Goes32(to) PROVE ChipInv'
  <2>1. link' = [link EXCEPT !.at = to, !.scratch = link.scratch] /\ result' = result
    BY <1>4 DEF ChipTypeOK, Goes32
  <2>2. link.want = "identify" /\ link.scratch \in DEFAULT_SCRATCHPAD..chip.scratch
    BY <1>4 DEF PlaceFits, Agreed
  <2>3. /\ to \in LinkPlaces \ {"idle"} /\ to \notin Paging /\ to # "verify"
        /\ to \notin {"body"} \cup Unlocking /\ to # "run" /\ to \notin Opening32
    BY DEF Opening32, Unlocking, Paging, LinkPlaces
  <2> QED
    BY <1>1, <1>2, <2>1, <2>2, <2>3, OpeningKeepsChip
<1>5. CASE Identify
  BY <1>3, <1>4, <1>5 DEF Identify
<1>6. CASE BootUserCode
  BY <1>3, <1>6 DEF BootUserCode
<1> QED
  BY <1>5, <1>6

LEMMA ChipStepKeeps == ChipInv /\ [Next]_vars => ChipInv'
<1> SUFFICES ASSUME ChipInv, ChipStep PROVE ChipInv'
  BY StepIsChipStep
<1>1. CASE HandleCh32
  BY <1>1, OpenStepKeepsChip, UnlockKeepsChip, EraseKeepsChip, BufferKeepsChip, ProgramKeepsChip,
     IdentifyKeepsChip DEF HandleCh32, HandleCh32Flash
<1>2. CASE UNCHANGED chipVars
  BY <1>2 DEF chipVars, ChipInv, ChipTypeOK, PlaceFits, NoAnswer, Agreed, NotYet, PageByPage,
              Ch32Contract, Holds, Doubted, InDoubt, LockInDoubt, Lost
<1> QED
  BY <1>1, <1>2, RequestKeepsChip, ComingKeepsChip DEF ChipStep

LEMMA ChipInvariance == Spec => []ChipInv
BY ChipInvStarts, ChipStepKeeps, PTL DEF Spec

(* B003Link: 200 says that the whole image is in the flash, 502 with n bytes *)
(* written that these are, but for the pages of which a command of their    *)
(* own went unanswered; at most one page behind those is touched, and every *)
(* other answer says that nothing was changed -- for images of every size   *)
(* and place, chips of every size, wherever the target is pulled and        *)
(* however many transfers nobody answers.                                   *)
THEOREM Ch32AnswersRight == Spec => []Ch32Contract
<1>1. ChipInv => Ch32Contract
  BY DEF ChipInv
<1> QED
  BY <1>1, ChipInvariance, PTL

(* bootUserCode: the large routine for starting the application needs 131   *)
(* bytes, and its report has 1152.                                          *)
LEMMA RunRoutineStarts ==
  ASSUME NEW s \in Nat, NEW c \in Nat, s >= DEFAULT_SCRATCHPAD, s <= c,
         c \notin 131..1151
  PROVE  Starts(RunCmd(s), c)
<1>1. CASE s >= 131
  <2>1. Needed(RunCmd(s)) = 131
    BY <1>1 DEF Needed, RunCmd, Command
  <2>2. PadSize(131) = 1152
    BY DEF PadSize
  <2> QED
    BY <1>1, <2>1, <2>2 DEF Starts
<1>2. CASE s < 131
  <2>1. Needed(RunCmd(s)) = 56
    BY <1>2 DEF Needed, RunCmd, Command
  <2>2. PadSize(56) = 128
    BY DEF PadSize
  <2> QED
    BY <2>1, <2>2 DEF Starts, DEFAULT_SCRATCHPAD
<1> QED
  BY <1>1, <1>2

(* bootUserCode, B003Link.cpp:338-344: whatever sizes the boot loaders'     *)
(* scratchpads have and whatever was negotiated, a restart answered with    *)
(* 200 has started the application, unless nobody answered its transfer or  *)
(* the scratchpad is one of the 1021 sizes that take the large routine and  *)
(* not its report.                                                          *)
THEOREM RestartStarts == Spec => StartedRuns
<1> DEFINE Starting == result'.status = "ok" /\ link.want = "run" /\ link.at = "run" =>
                         chip'.at = "app" \/ Lost("run", 1)' \/ chip.scratch \in 131..1151
<1>1. ASSUME ChipInv, [Next]_vars PROVE [Starting]_chipVars
  <2> SUFFICES ASSUME ChipStep, result'.status = "ok", link.at = "run", chip.scratch \notin 131..1151
               PROVE  chip'.at = "app" \/ Lost("run", 1)' \/ UNCHANGED chipVars
    BY <1>1, StepIsChipStep
  <2>1. CASE BootUserCode
    <3> DEFINE run == RunCmd(link.scratch)
               new == [chip EXCEPT !.at = "app"]
    <3>1. chip.scratch \in Nat /\ link.written = 0
      BY <1>1, <2>1, ScratchIsThere DEF ChipInv, BootUserCode, NotYet, Paging
    <3>2. link.scratch \in Nat /\ link.scratch >= DEFAULT_SCRATCHPAD /\ link.scratch <= chip.scratch
      BY <1>1, <3>1 DEF ChipInv, Agreed, DEFAULT_SCRATCHPAD
    <3>3. Starts(run, chip.scratch)
      <4> DEFINE s == link.scratch
                 c == chip.scratch
      <4>1. s \in Nat /\ c \in Nat /\ s >= DEFAULT_SCRATCHPAD /\ s <= c /\ c \notin 131..1151
        BY <3>1, <3>2
      <4> HIDE DEF s, c
      <4>2. Starts(RunCmd(s), c)
        BY ONLY <4>1, RunRoutineStarts
      <4> QED
        BY <4>2 DEF s, c, run
    <3>4. new.at = "app"
      BY <1>1 DEF ChipInv, ChipTypeOK
    <3>5. ~Ends32("502")
      BY DEF Ends32, Answers32
    <3> HIDE DEF run, new
    <3>6. Done(run, new)
      BY <2>1, <3>3, <3>5 DEF BootUserCode, run, new
    <3>7. Here \in lost' => Lost("run", 1)'
      BY <2>1, <3>1, NoPages DEF Here, Lost, BootUserCode
    <3> QED
      BY <3>4, <3>6, <3>7 DEF Done, Acknowledged, Unacknowledged
  <2>2. CASE ~BootUserCode
    BY <1>1, <2>2 DEF ChipStep, HandleCh32, HandleCh32Flash, Body, Begin, Halt, Probe, Unlock, Keys, Verify,
       EraseBlock, ResetBuffer, WriteFlash64, Identify, Words, Ch32Request, Leave, Arrive,
       ChipInv, NoAnswer
  <2> QED
    BY <2>1, <2>2
<1> QED
  BY <1>1, ChipInvariance, PTL DEF Spec, StartedRuns

(* handleFlash() and the boot ROM: no request, no file and no departure of *)
(* the target takes a variable out of its type (Uf2TypeOK).                *)
THEOREM FlashTypes == Spec => []Uf2TypeOK
<1>1. FileInv => Uf2TypeOK
  BY DEF FileInv
<1> QED
  BY <1>1, FileInvStarts, FileStep, PTL DEF Spec

=============================================================================
