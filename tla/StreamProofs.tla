---------------------------- MODULE StreamProofs ----------------------------
(***************************************************************************)
(* What write() and read() of the ring buffer do, for every capacity,      *)
(* every content and every cursor; that both rings of Stream hold what was *)
(* written to them; that the log reports no byte as hidden twice; and that *)
(* every reader gets what Transcript promises: whatever the sizes of       *)
(* transfers and reads and the number of clients and restarts.             *)
(***************************************************************************)
EXTENDS Stream, SequenceTheorems, TLAPS

(* ---------------------------- one ring buffer -------------------------- *)

(* A ring over the bytes of S. *)
Ring(S) == [slots : [Slots -> S], total : Nat]

(* Division with remainder by the capacity.                                *)
LEMMA DivMod ==
  ASSUME NEW i \in Nat
  PROVE  /\ i % Capacity \in Slots
         /\ i \div Capacity \in Nat
         /\ i = Capacity * (i \div Capacity) + (i % Capacity)
  BY CapacityAssumption DEF Slots

(* Two multiples of the capacity that are closer than the capacity are     *)
(* equal.                                                                  *)
LEMMA Multiples ==
  ASSUME NEW p \in Int, NEW q \in Int, NEW d \in Int,
         Capacity * p = Capacity * q + d,
         - Capacity < d, d < Capacity
  PROVE  p = q /\ d = 0
  <1>1. CASE p = q
    BY <1>1, CapacityAssumption
  <1>2. CASE p < q
    <2>1. Capacity * (q - p) >= Capacity
      BY <1>2, CapacityAssumption
    <2> QED BY <2>1, CapacityAssumption
  <1>3. CASE p > q
    <2>1. Capacity * (p - q) >= Capacity
      BY <1>3, CapacityAssumption
    <2> QED BY <2>1, CapacityAssumption
  <1> QED BY <1>1, <1>2, <1>3

(* Within a window of Capacity bytes no two share a slot: the slot of byte *)
(* number i lies as far behind the write position as i behind the total.   *)
LEMMA SlotOf ==
  ASSUME NEW r, r.total \in Nat, NEW i \in Nat,
         r.total <= i, i < r.total + Capacity
  PROVE  Behind(r, i % Capacity) = i - r.total
  <1> DEFINE t == r.total
             a == t % Capacity
             b == i % Capacity
             p == t \div Capacity
             q == i \div Capacity
  <1>1. /\ a \in Slots /\ p \in Nat /\ t = Capacity * p + a
        /\ b \in Slots /\ q \in Nat /\ i = Capacity * q + b
    BY DivMod
  <1> HIDE DEF t, a, b, p, q
  <1>2. t \in Nat /\ t <= i /\ i < t + Capacity
    BY DEF t
  <1>3. /\ Capacity \in Nat \ {0}
        /\ a \in 0 .. Capacity - 1 /\ b \in 0 .. Capacity - 1
    BY <1>1, CapacityAssumption DEF Slots
  <1>4. Behind(r, b) = IF b >= a THEN b - a ELSE b - a + Capacity
    BY DEF Behind, a, b, t
  <1>5. CASE b >= a
    <2> DEFINE d == (i - t) - (b - a)
    <2>1. Capacity * q = Capacity * p + d
      BY <1>1, <1>2, <1>3
    <2>2. d \in Int /\ - Capacity < d /\ d < Capacity
      BY <1>2, <1>3, <1>5
    <2>3. d = 0
      <3> HIDE DEF d
      <3> QED BY <2>1, <2>2, <1>1, Multiples
    <2> QED BY <2>3, <1>2, <1>3, <1>4, <1>5 DEF b, t
  <1>6. CASE b < a
    <2> DEFINE d == (i - t) - (b - a + Capacity)
    <2>1. Capacity * (p + 1) = Capacity * p + Capacity
      BY <1>1, <1>3
    <2>2. Capacity * q = Capacity * (p + 1) + d
      BY <2>1, <1>1, <1>2, <1>3
    <2>3. d \in Int /\ - Capacity < d /\ d < Capacity
      BY <1>2, <1>3, <1>6
    <2>4. d = 0
      <3> HIDE DEF d
      <3> QED BY <2>2, <2>3, <1>1, Multiples
    <2> QED BY <2>4, <1>2, <1>3, <1>4, <1>6 DEF b, t
  <1> QED BY <1>3, <1>5, <1>6

(* write() keeps the newest bytes: after it the ring holds the newest of   *)
(* all that was written before and of the new data, for any data shorter   *)
(* than the ring.                                                          *)
LEMMA WriteHolds ==
  ASSUME NEW S, NEW r \in Ring(S), NEW w \in Seq(S), NEW data \in Seq(S),
         Holds(r, w), Len(data) < Capacity
  PROVE  Write(r, data) \in Ring(S) /\ Holds(Write(r, data), w \o data)
  <1> DEFINE n == Write(r, data)
             len == Len(data)
  <1>1. /\ r.total = Len(w) /\ r.total \in Nat /\ len \in Nat
        /\ n.total = r.total + len /\ n.total = Len(w \o data)
        /\ Capacity \in Nat \ {0}
    BY CapacityAssumption DEF Ring, Write, Holds
  <1>2. ASSUME NEW k \in Slots
        PROVE  /\ n.slots[k] = IF Behind(r, k) < len
                               THEN data[Behind(r, k) + 1] ELSE r.slots[k]
               /\ Behind(r, k) \in Nat
    <2>1. r.total % Capacity \in Slots
      BY <1>1, DivMod
    <2> QED BY <2>1, <1>1 DEF Write, Behind, Slots
  <1>3. n \in Ring(S)
    <2>1. ASSUME NEW k \in Slots PROVE n.slots[k] \in S
      <3>1. r.slots[k] \in S
        BY DEF Ring
      <3>2. CASE Behind(r, k) < len
        BY <3>2, <1>1, <1>2
      <3> QED BY <3>1, <3>2, <1>2
    <2>2. n = [slots |-> [k \in Slots |-> n.slots[k]], total |-> n.total]
      BY DEF Write
    <2> QED BY <2>1, <2>2, <1>1 DEF Ring
  <1>4. ASSUME NEW i \in Oldest(n) .. n.total - 1
        PROVE  n.slots[i % Capacity] = (w \o data)[i + 1]
    <2>1. i \in Nat /\ i < n.total /\ n.total <= i + Capacity
      BY <1>1 DEF Oldest
    <2>2. i % Capacity \in Slots
      BY <2>1, DivMod
    <2>3. CASE i >= r.total
      <3>1. Behind(r, i % Capacity) = i - r.total
        <4>1. r.total <= i /\ i < r.total + Capacity
          BY <2>1, <2>3, <1>1
        <4> QED BY <4>1, <2>1, <1>1, SlotOf
      <3>2. n.slots[i % Capacity] = data[i - r.total + 1]
        BY <3>1, <2>1, <2>2, <2>3, <1>1, <1>2
      <3>3. (w \o data)[i + 1] = data[i + 1 - Len(w)]
        <4>1. i + 1 \in 1 .. Len(w) + Len(data) /\ ~(i + 1 <= Len(w))
          BY <2>1, <2>3, <1>1
        <4> QED BY <4>1, ConcatProperties
      <3> QED BY <3>2, <3>3, <1>1, <2>1
    <2>4. CASE i < r.total
      <3>1. Behind(r, (i + Capacity) % Capacity) = i + Capacity - r.total
        <4>1. i + Capacity \in Nat /\ r.total <= i + Capacity
              /\ i + Capacity < r.total + Capacity
          BY <2>1, <2>4, <1>1
        <4> DEFINE j == i + Capacity
        <4>2. j \in Nat /\ r.total <= j /\ j < r.total + Capacity
          BY <4>1
        <4> HIDE DEF j
        <4>3. Behind(r, j % Capacity) = j - r.total
          BY <4>2, <1>1, SlotOf
        <4> QED BY <4>3, <2>1, <1>1 DEF j
      <3>2. (i + Capacity) % Capacity = i % Capacity
        <4> DEFINE p == i \div Capacity
                   q == (i + Capacity) \div Capacity
                   a == i % Capacity
                   b == (i + Capacity) % Capacity
        <4>1. /\ a \in Slots /\ p \in Nat /\ i = Capacity * p + a
              /\ b \in Slots /\ q \in Nat /\ i + Capacity = Capacity * q + b
          <5>1. i \in Nat /\ i + Capacity \in Nat
            BY <2>1, <1>1
          <5>2. a \in Slots /\ p \in Nat /\ i = Capacity * p + a
            BY <5>1, DivMod
          <5>3. b \in Slots /\ q \in Nat /\ i + Capacity = Capacity * q + b
            <6> DEFINE j == i + Capacity
            <6>1. j \in Nat
              BY <5>1
            <6> HIDE DEF j
            <6>2. /\ j % Capacity \in Slots /\ j \div Capacity \in Nat
                  /\ j = Capacity * (j \div Capacity) + (j % Capacity)
              BY <6>1, DivMod
            <6> QED BY <6>2 DEF j
          <5> QED BY <5>2, <5>3
        <4> HIDE DEF a, b, p, q
        <4>2. Capacity * (p + 1) = Capacity * p + Capacity
          BY <4>1, <1>1
        <4>3. /\ Capacity * q = Capacity * (p + 1) + (a - b)
              /\ a - b \in Int /\ - Capacity < a - b /\ a - b < Capacity
          BY <4>1, <4>2, <1>1, <2>1 DEF Slots
        <4>4. a - b = 0
          BY <4>1, <4>3, Multiples
        <4> QED BY <4>1, <4>4 DEF a, b, Slots
      <3>3. n.slots[i % Capacity] = r.slots[i % Capacity]
        BY <3>1, <3>2, <2>1, <2>2, <1>1, <1>2
      <3>4. i \in Oldest(r) .. r.total - 1
        BY <2>1, <2>4, <1>1 DEF Oldest
      <3>5. (w \o data)[i + 1] = w[i + 1]
        BY <2>1, <2>4, <1>1
      <3> QED BY <3>3, <3>4, <3>5 DEF Holds
    <2> QED BY <2>1, <2>3, <2>4, <1>1
  <1> QED BY <1>1, <1>3, <1>4 DEF Holds

(* read() tells the truth: from a ring that holds what was written it      *)
(* returns the next bytes after the cursor and after those it reports as   *)
(* skipped, and moves the cursor past both.                                *)
LEMMA ReadTells ==
  ASSUME NEW S, NEW r \in Ring(S), NEW w \in Seq(S), Holds(r, w),
         NEW from \in 0 .. r.total, NEW max \in Nat
  PROVE  LET got == Read(r, from, max)
         IN  /\ got.cursor = from + got.skipped + Len(got.out)
             /\ got.cursor \in from .. r.total
             /\ Len(got.out) <= max
             /\ got.out = SubSeq(w, from + got.skipped + 1, got.cursor)
  <1> DEFINE start == Start(r, from)
             count == IF r.total - start < max THEN r.total - start ELSE max
             got == Read(r, from, max)
  <1>1. /\ r.total = Len(w) /\ r.total \in Nat /\ Capacity \in Nat \ {0}
        /\ start \in Oldest(r) .. r.total /\ Oldest(r) \in Nat
        /\ start = from + Skipped(r, from) /\ Skipped(r, from) \in Nat
    BY CapacityAssumption DEF Ring, Holds, Start, Skipped, Oldest
  <1>2. count \in 0 .. r.total - start /\ count <= max
    BY <1>1
  <1>3. got = [cursor |-> start + count, skipped |-> Skipped(r, from),
               out |-> [i \in 1 .. count |-> r.slots[(start + i - 1) % Capacity]]]
    BY DEF Read
  <1> HIDE DEF start, count, got
  <1>4. ASSUME NEW i \in 1 .. count
        PROVE  r.slots[(start + i - 1) % Capacity] = w[start + i]
    <2> DEFINE j == start + i - 1
    <2>1. j \in Oldest(r) .. r.total - 1 /\ j + 1 = start + i
      <3>1. /\ start \in Int /\ Oldest(r) \in Int /\ r.total \in Int /\ i \in Int
            /\ Oldest(r) <= start /\ 1 <= i /\ start + i <= r.total
        BY <1>1, <1>2
      <3> QED BY <3>1
    <2>2. r.slots[j % Capacity] = w[j + 1]
      <3> HIDE DEF j
      <3> QED BY <2>1 DEF Holds
    <2> QED BY <2>1, <2>2
  <1>5. got.out = [i \in 1 .. count |-> w[start + i]]
    BY <1>3, <1>4
  <1>6. SubSeq(w, start + 1, start + count) = [i \in 1 .. count |-> w[start + i]]
    <2>1. start \in Nat /\ count \in Nat /\ start + count <= Len(w)
      BY <1>1, <1>2
    <2> HIDE DEF start, count
    <2> QED BY <2>1, SubSeqProperties
  <1>7. Len(got.out) = count
    BY <1>2, <1>5
  <1>8. got.cursor = start + count /\ got.skipped = Skipped(r, from)
    BY <1>3
  <1>9. /\ got.cursor = from + got.skipped + Len(got.out)
        /\ got.cursor \in from .. r.total
        /\ Len(got.out) <= max
    <2>1. /\ count \in Nat /\ count <= r.total - start /\ start \in Nat
          /\ Skipped(r, from) \in Nat /\ start = from + Skipped(r, from)
      BY <1>1, <1>2
    <2>2. start + count \in from .. r.total
      BY <2>1, <1>1
    <2> QED BY <2>1, <2>2, <1>2, <1>7, <1>8
  <1>10. got.out = SubSeq(w, from + got.skipped + 1, got.cursor)
    BY <1>1, <1>5, <1>6, <1>8
  <1> QED BY <1>9, <1>10 DEF got

(* --------------------- the two rings of the bridge --------------------- *)

Lines == {"byte", "opened", "gone", "paused", "resumed"} \X Nat

(* The inductive invariant.  A write keeps a ring's content only if it is  *)
(* shorter than the ring: of what the callback carries and of what the     *)
(* console task is about to note this has to be known.                     *)
RingsTyped ==
  /\ ring \in [Rings -> Ring(Lines \cup {0})]
  /\ written \in [Rings -> Seq(Lines \cup {0})]

CarriesLittle ==
  /\ fromTarget \in Nat /\ suppressed \in Nat
  /\ cdc \in [at : {"idle", "write", "feed", "count"}, data : Seq(Lines \cup {0})] /\ Len(cdc.data) < Capacity

NotesOneLine == pc \in {"noteTarget", "noteTool"} => pending \in Lines

IInv == RingsTyped /\ RingsHold /\ CarriesLittle /\ NotesOneLine

(* What Put does to the rings. *)
LEMMA PutHolds ==
  ASSUME RingsTyped, RingsHold, NEW q \in Rings,
         NEW data \in Seq(Lines \cup {0}), Len(data) < Capacity, Put(q, data)
  PROVE  RingsTyped' /\ RingsHold'
  <1> DEFINE B == Lines \cup {0}
  <1>1. /\ ring[q] \in Ring(B) /\ written[q] \in Seq(B)
        /\ Holds(ring[q], written[q])
    BY DEF RingsTyped, RingsHold
  <1>2. /\ Write(ring[q], data) \in Ring(B)
        /\ Holds(Write(ring[q], data), written[q] \o data)
    <2> HIDE DEF B
    <2> QED BY <1>1, WriteHolds DEF B
  <1>3. written[q] \o data \in Seq(B)
    BY <1>1
  <1>4. /\ ring' = [ring EXCEPT ![q] = Write(ring[q], data)]
        /\ written' = [written EXCEPT ![q] = written[q] \o data]
    BY DEF Put
  <1>5. RingsTyped'
    BY <1>2, <1>3, <1>4 DEF RingsTyped
  <1>6. ASSUME NEW p \in Rings PROVE Holds(ring'[p], written'[p])
    <2>1. CASE p = q
      BY <1>2, <1>4, <2>1 DEF RingsTyped
    <2>2. CASE p # q
      BY <1>4, <2>2 DEF RingsTyped, RingsHold
    <2> QED BY <2>1, <2>2
  <1> QED BY <1>5, <1>6 DEF RingsHold, Holds, Oldest

LEMMA RestingLittle ==
  /\ Resting \in [at : {"idle", "write", "feed", "count"}, data : Seq(Lines \cup {0})]
  /\ Len(Resting.data) < Capacity
  <1>1. <<>> \in Seq(Lines \cup {0}) /\ Len(<<>>) = 0
    OBVIOUS
  <1> QED BY <1>1, CapacityAssumption DEF Resting

(* An empty ring holds the empty sequence. *)
LEMMA EmptyHolds == Empty \in Ring(Lines \cup {0}) /\ Holds(Empty, <<>>)
  BY CapacityAssumption DEF Empty, Ring, Holds, Oldest, Slots

(* Steps that write to no ring and carry or note nothing new. *)
LEMMA QuietKeeps ==
  ASSUME IInv, UNCHANGED <<ring, written>>, CarriesLittle', NotesOneLine'
  PROVE  IInv'
  BY DEF IInv, RingsTyped, RingsHold, Holds, Oldest

LEMMA InitInv == Init => IInv
  <1> SUFFICES ASSUME Init PROVE IInv
    OBVIOUS
  <1>1. RingsTyped /\ RingsHold
    BY EmptyHolds DEF Init, RingsTyped, RingsHold
  <1>2. CarriesLittle /\ NotesOneLine
    BY RestingLittle DEF Init, CarriesLittle, NotesOneLine
  <1> QED BY <1>1, <1>2 DEF IInv

(* A restart empties everything. *)
LEMMA RestartInv == ASSUME IInv, Restart PROVE IInv'
  <1>1. RingsTyped' /\ RingsHold'
    <2>1. ring' = [q \in Rings |-> Empty] /\ written' = [q \in Rings |-> <<>>]
      BY DEF Restart
    <2> QED BY <2>1, EmptyHolds DEF RingsTyped, RingsHold, Holds, Oldest
  <1>2. CarriesLittle' /\ NotesOneLine'
    BY RestingLittle DEF Restart, CarriesLittle, NotesOneLine
  <1> QED BY <1>1, <1>2 DEF IInv

(* The bytes of a transfer. *)
LEMMA ReceiveInv == ASSUME IInv, NEW n \in 1 .. Transfer, Receive(n) PROVE IInv'
  <1>1. Bytes(fromTarget, n) \in Seq(Lines \cup {0}) /\ Len(Bytes(fromTarget, n)) = n
    <2>1. fromTarget \in Nat /\ n \in Nat
      BY StreamAssumption, CapacityAssumption DEF IInv, CarriesLittle
    <2>2. \A i \in 1 .. n : Line("byte", fromTarget + i) \in Lines
      BY <2>1 DEF Line, Lines
    <2> QED BY <2>1, <2>2 DEF Bytes
  <1>2. n < Capacity /\ n \in Nat
    BY StreamAssumption, CapacityAssumption
  <1>3. /\ cdc' = [at |-> IF HasTool THEN "feed" ELSE "write", data |-> Bytes(fromTarget, n)]
        /\ fromTarget' = fromTarget + n
    BY DEF Receive
  <1>4. CarriesLittle'
    <2> DEFINE d == Bytes(fromTarget, n)
               B == Lines \cup {0}
    <2>1. d \in Seq(B) /\ Len(d) < Capacity
      BY <1>1, <1>2
    <2>2. cdc'.data = d /\ cdc' \in [at : {"idle", "write", "feed", "count"}, data : Seq(B)]
      <3> HIDE DEF d, B
      <3> QED BY <2>1, <1>3 DEF d
    <2>3. fromTarget' \in Nat /\ suppressed' \in Nat
      BY <1>2, <1>3 DEF Receive, IInv, CarriesLittle
    <2> QED BY <2>1, <2>2, <2>3 DEF CarriesLittle
  <1>5. NotesOneLine'
    BY DEF Receive, IInv, NotesOneLine, console
  <1> QED BY <1>4, <1>5, QuietKeeps DEF Receive

(* The callback writes what it carries to either ring. *)
LEMMA CdcInv == ASSUME IInv, CdcStep PROVE IInv'
  <1>1. CASE WriteLog
    <2>1. RingsTyped' /\ RingsHold'
      BY <1>1, PutHolds DEF WriteLog, IInv, CarriesLittle, Rings
    <2>2. CarriesLittle' /\ NotesOneLine'
      BY <1>1, RestingLittle
      DEF WriteLog, IInv, CarriesLittle, NotesOneLine, console
    <2> QED BY <2>1, <2>2 DEF IInv
  <1>2. CASE FeedTool
    <2>1. RingsTyped' /\ RingsHold'
      BY <1>2, PutHolds DEF FeedTool, IInv, CarriesLittle, Rings
    <2>2. cdc' = [at |-> "count", data |-> cdc.data]
      BY <1>2 DEF FeedTool, IInv, CarriesLittle
    <2>3. CarriesLittle'
      BY <1>2, <2>2 DEF FeedTool, IInv, CarriesLittle
    <2>4. NotesOneLine'
      BY <1>2 DEF FeedTool, IInv, NotesOneLine, console
    <2> QED BY <2>1, <2>3, <2>4 DEF IInv
  <1>3. CASE CountSuppressed
    <2>1. CarriesLittle'
      BY <1>3, RestingLittle DEF CountSuppressed, IInv, CarriesLittle
    <2>2. NotesOneLine'
      BY <1>3 DEF CountSuppressed, IInv, NotesOneLine, console
    <2> QED BY <1>3, <2>1, <2>2, QuietKeeps DEF CountSuppressed
  <1> QED BY <1>1, <1>2, <1>3 DEF CdcStep

(* The console task looks, notes one line, or reads. *)
LEMMA ConsoleInv == ASSUME IInv, ConsoleStep PROVE IInv'
  <1>1. CASE ConsoleStart
    BY <1>1, QuietKeeps DEF ConsoleStart, IInv, CarriesLittle, NotesOneLine, target
  <1>2. CASE LookAtTarget
    <2>1. NotesOneLine'
      BY <1>2 DEF LookAtTarget, NotesOneLine, Line, Lines
    <2> QED BY <1>2, <2>1, QuietKeeps DEF LookAtTarget, IInv, CarriesLittle, target
  <1>3. CASE LookAtTool
    <2>1. NotesOneLine'
      BY <1>3 DEF LookAtTool, IInv, CarriesLittle, NotesOneLine, Line, Lines
    <2>2. CarriesLittle'
      BY <1>3 DEF LookAtTool, IInv, CarriesLittle
    <2> QED BY <1>3, <2>1, <2>2, QuietKeeps DEF LookAtTool
  <1>4. CASE Note
    <2>1. pending \in Lines
      BY <1>4 DEF Note, IInv, NotesOneLine
    <2>2. <<pending>> \in Seq(Lines \cup {0}) /\ Len(<<pending>>) < Capacity
      BY <2>1, StreamAssumption, CapacityAssumption
    <2>3. RingsTyped' /\ RingsHold'
      BY <1>4, <2>2, PutHolds DEF Note, IInv, Rings
    <2>4. CarriesLittle' /\ NotesOneLine'
      BY <1>4 DEF Note, IInv, CarriesLittle, NotesOneLine, target
    <2> QED BY <2>3, <2>4 DEF IInv
  <1>5. CASE Drain
    BY <1>5, QuietKeeps DEF Drain, IInv, CarriesLittle, NotesOneLine, target
  <1> QED BY <1>1, <1>2, <1>3, <1>4, <1>5 DEF ConsoleStep

(* The others change neither a ring nor what is on its way to one. *)
LEMMA OthersInv ==
  ASSUME IInv,
         \/ Toggle \/ ConsoleAccept \/ ConsoleLeaves
         \/ ToolAccept \/ ToolStart \/ ToolDrain \/ ToolLeaves
         \/ Poll \/ Reload \/ UNCHANGED vars
  PROVE  IInv'
  <1>1. CASE Toggle
    BY <1>1, QuietKeeps DEF Toggle, IInv, CarriesLittle, NotesOneLine, console
  <1>2. CASE ConsoleAccept \/ ConsoleLeaves
    BY <1>2, QuietKeeps DEF ConsoleAccept, ConsoleLeaves, IInv, CarriesLittle,
       NotesOneLine, target
  <1>3. CASE ToolAccept \/ ToolStart \/ ToolDrain \/ ToolLeaves
    BY <1>3, QuietKeeps DEF ToolAccept, ToolStart, ToolDrain, ToolLeaves, IInv,
       CarriesLittle, NotesOneLine, target, console
  <1>4. CASE Poll \/ Reload
    BY <1>4, QuietKeeps DEF Poll, Reload, IInv, CarriesLittle, NotesOneLine,
       target, console
  <1>5. CASE UNCHANGED vars
    BY <1>5, QuietKeeps DEF vars, IInv, CarriesLittle, NotesOneLine, target, console
  <1> QED BY <1>1, <1>2, <1>3, <1>4, <1>5

LEMMA StepInv == IInv /\ [Next]_vars => IInv'
  <1> SUFFICES ASSUME IInv, [Next]_vars PROVE IInv'
    OBVIOUS
  <1>1. CASE Restart
    BY <1>1, RestartInv
  <1>2. CASE \E n \in 1 .. Transfer : Receive(n)
    BY <1>2, ReceiveInv
  <1>3. CASE CdcStep
    BY <1>3, CdcInv
  <1>4. CASE ConsoleStep
    BY <1>4, ConsoleInv
  <1>5. CASE \/ Toggle \/ ConsoleAccept \/ ConsoleLeaves
             \/ ToolAccept \/ ToolStart \/ ToolDrain \/ ToolLeaves
             \/ Poll \/ Reload \/ UNCHANGED vars
    BY <1>5, OthersInv
  <1> QED BY <1>1, <1>2, <1>3, <1>4, <1>5 DEF Next

(* Each of the two rings holds, in every state, the newest bytes of all    *)
(* that was ever written to it (RingBuffer.cpp write, used by onTargetData *)
(* and note): no byte of the target and no status line is misplaced or     *)
(* overwritten before its time.                                            *)
THEOREM AlwaysHold == Spec => []RingsHold
  <1>1. IInv => RingsHold
    BY DEF IInv
  <1> QED BY InitInv, StepInv, <1>1, PTL DEF Spec

(* -------------------- what the log reports as hidden ------------------- *)

(* Every byte that went to a flash tool is in one place only: reported in  *)
(* the log, in the line the console task is about to note, in the count    *)
(* while that task believes in a tool, or in the callback's hands.  A      *)
(* count left over while it believes in none is dropped by the next one.   *)
AboutToReport == IF pc = "noteTool" /\ pending[1] = "resumed" THEN pending[2] ELSE 0
Counting == IF lastRfc THEN suppressed ELSE 0
NotYetCounted == IF cdc.at = "count" THEN Len(cdc.data) ELSE 0

EachByteOnce ==
  /\ reported \in Nat
  /\ reported + AboutToReport + Counting + NotYetCounted <= Len(written["rfc"])

NotesTyped ==
  /\ lastRfc \in BOOLEAN
  /\ pc = "noteTarget" => pending[1] # "resumed"

CountInv == IInv /\ EachByteOnce /\ NotesTyped

(* The terms of the sum are numbers. *)
LEMMA Amounts ==
  ASSUME IInv
  PROVE  /\ AboutToReport \in Nat /\ Counting \in Nat /\ NotYetCounted \in Nat
         /\ Len(written["rfc"]) \in Nat /\ suppressed \in Nat /\ Len(cdc.data) \in Nat
  <1>1. pc = "noteTool" => pending \in Lines
    BY DEF IInv, NotesOneLine
  <1>2. AboutToReport \in Nat
    BY <1>1 DEF AboutToReport, Lines
  <1>3. cdc.data \in Seq(Lines \cup {0}) /\ suppressed \in Nat
    BY DEF IInv, CarriesLittle
  <1>4. Len(cdc.data) \in Nat
    BY <1>3
  <1>5. written["rfc"] \in Seq(Lines \cup {0})
    BY DEF IInv, RingsTyped, Rings
  <1>6. Len(written["rfc"]) \in Nat
    BY <1>5
  <1> QED BY <1>2, <1>3, <1>4, <1>6 DEF Counting, NotYetCounted

LEMMA CountInit == Init => CountInv
  <1> SUFFICES ASSUME Init PROVE CountInv
    OBVIOUS
  <1>1. IInv
    BY InitInv
  <1>2. /\ pc = "accept" /\ lastRfc = FALSE /\ reported = 0 /\ cdc.at = "idle"
        /\ written["rfc"] = <<>>
    BY DEF Init, Resting, Rings
  <1>3. AboutToReport = 0 /\ Counting = 0 /\ NotYetCounted = 0
    BY <1>2 DEF AboutToReport, Counting, NotYetCounted
  <1>4. EachByteOnce
    BY <1>2, <1>3 DEF EachByteOnce
  <1> QED BY <1>1, <1>2, <1>4 DEF CountInv, NotesTyped

(* Steps that leave all the places alone. *)
LEMMA PlacesKept ==
  ASSUME CountInv, reported' = reported, AboutToReport' = AboutToReport,
         Counting' = Counting, NotYetCounted' = NotYetCounted,
         written'["rfc"] = written["rfc"]
  PROVE  EachByteOnce'
  BY DEF CountInv, EachByteOnce

LEMMA CountRestart == ASSUME CountInv, Restart PROVE EachByteOnce' /\ NotesTyped'
  <1>1. /\ pc' = "accept" /\ lastRfc' = FALSE /\ reported' = 0 /\ cdc'.at = "idle"
        /\ written'["rfc"] = <<>>
    BY DEF Restart, Resting, Rings
  <1>2. AboutToReport' = 0 /\ Counting' = 0 /\ NotYetCounted' = 0
    BY <1>1 DEF AboutToReport, Counting, NotYetCounted
  <1>3. EachByteOnce'
    BY <1>1, <1>2 DEF EachByteOnce
  <1>4. NotesTyped'
    BY <1>1 DEF NotesTyped
  <1> QED BY <1>3, <1>4

(* The callback: what it has written to the tool's ring is in its hands,   *)
(* then counted.                                                           *)
LEMMA CountCdc ==
  ASSUME CountInv, CdcStep PROVE EachByteOnce' /\ NotesTyped'
  <1>0. /\ IInv /\ written \in [Rings -> Seq(Lines \cup {0})]
        /\ cdc \in [at : {"idle", "write", "feed", "count"}, data : Seq(Lines \cup {0})]
    BY DEF CountInv, IInv, RingsTyped, CarriesLittle
  <1>a. /\ AboutToReport \in Nat /\ Counting \in Nat /\ NotYetCounted \in Nat
        /\ Len(written["rfc"]) \in Nat /\ suppressed \in Nat /\ Len(cdc.data) \in Nat
        /\ reported \in Nat
        /\ reported + AboutToReport + Counting + NotYetCounted <= Len(written["rfc"])
    BY <1>0, Amounts DEF CountInv, EachByteOnce
  <1>b. /\ UNCHANGED <<pc, pending, lastRfc, reported>>
        /\ AboutToReport' = AboutToReport
    BY DEF CdcStep, WriteLog, FeedTool, CountSuppressed, console, AboutToReport
  <1>c. NotesTyped'
    BY <1>b DEF CountInv, NotesTyped
  <1>1. CASE WriteLog
    <2>1. written'["rfc"] = written["rfc"]
      BY <1>0, <1>1 DEF WriteLog, Put, Rings
    <2>2. NotYetCounted' = NotYetCounted /\ Counting' = Counting
      BY <1>1, <1>b DEF WriteLog, NotYetCounted, Counting, Resting
    <2> QED BY <1>b, <1>c, <2>1, <2>2, PlacesKept
  <1>2. CASE FeedTool
    <2>1. written'["rfc"] = written["rfc"] \o cdc.data
      BY <1>0, <1>2 DEF FeedTool, Put, Rings
    <2>2. Len(written'["rfc"]) = Len(written["rfc"]) + Len(cdc.data)
      <3>1. written["rfc"] \in Seq(Lines \cup {0}) /\ cdc.data \in Seq(Lines \cup {0})
        BY <1>0 DEF Rings
      <3> QED BY <2>1, <3>1
    <2>3. cdc'.at = "count" /\ cdc'.data = cdc.data
      BY <1>0, <1>2 DEF FeedTool
    <2>4. NotYetCounted = 0 /\ NotYetCounted' = Len(cdc.data) /\ Counting' = Counting
      BY <1>2, <1>b, <2>3 DEF FeedTool, NotYetCounted, Counting
    <2> QED BY <1>a, <1>b, <1>c, <2>2, <2>4 DEF EachByteOnce
  <1>3. CASE CountSuppressed
    <2> DEFINE n == Len(cdc.data)
    <2>1. /\ NotYetCounted = n /\ NotYetCounted' = 0 /\ n \in Nat
          /\ suppressed' = suppressed + n /\ written' = written
      BY <1>3, <1>a DEF CountSuppressed, NotYetCounted, Resting
    <2> HIDE DEF n
    <2>2. CASE lastRfc
      <3>1. Counting = suppressed /\ Counting' = suppressed + n
        BY <1>b, <2>1, <2>2 DEF Counting
      <3>2. reported + AboutToReport + Counting' + NotYetCounted' <= Len(written["rfc"])
        BY <1>a, <2>1, <3>1
      <3> QED BY <1>a, <1>b, <1>c, <2>1, <3>2 DEF EachByteOnce
    <2>3. CASE ~lastRfc
      <3>1. Counting = 0 /\ Counting' = 0
        BY <1>b, <2>3 DEF Counting
      <3>2. reported + AboutToReport + Counting' + NotYetCounted' <= Len(written["rfc"])
        BY <1>a, <2>1, <3>1
      <3> QED BY <1>a, <1>b, <1>c, <2>1, <3>2 DEF EachByteOnce
    <2> QED BY <2>2, <2>3
  <1> QED BY <1>1, <1>2, <1>3 DEF CdcStep

(* The console task moves the count into the line, and that into the log;  *)
(* it starts a new count from nothing.                                     *)
LEMMA CountConsole ==
  ASSUME CountInv, ConsoleStep PROVE EachByteOnce' /\ NotesTyped'
  <1>0. IInv /\ written \in [Rings -> Seq(Lines \cup {0})]
    BY DEF CountInv, IInv, RingsTyped
  <1>a. /\ AboutToReport \in Nat /\ Counting \in Nat /\ NotYetCounted \in Nat
        /\ Len(written["rfc"]) \in Nat /\ suppressed \in Nat /\ reported \in Nat
        /\ reported + AboutToReport + Counting + NotYetCounted <= Len(written["rfc"])
    BY <1>0, Amounts DEF CountInv, EachByteOnce
  <1>b. NotYetCounted' = NotYetCounted
    BY DEF ConsoleStep, ConsoleStart, LookAtTarget, LookAtTool, Note, Drain, target,
       NotYetCounted
  <1>1. CASE ConsoleStart \/ Drain
    <2>1. /\ AboutToReport = 0 /\ AboutToReport' = 0 /\ Counting' = Counting
          /\ written' = written /\ reported' = reported /\ pc' # "noteTarget"
          /\ lastRfc' = lastRfc
      BY <1>1 DEF ConsoleStart, Drain, target, AboutToReport, Counting
    <2> QED BY <1>b, <2>1, PlacesKept DEF CountInv, NotesTyped
  <1>2. CASE LookAtTarget
    <2>1. /\ AboutToReport = 0 /\ AboutToReport' = 0 /\ Counting' = Counting
          /\ written' = written /\ reported' = reported
      BY <1>2 DEF LookAtTarget, target, AboutToReport, Counting
    <2>2. NotesTyped'
      BY <1>2 DEF LookAtTarget, CountInv, NotesTyped, Line
    <2> QED BY <1>b, <2>1, <2>2, PlacesKept
  <1>3. CASE LookAtTool
    <2>0. /\ AboutToReport = 0 /\ written' = written /\ reported' = reported
          /\ pc' # "noteTarget" /\ lastRfc' = HasTool /\ HasTool \in BOOLEAN
      BY <1>3 DEF LookAtTool, AboutToReport, HasTool
    <2>1. CASE HasTool = lastRfc
      <3>1. AboutToReport' = 0 /\ Counting' = Counting
        BY <1>3, <2>1 DEF LookAtTool, AboutToReport, Counting
      <3> QED BY <1>b, <2>0, <3>1, PlacesKept DEF NotesTyped
    <2>2. CASE HasTool # lastRfc /\ HasTool
      <3>1. AboutToReport' = 0 /\ Counting' = 0
        BY <1>3, <2>2 DEF LookAtTool, AboutToReport, Counting, Line
      <3> QED BY <1>a, <1>b, <2>0, <3>1 DEF EachByteOnce, NotesTyped
    <2>3. CASE HasTool # lastRfc /\ ~HasTool
      <3>1. AboutToReport' = suppressed /\ Counting' = 0
        BY <1>3, <2>3 DEF LookAtTool, AboutToReport, Counting, Line
      <3>2. lastRfc
        BY <2>3 DEF CountInv, NotesTyped, HasTool
      <3> QED BY <1>a, <1>b, <2>0, <3>1, <3>2 DEF EachByteOnce, NotesTyped, Counting
    <2> QED BY <2>1, <2>2, <2>3
  <1>4. CASE Note
    <2>1. /\ reported' = reported + (IF pending[1] = "resumed" THEN pending[2] ELSE 0)
          /\ pc' \in {"tool", "drain"} /\ pc \in {"noteTarget", "noteTool"}
          /\ UNCHANGED <<lastRfc, suppressed>>
      BY <1>4 DEF Note, target
    <2>2. reported' = reported + AboutToReport
      BY <1>a, <2>1 DEF AboutToReport, CountInv, NotesTyped
    <2>3. AboutToReport' = 0 /\ Counting' = Counting
      BY <2>1 DEF AboutToReport, Counting
    <2>4. written'["rfc"] = written["rfc"]
      BY <1>0, <1>4 DEF Note, Put, Rings
    <2> QED BY <1>a, <1>b, <2>1, <2>2, <2>3, <2>4 DEF EachByteOnce, CountInv, NotesTyped
  <1> QED BY <1>1, <1>2, <1>3, <1>4 DEF ConsoleStep

(* Nobody else touches a count; a transfer is counted only after it went   *)
(* to the tool.                                                            *)
LEMMA CountOthers ==
  ASSUME CountInv,
         \/ \E n \in 1 .. Transfer : Receive(n)
         \/ Toggle \/ ConsoleAccept \/ ConsoleLeaves
         \/ ToolAccept \/ ToolStart \/ ToolDrain \/ ToolLeaves
         \/ Poll \/ Reload \/ UNCHANGED vars
  PROVE  EachByteOnce' /\ NotesTyped'
  <1>1. UNCHANGED <<written, reported, lastRfc, suppressed, pending>>
    BY DEF Receive, Toggle, ConsoleAccept, ConsoleLeaves, ToolAccept, ToolStart, ToolDrain,
       ToolLeaves, Poll, Reload, vars, console, target
  <1>2. pc' = pc \/ (pc \in {"accept", "drain"} /\ pc' \in {"accept", "start"})
    BY DEF Receive, Toggle, ConsoleAccept, ConsoleLeaves, ToolAccept, ToolStart, ToolDrain,
       ToolLeaves, Poll, Reload, vars, console
  <1>3. NotYetCounted' = NotYetCounted
    <2>1. ASSUME NEW n \in 1 .. Transfer, Receive(n) PROVE NotYetCounted' = NotYetCounted
      BY <2>1 DEF Receive, NotYetCounted
    <2>2. CASE \/ Toggle \/ ConsoleAccept \/ ConsoleLeaves
               \/ ToolAccept \/ ToolStart \/ ToolDrain \/ ToolLeaves
               \/ Poll \/ Reload \/ UNCHANGED vars
      BY <2>2 DEF Toggle, ConsoleAccept, ConsoleLeaves, ToolAccept, ToolStart, ToolDrain,
         ToolLeaves, Poll, Reload, vars, target, NotYetCounted
    <2> QED BY <2>1, <2>2
  <1>4. AboutToReport' = AboutToReport /\ Counting' = Counting
    BY <1>1, <1>2 DEF AboutToReport, Counting
  <1>5. NotesTyped'
    BY <1>1, <1>2 DEF CountInv, NotesTyped
  <1> QED BY <1>1, <1>3, <1>4, <1>5, PlacesKept

LEMMA CountStep == CountInv /\ [Next]_vars => CountInv'
  <1> SUFFICES ASSUME CountInv, [Next]_vars PROVE CountInv'
    OBVIOUS
  <1>1. IInv'
    BY StepInv DEF CountInv
  <1>2. EachByteOnce' /\ NotesTyped'
    BY CountRestart, CountCdc, CountConsole, CountOthers DEF Next
  <1> QED BY <1>1, <1>2 DEF CountInv

(* Whatever the receive callback, the console task and the flash tools do  *)
(* in which order (onTargetData, serveClient): the log never reports more  *)
(* bytes as hidden than went past it, and none of them twice.              *)
THEOREM NothingCountedTwice == Spec => []ReportedWasHidden
  <1>1. CountInv => ReportedWasHidden
    <2> SUFFICES ASSUME CountInv PROVE ReportedWasHidden
      OBVIOUS
    <2>1. IInv
      BY DEF CountInv
    <2> QED BY <2>1, Amounts DEF CountInv, EachByteOnce, ReportedWasHidden
  <1> QED BY CountInit, CountStep, <1>1, PTL DEF Spec

(* ---------------- the bridge implements its transcripts ---------------- *)

(* read() from anywhere, a place in an older log included: what it returns *)
(* ends where it leaves the reader.                                        *)
LEMMA ReadAnywhere ==
  ASSUME NEW S, NEW r \in Ring(S), NEW w \in Seq(S), Holds(r, w),
         NEW from \in Nat, NEW max \in Nat
  PROVE  LET got == Read(r, from, max)
         IN  /\ got.cursor \in 0 .. Len(w) /\ got.skipped \in Nat /\ Len(got.out) \in Nat
             /\ got.skipped + Len(got.out) <= got.cursor
             /\ got.out = SubSeq(w, got.cursor - Len(got.out) + 1, got.cursor)
             /\ from <= Len(w) => got.cursor = from + got.skipped + Len(got.out)
  <1> DEFINE got == Read(r, from, max)
  <1>1. /\ r.total = Len(w) /\ r.total \in Nat /\ Capacity \in Nat \ {0}
        /\ Oldest(r) \in 0 .. r.total
    BY CapacityAssumption DEF Ring, Holds, Oldest
  <1>2. got.skipped \in Nat /\ Len(got.out) \in Nat
    BY <1>1 DEF Read, Skipped, Start
  <1>3. CASE from <= r.total
    <2>1. from \in 0 .. r.total
      BY <1>1, <1>3
    <2>2. /\ got.cursor = from + got.skipped + Len(got.out)
          /\ got.cursor \in from .. r.total
          /\ got.out = SubSeq(w, from + got.skipped + 1, got.cursor)
      BY <2>1, ReadTells
    <2> DEFINE c == got.cursor
               k == got.skipped
               n == Len(got.out)
    <2>3. /\ c \in from .. r.total /\ c = from + k + n /\ k \in Nat /\ n \in Nat
      BY <1>2, <2>2
    <2> HIDE DEF got, c, k, n
    <2>4. c - n = from + k /\ c \in 0 .. r.total /\ k + n <= c
      BY <1>1, <2>3
    <2>5. got.out = SubSeq(w, c - n + 1, c)
      BY <2>2, <2>4 DEF c, k
    <2> QED BY <1>1, <2>3, <2>4, <2>5 DEF got, c, k, n
  <1>4. CASE ~(from <= r.total)
    <2>1. Start(r, from) = r.total /\ Skipped(r, from) = 0
      BY <1>1, <1>4 DEF Start, Skipped
    <2>2. got.cursor = r.total /\ got.skipped = 0 /\ got.out = <<>>
      BY <1>1, <2>1 DEF Read
    <2>3. SubSeq(w, r.total + 1, r.total) = <<>>
      BY <1>1, SubSeqEmpty
    <2> HIDE DEF got
    <2>4. Len(got.out) = 0 /\ got.cursor - Len(got.out) = r.total
      BY <1>1, <2>2
    <2>5. got.out = SubSeq(w, got.cursor - Len(got.out) + 1, got.cursor)
      BY <2>2, <2>3, <2>4
    <2>6. got.cursor \in 0 .. Len(w) /\ got.skipped + Len(got.out) <= got.cursor
          /\ ~(from <= Len(w))
      BY <1>1, <1>4, <2>2, <2>4
    <2> QED BY <1>2, <2>5, <2>6 DEF got
  <1> QED BY <1>3, <1>4

(* Only what fell out of the ring is skipped, and all of it. *)
LEMMA ReadSkips ==
  ASSUME NEW S, NEW r \in Ring(S), NEW w \in Seq(S), Holds(r, w),
         NEW from \in Nat, NEW max \in Nat
  PROVE  LET got == Read(r, from, max)
         IN  /\ got.skipped > 0 => from + got.skipped = Len(w) - Capacity
             /\ Len(w) - Capacity <= got.cursor - Len(got.out)
  <1> DEFINE start == Start(r, from)
             count == IF r.total - start < max THEN r.total - start ELSE max
             got == Read(r, from, max)
  <1>1. /\ r.total = Len(w) /\ r.total \in Nat /\ Capacity \in Nat \ {0}
        /\ start \in 0 .. r.total /\ r.total - Capacity <= start
        /\ Skipped(r, from) > 0 => from + Skipped(r, from) = r.total - Capacity
    BY CapacityAssumption DEF Ring, Holds, Start, Skipped, Oldest
  <1>2. got = [cursor |-> start + count, skipped |-> Skipped(r, from),
               out |-> [i \in 1 .. count |-> r.slots[(start + i - 1) % Capacity]]]
    BY DEF Read
  <1>3. count \in Nat
    BY <1>1
  <1> HIDE DEF start, count, got
  <1>4. Len(got.out) = count /\ got.cursor = start + count /\ got.skipped = Skipped(r, from)
    BY <1>2, <1>3
  <1>5. start \in Int /\ got.cursor - Len(got.out) = start
    BY <1>1, <1>3, <1>4
  <1> QED BY <1>1, <1>4, <1>5 DEF got

(* Where the readers are: never ahead of what was written. *)
Places ==
  /\ cursor \in 0 .. Len(written["console"])
  /\ toolCursor \in 0 .. Len(written["rfc"])
  /\ web \in Nat \cup {-1} /\ sameBoot \in BOOLEAN
  /\ sameBoot => web \in 0 .. Len(written["console"])

ReadersInv == IInv /\ Places

LEMMA Logs ==
  ASSUME IInv, NEW q \in Rings
  PROVE  /\ ring[q] \in Ring(Lines \cup {0}) /\ written[q] \in Seq(Lines \cup {0})
         /\ Holds(ring[q], written[q]) /\ Len(written[q]) \in Nat
         /\ ring[q].total = Len(written[q]) /\ Oldest(ring[q]) \in 0 .. Len(written[q])
  <1>1. /\ ring[q] \in Ring(Lines \cup {0}) /\ written[q] \in Seq(Lines \cup {0})
        /\ Holds(ring[q], written[q])
    BY DEF IInv, RingsTyped, RingsHold
  <1>2. Len(written[q]) \in Nat /\ ring[q].total = Len(written[q])
    BY <1>1 DEF Holds
  <1> QED BY <1>1, <1>2, CapacityAssumption DEF Oldest

(* What a reader of a ring gets, and where it is then. *)
LEMMA ReadOfLog ==
  ASSUME IInv, NEW q \in Rings, NEW from \in Nat
  PROVE  LET got == Read(ring[q], from, Chunk)
             w == written[q]
         IN  /\ got.cursor \in 0 .. Len(w) /\ got.skipped \in Nat /\ Len(got.out) \in Nat
             /\ got.skipped + Len(got.out) <= got.cursor
             /\ got.out = SubSeq(w, got.cursor - Len(got.out) + 1, got.cursor)
             /\ from <= Len(w) => got.cursor = from + got.skipped + Len(got.out)
             /\ got.skipped > 0 => from + got.skipped = Len(w) - Capacity
             /\ Len(w) - Capacity <= got.cursor - Len(got.out)
  <1> DEFINE r == ring[q]
             w == written[q]
             B == Lines \cup {0}
  <1>1. r \in Ring(B) /\ w \in Seq(B) /\ Holds(r, w) /\ Chunk \in Nat
    BY Logs, StreamAssumption
  <1> HIDE DEF r, w, B
  <1>2. LET got == Read(r, from, Chunk)
        IN  /\ got.cursor \in 0 .. Len(w) /\ got.skipped \in Nat /\ Len(got.out) \in Nat
            /\ got.skipped + Len(got.out) <= got.cursor
            /\ got.out = SubSeq(w, got.cursor - Len(got.out) + 1, got.cursor)
            /\ from <= Len(w) => got.cursor = from + got.skipped + Len(got.out)
    BY <1>1, ReadAnywhere
  <1>3. LET got == Read(r, from, Chunk)
        IN  /\ got.skipped > 0 => from + got.skipped = Len(w) - Capacity
            /\ Len(w) - Capacity <= got.cursor - Len(got.out)
    BY <1>1, ReadSkips
  <1> QED BY <1>2, <1>3 DEF r, w

(* Nothing written is ever taken back, but by a restart. *)
LEMMA LogsGrow ==
  ASSUME IInv, [Next]_vars, ~Restart, NEW q \in Rings
  PROVE  Len(written'[q]) \in Nat /\ Len(written[q]) <= Len(written'[q])
  <1>1. ASSUME NEW p \in Rings, NEW data \in Seq(Lines \cup {0}), Put(p, data)
        PROVE  Len(written'[q]) \in Nat /\ Len(written[q]) <= Len(written'[q])
    <2>1. written \in [Rings -> Seq(Lines \cup {0})]
      BY DEF IInv, RingsTyped
    <2>2. written'[q] = IF q = p THEN written[q] \o data ELSE written[q]
      BY <1>1, <2>1 DEF Put
    <2>3. written[q] \in Seq(Lines \cup {0}) /\ Len(written[q]) \in Nat
      BY Logs
    <2>4. Len(data) \in Nat /\ Len(written[q] \o data) = Len(written[q]) + Len(data)
      BY <1>1, <2>3
    <2> QED BY <2>2, <2>3, <2>4
  <1>2. CASE WriteLog \/ FeedTool
    BY <1>1, <1>2 DEF WriteLog, FeedTool, IInv, CarriesLittle, Rings
  <1>3. CASE Note
    <2>1. <<pending>> \in Seq(Lines \cup {0})
      BY <1>3 DEF Note, IInv, NotesOneLine
    <2> QED BY <1>1, <1>3, <2>1 DEF Note, Rings
  <1>4. CASE written' = written
    BY <1>4, Logs
  <1> QED BY <1>2, <1>3, <1>4 DEF Next, vars, Toggle, CdcStep, CountSuppressed, Receive,
       ConsoleAccept, ConsoleStep, ConsoleStart, LookAtTarget, LookAtTool, Drain,
       ConsoleLeaves, ToolAccept, ToolStart, ToolDrain, ToolLeaves, Poll, Reload

LEMMA PlacesStep == ReadersInv /\ [Next]_vars => ReadersInv'
  <1> SUFFICES ASSUME ReadersInv, [Next]_vars PROVE ReadersInv'
    OBVIOUS
  <1>0. IInv /\ IInv' /\ Places
    BY StepInv DEF ReadersInv
  <1>1. CASE Restart
    <2>1. /\ written'["console"] = <<>> /\ written'["rfc"] = <<>>
          /\ cursor' = 0 /\ toolCursor' = 0 /\ sameBoot' = FALSE /\ web' = web
      BY <1>1 DEF Restart, Rings
    <2>2. Len(written'["console"]) = 0 /\ Len(written'["rfc"]) = 0
      BY <2>1
    <2>3. web' \in Nat \cup {-1}
      BY <1>0, <2>1 DEF Places
    <2>4. cursor' \in 0 .. Len(written'["console"]) /\ toolCursor' \in 0 .. Len(written'["rfc"])
      BY <2>1, <2>2
    <2>5. Places'
      BY <2>1, <2>3, <2>4 DEF Places
    <2> QED BY <1>0, <2>5 DEF ReadersInv
  <1>2. CASE ~Restart
    <2>1. /\ Len(written'["console"]) \in Nat /\ Len(written["console"]) <= Len(written'["console"])
          /\ Len(written'["rfc"]) \in Nat /\ Len(written["rfc"]) <= Len(written'["rfc"])
      BY <1>0, <1>2, LogsGrow DEF Rings
    <2>2. /\ Len(written["console"]) \in Nat /\ Len(written["rfc"]) \in Nat
          /\ Oldest(ring["console"]) \in 0 .. Len(written["console"])
          /\ Newest(ring["rfc"]) = Len(written["rfc"])
      BY <1>0, Logs DEF Rings, Newest
    <2>3. cursor' \in 0 .. Len(written'["console"])
      <3>1. CASE ConsoleStart
        BY <2>1, <2>2, <3>1 DEF ConsoleStart
      <3>2. CASE Drain
        <4>1. cursor' = Read(ring["console"], cursor, Chunk).cursor /\ cursor \in Nat
          BY <1>0, <2>2, <3>2 DEF Drain, Places
        <4>2. cursor' \in 0 .. Len(written["console"])
          BY <1>0, <4>1, ReadOfLog DEF Rings
        <4> QED BY <2>1, <2>2, <4>2
      <3>3. CASE cursor' = cursor
        BY <1>0, <2>1, <2>2, <3>3 DEF Places
      <3> QED BY <1>2, <3>1, <3>2, <3>3 DEF Next, vars, Toggle, CdcStep, WriteLog, FeedTool,
           CountSuppressed, Receive, ConsoleAccept, ConsoleStep, LookAtTarget, LookAtTool,
           Note, ConsoleLeaves, ToolAccept, ToolStart, ToolDrain, ToolLeaves, Poll, Reload,
           console
    <2>4. toolCursor' \in 0 .. Len(written'["rfc"])
      <3>1. CASE ToolStart
        BY <2>1, <2>2, <3>1 DEF ToolStart
      <3>2. CASE ToolDrain
        <4>1. toolCursor' = Read(ring["rfc"], toolCursor, Chunk).cursor /\ toolCursor \in Nat
          BY <1>0, <2>2, <3>2 DEF ToolDrain, Places
        <4>2. toolCursor' \in 0 .. Len(written["rfc"])
          BY <1>0, <4>1, ReadOfLog DEF Rings
        <4> QED BY <2>1, <2>2, <4>2
      <3>3. CASE toolCursor' = toolCursor
        BY <1>0, <2>1, <2>2, <3>3 DEF Places
      <3> QED BY <1>2, <3>1, <3>2, <3>3 DEF Next, vars, Toggle, CdcStep, WriteLog, FeedTool,
           CountSuppressed, Receive, ConsoleAccept, ConsoleStep, ConsoleStart, LookAtTarget,
           LookAtTool, Note, Drain, ConsoleLeaves, ToolAccept, ToolLeaves, Poll, Reload, rfc
    <2>5. /\ web' \in Nat \cup {-1} /\ sameBoot' \in BOOLEAN
          /\ sameBoot' => web' \in 0 .. Len(written'["console"])
      <3>1. CASE Poll
        <4> DEFINE from == IF web = -1 THEN Oldest(ring["console"]) ELSE web
        <4>1. web' = Read(ring["console"], from, Chunk).cursor /\ sameBoot' = TRUE
          BY <3>1 DEF Poll
        <4>2. from \in Nat
          BY <1>0, <2>2 DEF Places
        <4> HIDE DEF from
        <4>3. web' \in 0 .. Len(written["console"])
          BY <1>0, <4>1, <4>2, ReadOfLog DEF Rings
        <4> QED BY <2>1, <2>2, <4>1, <4>3
      <3>2. CASE Reload
        BY <3>2 DEF Reload
      <3>3. CASE UNCHANGED <<web, sameBoot>>
        BY <1>0, <2>1, <2>2, <3>3 DEF Places
      <3> QED BY <1>2, <3>1, <3>2, <3>3 DEF Next, vars, Toggle, CdcStep, WriteLog, FeedTool,
           CountSuppressed, Receive, ConsoleAccept, ConsoleStep, ConsoleStart, LookAtTarget,
           LookAtTool, Note, Drain, ConsoleLeaves, ToolAccept, ToolStart, ToolDrain,
           ToolLeaves, browser
    <2> QED BY <1>0, <2>3, <2>4, <2>5 DEF ReadersInv, Places
  <1> QED BY <1>1, <1>2

LEMMA ReadersInit == Init => ReadersInv
  <1> SUFFICES ASSUME Init PROVE ReadersInv
    OBVIOUS
  <1>1. IInv
    BY InitInv
  <1>2. /\ written["console"] = <<>> /\ written["rfc"] = <<>>
        /\ cursor = 0 /\ toolCursor = 0 /\ sameBoot = FALSE /\ web = -1
    BY DEF Init, Rings
  <1>3. Len(written["console"]) = 0 /\ Len(written["rfc"]) = 0
    BY <1>2
  <1>4. cursor \in 0 .. Len(written["console"]) /\ toolCursor \in 0 .. Len(written["rfc"])
    BY <1>2, <1>3
  <1>5. web \in Nat \cup {-1} /\ sameBoot \in BOOLEAN /\ ~sameBoot
    BY <1>2
  <1> QED BY <1>1, <1>4, <1>5 DEF ReadersInv, Places

(* What was appended stands behind what was there. *)
LEMMA Appended ==
  ASSUME NEW S, NEW w \in Seq(S), NEW d \in Seq(S), d # <<>>
  PROVE  /\ Len(d) \in 1 .. Len(w \o d) - Len(w)
         /\ SubSeq(w \o d, Len(w) + 1, Len(w) + Len(d)) = d
  <1>1. Len(w) \in Nat /\ Len(d) \in Nat /\ Len(d) > 0
    BY EmptySeq
  <1>2. Len(w \o d) = Len(w) + Len(d)
    OBVIOUS
  <1>3. SubSeq(w \o d, Len(w) + 1, Len(w) + Len(d))
          = SubSeq(d, (Len(w) + 1) - Len(w), (Len(w) + Len(d)) - Len(w))
    <2>1. /\ Len(w) + 1 \in Len(w) + 1 .. Len(w) + Len(d)
          /\ Len(w) + Len(d) \in Len(w) + 1 .. Len(w) + Len(d)
      BY <1>1
    <2> QED BY <2>1, SubSeqOfConcat2
  <1>4. (Len(w) + 1) - Len(w) = 1 /\ (Len(w) + Len(d)) - Len(w) = Len(d)
    BY <1>1
  <1>5. SubSeq(d, 1, Len(d)) = d
    BY SubSeqFull
  <1> QED BY <1>1, <1>2, <1>3, <1>4, <1>5

(* The console's transcript: nothing happens to it, *)
LEMMA ConsoleStutter ==
  ASSUME written'["console"] = written["console"], ConsolePlace' = ConsolePlace,
         ConsoleHanded' = Nobody
  PROVE  ConsoleTranscript!TNext
  BY DEF ConsoleTranscript!TNext, ConsoleTranscript!Nothing, Nobody

(* or it grows. *)
LEMMA ConsoleGrow ==
  ASSUME IInv, NEW data \in Seq(Lines \cup {0}),
         written'["console"] = written["console"] \o data, ConsolePlace' = ConsolePlace,
         ConsoleHanded' = Nobody
  PROVE  ConsoleTranscript!TNext
  <1> DEFINE B == Lines \cup {0}
  <1>0. written["console"] \in Seq(B)
    BY Logs DEF Rings
  <1>1. CASE data = <<>>
    <2>1. written["console"] \o data = written["console"]
      <3> HIDE DEF B
      <3> QED BY <1>0, <1>1, ConcatEmptySeq
    <2> QED BY <2>1, ConsoleStutter
  <1>2. CASE data # <<>>
    <2> DEFINE w == written["console"]
               v == written'["console"]
    <2>1. v = w \o data
      OBVIOUS
    <2>2. w \in Seq(B) /\ data \in Seq(B)
      BY <1>0
    <2> HIDE DEF B
    <2>3. /\ Len(data) \in 1 .. Len(w \o data) - Len(w)
          /\ SubSeq(w \o data, Len(w) + 1, Len(w) + Len(data)) = data
      BY <1>2, <2>2, Appended
    <2>4. /\ Len(data) \in 1 .. Len(v) - Len(w)
          /\ v = w \o SubSeq(v, Len(w) + 1, Len(w) + Len(data))
      BY <2>1, <2>3
    <2>5. ConsoleTranscript!Grow(SubSeq(v, Len(w) + 1, Len(w) + Len(data)))
      BY <2>4 DEF ConsoleTranscript!Grow, ConsoleTranscript!Nothing, Nobody
    <2> QED BY <2>4, <2>5 DEF ConsoleTranscript!TNext
  <1> QED BY <1>1, <1>2

(* A reader that follows the log gets the next bytes. *)
LEMMA ConsoleDeliver ==
  ASSUME IInv, NEW who \in {"console", "web"}, NEW from \in 0 .. Len(written["console"]),
         ConsolePlace[who] = from,
         LET got == Read(ring["console"], from, Chunk)
         IN  /\ ConsolePlace' = [ConsolePlace EXCEPT ![who] = got.cursor]
             /\ ConsoleHanded' = [to |-> who, out |-> got.out, gap |-> IF who = "web" THEN got.skipped ELSE 0],
         written'["console"] = written["console"]
  PROVE  ConsoleTranscript!TNext
  <1> DEFINE got == Read(ring["console"], from, Chunk)
             gap == got.skipped
             n == Len(got.out)
             c == got.cursor
             w == written["console"]
  <1>0. Len(w) \in Nat
    BY Logs DEF Rings
  <1>1. from \in Nat /\ from <= Len(w)
    BY <1>0
  <1>2. /\ c \in 0 .. Len(w) /\ gap \in Nat /\ n \in Nat /\ gap + n <= c
        /\ got.out = SubSeq(w, c - n + 1, c)
        /\ c = from + gap + n
        /\ gap > 0 => from + gap = Len(w) - Capacity
    BY <1>1, ReadOfLog DEF Rings
  <1>3. /\ ConsolePlace' = [ConsolePlace EXCEPT ![who] = c]
        /\ ConsoleHanded' = [to |-> who, out |-> got.out, gap |-> IF who = "web" THEN gap ELSE 0]
    OBVIOUS
  <1> HIDE DEF got, gap, n, c
  <1> DEFINE l == Len(w)
  <1>4. /\ gap \in 0 .. l /\ n \in 0 .. l /\ from + gap + n <= l
        /\ c - n = from + gap /\ from >= 0
    <2>1. l \in Nat /\ c \in 0 .. l
      BY <1>0, <1>2
    <2> HIDE DEF l
    <2> QED BY <1>1, <1>2, <2>1
  <1>5. got.out = SubSeq(w, from + gap + 1, from + gap + n)
    BY <1>2, <1>4
  <1>6. ConsolePlace' = [ConsolePlace EXCEPT ![who] = ConsolePlace[who] + gap + n]
    BY <1>2, <1>3
  <1>7. ConsoleTranscript!Deliver(who, gap, n)
    BY <1>2, <1>3, <1>4, <1>5, <1>6 DEF ConsoleTranscript!Deliver
  <1> QED BY <1>4, <1>7 DEF ConsoleTranscript!TNext

(* A browser begins to follow the log, with a first piece of it. *)
LEMMA ConsoleJoin ==
  ASSUME IInv, NEW from \in Nat, ConsolePlace["web"] = -1,
         LET got == Read(ring["console"], from, Chunk)
         IN  /\ ConsolePlace' = [ConsolePlace EXCEPT !["web"] = got.cursor]
             /\ ConsoleHanded' = [to |-> "web", out |-> got.out, gap |-> got.skipped],
         written'["console"] = written["console"]
  PROVE  ConsoleTranscript!TNext
  <1> DEFINE got == Read(ring["console"], from, Chunk)
             gap == got.skipped
             n == Len(got.out)
             w == written["console"]
             c == got.cursor
             start == c - n
  <1>0. Len(w) \in Nat
    BY Logs DEF Rings
  <1>2. /\ c \in 0 .. Len(w) /\ gap \in Nat /\ n \in Nat /\ gap + n <= c
        /\ got.out = SubSeq(w, c - n + 1, c)
        /\ Len(w) - Capacity <= c - n
    BY ReadOfLog DEF Rings
  <1>3. /\ ConsolePlace' = [ConsolePlace EXCEPT !["web"] = c]
        /\ ConsoleHanded' = [to |-> "web", out |-> got.out, gap |-> gap]
    OBVIOUS
  <1> HIDE DEF got, gap, n, c
  <1> DEFINE l == Len(w)
  <1>4. /\ start \in 0 .. l /\ n \in 0 .. l /\ gap \in 0 .. start
        /\ start + n = c /\ start + n <= l
    <2>1. l \in Nat /\ c \in 0 .. l
      BY <1>0, <1>2
    <2> HIDE DEF l
    <2> QED BY <1>2, <2>1
  <1>5. got.out = SubSeq(w, start + 1, start + n)
    BY <1>2, <1>4
  <1>8. Len(w) - Capacity <= start
    BY <1>2
  <1> HIDE DEF start
  <1>6. ConsolePlace' = [ConsolePlace EXCEPT !["web"] = start + n]
    BY <1>3, <1>4
  <1>7. ConsoleTranscript!Join("web", start, n)
    BY <1>3, <1>4, <1>5, <1>6, <1>8 DEF ConsoleTranscript!Join
  <1> QED BY <1>4, <1>7 DEF ConsoleTranscript!TNext

(* Every step of the bridge is a step of the console's transcript: *)
LEMMA ConsoleTold ==
  ASSUME ReadersInv, [Next]_vars
  PROVE  [ConsoleTranscript!TNext]_ConsoleTranscript!tvars
  <1>0. IInv /\ Places
    BY DEF ReadersInv
  <1>a. /\ Len(written["console"]) \in Nat /\ written["console"] \in Seq(Lines \cup {0})
        /\ Oldest(ring["console"]) \in 0 .. Len(written["console"])
        /\ Len(written["console"]) - Capacity <= Oldest(ring["console"])
        /\ written \in [Rings -> Seq(Lines \cup {0})]
    <2>1. /\ Len(written["console"]) \in Nat /\ written["console"] \in Seq(Lines \cup {0})
          /\ Oldest(ring["console"]) \in 0 .. Len(written["console"])
          /\ ring["console"].total = Len(written["console"])
          /\ written \in [Rings -> Seq(Lines \cup {0})]
      BY <1>0, Logs DEF Rings, IInv, RingsTyped
    <2>2. Len(written["console"]) - Capacity <= Oldest(ring["console"])
      BY <2>1, CapacityAssumption DEF Oldest
    <2> QED BY <2>1, <2>2
  <1>n. Nobody.to = "nobody"
    BY DEF Nobody
  <1>1. CASE Restart
    <2>1. /\ written'["console"] = <<>> /\ pc' = "accept" /\ sameBoot' = FALSE
          /\ handed' = Nobody
      BY <1>1 DEF Restart, Rings
    <2>2. ConsolePlace' = [r \in {"console", "web"} |-> -1]
      BY <2>1 DEF ConsolePlace
    <2>3. ConsoleHanded' = Nobody
      BY <2>1 DEF ConsoleHanded
    <2>4. ConsoleTranscript!TInit'
      BY <2>1, <2>2, <2>3 DEF ConsoleTranscript!TInit, ConsoleTranscript!Nothing, Nobody
    <2> QED BY <2>4 DEF ConsoleTranscript!TNext
  <1>2. ASSUME handed' = Nobody \/ handed'.to = "tool", UNCHANGED <<cursor, web, sameBoot>>,
               pc \in {"accept", "start"} <=> pc' \in {"accept", "start"}
        PROVE  ConsolePlace' = ConsolePlace /\ ConsoleHanded' = Nobody
    <2>1. ConsolePlace' = ConsolePlace
      BY <1>2 DEF ConsolePlace
    <2>2. ConsoleHanded' = Nobody
      BY <1>2, <1>n DEF ConsoleHanded
    <2> QED BY <2>1, <2>2
  <1>3. CASE WriteLog
    <2>1. written'["console"] = written["console"] \o cdc.data
      BY <1>3, <1>a DEF WriteLog, Put, Rings
    <2>2. ConsolePlace' = ConsolePlace /\ ConsoleHanded' = Nobody
      BY <1>3, <1>2 DEF WriteLog, console, browser
    <2>3. cdc.data \in Seq(Lines \cup {0})
      BY <1>0 DEF IInv, CarriesLittle
    <2> QED BY <1>0, <2>1, <2>2, <2>3, ConsoleGrow
  <1>4. CASE Note
    <2>1. written'["console"] = written["console"] \o <<pending>>
      BY <1>4, <1>a DEF Note, Put, Rings
    <2>2. ConsolePlace' = ConsolePlace /\ ConsoleHanded' = Nobody
      BY <1>4, <1>2 DEF Note, browser
    <2>3. <<pending>> \in Seq(Lines \cup {0})
      BY <1>0, <1>4 DEF Note, IInv, NotesOneLine
    <2> QED BY <1>0, <2>1, <2>2, <2>3, ConsoleGrow
  <1>5. CASE FeedTool
    <2>1. written'["console"] = written["console"]
      BY <1>5, <1>a DEF FeedTool, Put, Rings
    <2>2. ConsolePlace' = ConsolePlace /\ ConsoleHanded' = Nobody
      BY <1>5, <1>2 DEF FeedTool, console, browser
    <2> QED BY <2>1, <2>2, ConsoleStutter
  <1>6. ASSUME NEW n \in 1 .. Transfer, Receive(n) PROVE ConsoleTranscript!TNext
    BY <1>6, <1>2, ConsoleStutter DEF Receive, console, browser
  <1>7. CASE Toggle \/ CountSuppressed
    BY <1>7, <1>2, ConsoleStutter DEF Toggle, CountSuppressed, console, browser
  <1>8. CASE ConsoleAccept \/ LookAtTarget \/ LookAtTool
    BY <1>8, <1>2, ConsoleStutter DEF ConsoleAccept, LookAtTarget, LookAtTool, browser
  <1>9. CASE ToolAccept \/ ToolStart \/ ToolDrain \/ ToolLeaves
    BY <1>9, <1>2, ConsoleStutter DEF ToolAccept, ToolStart, ToolDrain, ToolLeaves, Hand,
       console, browser
  <1>10. CASE ConsoleStart
    <2> DEFINE from == Oldest(ring["console"])
    <2>1. /\ pc = "start" /\ pc' = "target" /\ cursor' = from
          /\ UNCHANGED <<web, sameBoot, written>> /\ handed' = Nobody
      BY <1>10 DEF ConsoleStart, browser
    <2>2. from \in 0 .. Len(written["console"]) /\ from + 0 = from
          /\ from + 0 <= Len(written["console"])
          /\ Len(written["console"]) - Capacity <= from
      BY <1>a
    <2> HIDE DEF from
    <2>3. /\ ConsolePlace["console"] = -1
          /\ ConsolePlace' = [ConsolePlace EXCEPT !["console"] = from]
          /\ ConsoleHanded' = Nobody
      BY <2>1, <1>n DEF ConsolePlace, ConsoleHanded
    <2>4. ConsoleTranscript!Join("console", from, 0)
      <3>1. ConsolePlace' = [ConsolePlace EXCEPT !["console"] = from + 0]
        BY <2>2, <2>3
      <3>2. written'["console"] = written["console"]
        BY <2>1
      <3> QED BY <2>2, <2>3, <3>1, <3>2
          DEF ConsoleTranscript!Join, ConsoleTranscript!Nothing, Nobody
    <2>5. from \in 0 .. Len(written["console"]) /\ 0 \in 0 .. Len(written["console"])
      BY <1>a, <2>2
    <2> QED BY <2>4, <2>5 DEF ConsoleTranscript!TNext
  <1>11. CASE Drain
    <2> DEFINE got == Read(ring["console"], cursor, Chunk)
    <2>1. /\ pc = "drain" /\ pc' \in {"target", "drain"} /\ cursor' = got.cursor
          /\ UNCHANGED <<web, sameBoot, written>>
          /\ handed' = [to |-> "console", out |-> got.out, gap |-> 0]
      BY <1>11 DEF Drain, browser, Hand
    <2>2. ConsoleHanded' = handed'
      BY <2>1 DEF ConsoleHanded
    <2>3. ConsolePlace["console"] = cursor
      BY <2>1 DEF ConsolePlace
    <2>4. ConsolePlace' = [ConsolePlace EXCEPT !["console"] = got.cursor]
      <3> HIDE DEF got
      <3> QED BY <2>1 DEF ConsolePlace
    <2>5. cursor \in 0 .. Len(written["console"]) /\ written'["console"] = written["console"]
      BY <1>0, <2>1 DEF Places
    <2> QED BY <1>0, <2>1, <2>2, <2>3, <2>4, <2>5, ConsoleDeliver
  <1>12. CASE ConsoleLeaves
    <2>1. /\ pc' = "accept" /\ UNCHANGED <<web, sameBoot, written>> /\ handed' = Nobody
      BY <1>12 DEF ConsoleLeaves, browser
    <2>2. ConsolePlace' = [ConsolePlace EXCEPT !["console"] = -1] /\ ConsoleHanded' = Nobody
      BY <2>1, <1>n DEF ConsolePlace, ConsoleHanded
    <2>3. ConsoleTranscript!Leave("console")
      BY <2>1, <2>2 DEF ConsoleTranscript!Leave, ConsoleTranscript!Nothing, Nobody
    <2> QED BY <2>3 DEF ConsoleTranscript!TNext
  <1>13. CASE Poll
    <2> DEFINE from == IF web = -1 THEN Oldest(ring["console"]) ELSE web
               got == Read(ring["console"], from, Chunk)
    <2>1. /\ web' = got.cursor /\ sameBoot' = TRUE /\ UNCHANGED <<pc, cursor, written>>
          /\ handed' = [to |-> "web", out |-> got.out, gap |-> got.skipped]
      BY <1>13 DEF Poll, Hand, console
    <2>2. ConsoleHanded' = handed'
      BY <2>1 DEF ConsoleHanded
    <2>3. ConsolePlace' = [ConsolePlace EXCEPT !["web"] = got.cursor]
      <3> HIDE DEF got
      <3> QED BY <2>1 DEF ConsolePlace
    <2>4. CASE sameBoot
      <3>1. from = web /\ from \in 0 .. Len(written["console"]) /\ ConsolePlace["web"] = from
        <4>1. web \in 0 .. Len(written["console"]) /\ web # -1
          BY <1>0, <1>a, <2>4 DEF Places
        <4> QED BY <2>4, <4>1 DEF ConsolePlace
      <3> HIDE DEF from
      <3> QED BY <1>0, <2>1, <2>2, <2>3, <3>1, ConsoleDeliver
    <2>5. CASE ~sameBoot
      <3>1. from \in Nat
        BY <1>0, <1>a DEF Places
      <3>2. ConsolePlace["web"] = -1
        BY <2>5 DEF ConsolePlace
      <3> HIDE DEF from
      <3> QED BY <1>0, <2>1, <2>2, <2>3, <3>1, <3>2, ConsoleJoin
    <2> QED BY <2>4, <2>5
  <1>14. CASE Reload
    <2>1. sameBoot' = FALSE /\ UNCHANGED <<pc, cursor, written>> /\ handed' = Nobody
      BY <1>14 DEF Reload, console
    <2>2. ConsolePlace' = [ConsolePlace EXCEPT !["web"] = -1] /\ ConsoleHanded' = Nobody
      BY <2>1, <1>n DEF ConsolePlace, ConsoleHanded
    <2>3. ConsoleTranscript!Leave("web")
      BY <2>1, <2>2 DEF ConsoleTranscript!Leave, ConsoleTranscript!Nothing, Nobody
    <2> QED BY <2>3 DEF ConsoleTranscript!TNext
  <1>15. CASE UNCHANGED vars
    BY <1>15 DEF vars, console, browser, ConsoleTranscript!tvars, ConsolePlace, ConsoleHanded
  <1> QED BY <1>1, <1>3, <1>4, <1>5, <1>6, <1>7, <1>8, <1>9, <1>10, <1>11, <1>12, <1>13,
       <1>14, <1>15 DEF Next, CdcStep, ConsoleStep

(* The same of the flash tool's transcript. *)
LEMMA ToolStutter ==
  ASSUME written'["rfc"] = written["rfc"], ToolPlace' = ToolPlace,
         ToolHanded' = Nobody
  PROVE  ToolTranscript!TNext
  BY DEF ToolTranscript!TNext, ToolTranscript!Nothing, Nobody

LEMMA ToolGrow ==
  ASSUME IInv, NEW data \in Seq(Lines \cup {0}),
         written'["rfc"] = written["rfc"] \o data, ToolPlace' = ToolPlace,
         ToolHanded' = Nobody
  PROVE  ToolTranscript!TNext
  <1> DEFINE B == Lines \cup {0}
  <1>0. written["rfc"] \in Seq(B)
    BY Logs DEF Rings
  <1>1. CASE data = <<>>
    <2>1. written["rfc"] \o data = written["rfc"]
      <3> HIDE DEF B
      <3> QED BY <1>0, <1>1, ConcatEmptySeq
    <2> QED BY <2>1, ToolStutter
  <1>2. CASE data # <<>>
    <2> DEFINE w == written["rfc"]
               v == written'["rfc"]
    <2>1. v = w \o data
      OBVIOUS
    <2>2. w \in Seq(B) /\ data \in Seq(B)
      BY <1>0
    <2> HIDE DEF B
    <2>3. /\ Len(data) \in 1 .. Len(w \o data) - Len(w)
          /\ SubSeq(w \o data, Len(w) + 1, Len(w) + Len(data)) = data
      BY <1>2, <2>2, Appended
    <2>4. /\ Len(data) \in 1 .. Len(v) - Len(w)
          /\ v = w \o SubSeq(v, Len(w) + 1, Len(w) + Len(data))
      BY <2>1, <2>3
    <2>5. ToolTranscript!Grow(SubSeq(v, Len(w) + 1, Len(w) + Len(data)))
      BY <2>4 DEF ToolTranscript!Grow, ToolTranscript!Nothing, Nobody
    <2> QED BY <2>4, <2>5 DEF ToolTranscript!TNext
  <1> QED BY <1>1, <1>2

LEMMA ToolDeliver ==
  ASSUME IInv, NEW from \in 0 .. Len(written["rfc"]),
         ToolPlace["tool"] = from,
         LET got == Read(ring["rfc"], from, Chunk)
         IN  /\ ToolPlace' = [ToolPlace EXCEPT !["tool"] = got.cursor]
             /\ ToolHanded' = [to |-> "tool", out |-> got.out, gap |-> 0],
         written'["rfc"] = written["rfc"]
  PROVE  ToolTranscript!TNext
  <1> DEFINE got == Read(ring["rfc"], from, Chunk)
             gap == got.skipped
             n == Len(got.out)
             c == got.cursor
             w == written["rfc"]
  <1>0. Len(w) \in Nat
    BY Logs DEF Rings
  <1>1. from \in Nat /\ from <= Len(w)
    BY <1>0
  <1>2. /\ c \in 0 .. Len(w) /\ gap \in Nat /\ n \in Nat /\ gap + n <= c
        /\ got.out = SubSeq(w, c - n + 1, c)
        /\ c = from + gap + n
        /\ gap > 0 => from + gap = Len(w) - Capacity
    BY <1>1, ReadOfLog DEF Rings
  <1>3. /\ ToolPlace' = [ToolPlace EXCEPT !["tool"] = c]
        /\ ToolHanded' = [to |-> "tool", out |-> got.out, gap |-> 0]
    OBVIOUS
  <1> HIDE DEF got, gap, n, c
  <1> DEFINE l == Len(w)
  <1>4. /\ gap \in 0 .. l /\ n \in 0 .. l /\ from + gap + n <= l
        /\ c - n = from + gap /\ from >= 0
    <2>1. l \in Nat /\ c \in 0 .. l
      BY <1>0, <1>2
    <2> HIDE DEF l
    <2> QED BY <1>1, <1>2, <2>1
  <1>5. got.out = SubSeq(w, from + gap + 1, from + gap + n)
    BY <1>2, <1>4
  <1>6. ToolPlace' = [ToolPlace EXCEPT !["tool"] = ToolPlace["tool"] + gap + n]
    BY <1>2, <1>3
  <1>7. ToolTranscript!Deliver("tool", gap, n)
    BY <1>2, <1>3, <1>4, <1>5, <1>6 DEF ToolTranscript!Deliver
  <1> QED BY <1>4, <1>7 DEF ToolTranscript!TNext

LEMMA ToolTold ==
  ASSUME ReadersInv, [Next]_vars
  PROVE  [ToolTranscript!TNext]_ToolTranscript!tvars
  <1>0. IInv /\ Places
    BY DEF ReadersInv
  <1>a. /\ Len(written["rfc"]) \in Nat
        /\ Newest(ring["rfc"]) = Len(written["rfc"])
        /\ written \in [Rings -> Seq(Lines \cup {0})]
    BY <1>0, Logs DEF Rings, IInv, RingsTyped, Newest
  <1>n. Nobody.to = "nobody"
    BY DEF Nobody
  <1>1. CASE Restart
    <2>1. written'["rfc"] = <<>> /\ tool' = "accept" /\ handed' = Nobody
      BY <1>1 DEF Restart, Rings
    <2>2. ToolPlace' = [r \in {"tool"} |-> -1] /\ ToolHanded' = Nobody
      BY <2>1 DEF ToolPlace, ToolHanded
    <2>3. ToolTranscript!TInit'
      BY <2>1, <2>2 DEF ToolTranscript!TInit, ToolTranscript!Nothing, Nobody
    <2> QED BY <2>3 DEF ToolTranscript!TNext
  <1>2. ASSUME handed' = Nobody \/ handed'.to \in {"console", "web"},
               toolCursor' = toolCursor, tool = "serve" <=> tool' = "serve"
        PROVE  ToolPlace' = ToolPlace /\ ToolHanded' = Nobody
    <2>1. ToolPlace' = ToolPlace
      BY <1>2 DEF ToolPlace
    <2>2. ToolHanded' = Nobody
      BY <1>2, <1>n DEF ToolHanded
    <2> QED BY <2>1, <2>2
  <1>3. CASE FeedTool
    <2>1. written'["rfc"] = written["rfc"] \o cdc.data
      BY <1>3, <1>a DEF FeedTool, Put, Rings
    <2>2. ToolPlace' = ToolPlace /\ ToolHanded' = Nobody
      BY <1>3, <1>2 DEF FeedTool, rfc
    <2>3. cdc.data \in Seq(Lines \cup {0})
      BY <1>0 DEF IInv, CarriesLittle
    <2> QED BY <1>0, <2>1, <2>2, <2>3, ToolGrow
  <1>4. CASE WriteLog \/ Note
    <2>1. written'["rfc"] = written["rfc"]
      BY <1>4, <1>a DEF WriteLog, Note, Put, Rings
    <2>2. ToolPlace' = ToolPlace /\ ToolHanded' = Nobody
      BY <1>4, <1>2 DEF WriteLog, Note, rfc
    <2> QED BY <2>1, <2>2, ToolStutter
  <1>5. ASSUME NEW n \in 1 .. Transfer, Receive(n) PROVE ToolTranscript!TNext
    BY <1>5, <1>2, ToolStutter DEF Receive, rfc
  <1>6. CASE Toggle \/ CountSuppressed \/ ToolAccept
    BY <1>6, <1>2, ToolStutter DEF Toggle, CountSuppressed, ToolAccept, rfc
  <1>7. CASE \/ ConsoleAccept \/ ConsoleStart \/ LookAtTarget \/ LookAtTool \/ Drain
             \/ ConsoleLeaves
    BY <1>7, <1>2, ToolStutter DEF ConsoleAccept, ConsoleStart, LookAtTarget, LookAtTool,
       Drain, ConsoleLeaves, Hand, rfc
  <1>8. CASE Poll \/ Reload
    BY <1>8, <1>2, ToolStutter DEF Poll, Reload, Hand, rfc
  <1>9. CASE ToolStart
    <2> DEFINE l == Len(written["rfc"])
    <2>1. /\ tool = "hello" /\ tool' = "serve" /\ toolCursor' = l
          /\ written' = written /\ handed' = Nobody
      BY <1>9, <1>a DEF ToolStart
    <2>2. l + 0 = l /\ l + 0 <= l /\ l \in 0 .. l /\ 0 \in 0 .. l /\ l - Capacity <= l
      BY <1>a, CapacityAssumption
    <2>3. ToolPlace["tool"] = -1 /\ ToolPlace' = [ToolPlace EXCEPT !["tool"] = l + 0]
      <3> HIDE DEF l
      <3> QED BY <2>1, <2>2 DEF ToolPlace
    <2>4. ToolHanded' = Nobody
      BY <2>1, <1>n DEF ToolHanded
    <2>5. ToolTranscript!Join("tool", l, 0)
      BY <2>1, <2>2, <2>3, <2>4 DEF ToolTranscript!Join, ToolTranscript!Nothing, Nobody
    <2> QED BY <2>2, <2>5 DEF ToolTranscript!TNext
  <1>10. CASE ToolDrain
    <2> DEFINE got == Read(ring["rfc"], toolCursor, Chunk)
    <2>1. /\ tool = "serve" /\ tool' = tool /\ toolCursor' = got.cursor
          /\ written' = written
          /\ handed' = [to |-> "tool", out |-> got.out, gap |-> 0]
      BY <1>10 DEF ToolDrain, Hand
    <2>2. ToolHanded' = handed'
      BY <2>1 DEF ToolHanded
    <2>3. ToolPlace["tool"] = toolCursor
      BY <2>1 DEF ToolPlace
    <2>4. ToolPlace' = [ToolPlace EXCEPT !["tool"] = got.cursor]
      <3> HIDE DEF got
      <3> QED BY <2>1 DEF ToolPlace
    <2>5. toolCursor \in 0 .. Len(written["rfc"]) /\ written'["rfc"] = written["rfc"]
      BY <1>0, <2>1 DEF Places
    <2> QED BY <1>0, <2>1, <2>2, <2>3, <2>4, <2>5, ToolDeliver
  <1>11. CASE ToolLeaves
    <2>1. tool' = "accept" /\ written' = written /\ handed' = Nobody
      BY <1>11 DEF ToolLeaves
    <2>2. ToolPlace' = [ToolPlace EXCEPT !["tool"] = -1] /\ ToolHanded' = Nobody
      BY <2>1, <1>n DEF ToolPlace, ToolHanded
    <2>3. ToolTranscript!Leave("tool")
      BY <2>1, <2>2 DEF ToolTranscript!Leave, ToolTranscript!Nothing, Nobody
    <2> QED BY <2>3 DEF ToolTranscript!TNext
  <1>12. CASE UNCHANGED vars
    BY <1>12 DEF vars, rfc, ToolTranscript!tvars, ToolPlace, ToolHanded
  <1> QED BY <1>1, <1>3, <1>4, <1>5, <1>6, <1>7, <1>8, <1>9, <1>10, <1>11, <1>12
       DEF Next, CdcStep, ConsoleStep

LEMMA TranscriptsBegin == Init => ConsoleTranscript!TInit /\ ToolTranscript!TInit
  <1> SUFFICES ASSUME Init PROVE ConsoleTranscript!TInit /\ ToolTranscript!TInit
    OBVIOUS
  <1>1. /\ written["console"] = <<>> /\ written["rfc"] = <<>> /\ pc = "accept"
        /\ sameBoot = FALSE /\ tool = "accept" /\ handed = Nobody
    BY DEF Init, Rings
  <1>2. ConsolePlace = [r \in {"console", "web"} |-> -1] /\ ToolPlace = [r \in {"tool"} |-> -1]
    BY <1>1 DEF ConsolePlace, ToolPlace
  <1>3. ConsoleHanded = Nobody /\ ToolHanded = Nobody
    BY <1>1 DEF ConsoleHanded, ToolHanded
  <1> QED BY <1>1, <1>2, <1>3 DEF ConsoleTranscript!TInit, ConsoleTranscript!Nothing,
       ToolTranscript!TInit, ToolTranscript!Nothing, Nobody

(* serveClient(), the RFC2217 server's loop and handleConsole() over       *)
(* RingBuffer::read(): the console client, the flash tool and the browser  *)
(* get what was written, in order and once, from where they are; they miss *)
(* only what the ring overran, and the browser, which alone is told, is    *)
(* told exactly how much.  For every capacity and every size of transfers  *)
(* and reads.                                                              *)
THEOREM BridgeImplementsTranscripts == Spec => ReadersFollowLog
  <1>1. Init => ReadersInv
    BY ReadersInit
  <1>2. ReadersInv /\ [Next]_vars => ReadersInv'
    BY PlacesStep
  <1>3. Init => ConsoleTranscript!TInit /\ ToolTranscript!TInit
    BY TranscriptsBegin
  <1>4. ReadersInv /\ [Next]_vars => [ConsoleTranscript!TNext]_ConsoleTranscript!tvars
    BY ConsoleTold
  <1>5. ReadersInv /\ [Next]_vars => [ToolTranscript!TNext]_ToolTranscript!tvars
    BY ToolTold
  <1> QED BY <1>1, <1>2, <1>3, <1>4, <1>5, PTL
       DEF Spec, ReadersFollowLog, ConsoleTranscript!TSpec, ToolTranscript!TSpec

(* ------------------------- the types of the bridge --------------------- *)

(* No byte is counted as suppressed that the target has not sent: those    *)
(* the callback still carries are not counted yet.                         *)
CountsAndCarries ==
  /\ open \in BOOLEAN
  /\ pc \in {"accept", "start", "target", "noteTarget", "tool", "noteTool", "drain"}
  /\ tool \in {"accept", "hello", "serve"}
  /\ Len(cdc.data) \in 0 .. Transfer
  /\ suppressed + Len(cdc.data) <= fromTarget

LEMMA CountsStart == Init => CountsAndCarries
  <1>1. Resting.data = <<>> /\ Len(<<>>) = 0 /\ 0 \in 0 .. Transfer /\ 0 + 0 <= 0
    BY StreamAssumption, CapacityAssumption DEF Resting
  <1> QED BY <1>1 DEF Init, CountsAndCarries

LEMMA CountsStep == IInv /\ CountsAndCarries /\ [Next]_vars => CountsAndCarries'
  <1> SUFFICES ASSUME IInv, CountsAndCarries, [Next]_vars PROVE CountsAndCarries'
    OBVIOUS
  <1>1. /\ fromTarget \in Nat /\ suppressed \in Nat /\ Len(cdc.data) \in Nat
        /\ Resting.data = <<>> /\ Len(<<>>) = 0 /\ Transfer \in Nat
    <2>1. cdc.data \in Seq(Lines \cup {0})
      BY DEF IInv, CarriesLittle
    <2> QED BY <2>1, StreamAssumption, CapacityAssumption DEF IInv, CarriesLittle, Resting
  <1>2. CASE Restart
    <2>1. /\ cdc' = Resting /\ suppressed' = 0 /\ fromTarget' = 0 /\ open' = FALSE
          /\ pc' = "accept" /\ tool' = "accept"
      BY <1>2 DEF Restart
    <2>2. Len(cdc'.data) = 0
      BY <1>1, <2>1
    <2>3. Len(cdc'.data) \in 0 .. Transfer /\ suppressed' + Len(cdc'.data) <= fromTarget'
      BY <1>1, <2>1, <2>2
    <2> QED BY <2>1, <2>3 DEF CountsAndCarries
  <1>3. ASSUME NEW n \in 1 .. Transfer, Receive(n) PROVE CountsAndCarries'
    <2>1. Len(Bytes(fromTarget, n)) = n
      BY <1>1 DEF Bytes
    <2>2. cdc'.data = Bytes(fromTarget, n) /\ fromTarget' = fromTarget + n /\ suppressed' = suppressed
      BY <1>3 DEF Receive
    <2>3. open' = open /\ pc' = pc /\ tool' = tool
      BY <1>3 DEF Receive, console, rfc
    <2> QED BY <1>1, <2>1, <2>2, <2>3 DEF CountsAndCarries
  <1>4. CASE CdcStep
    <2>1. /\ cdc' = Resting \/ cdc' = [cdc EXCEPT !.at = "count"]
          /\ suppressed' = suppressed \/ (suppressed' = suppressed + Len(cdc.data) /\ cdc' = Resting)
          /\ open' = open /\ fromTarget' = fromTarget /\ pc' = pc /\ tool' = tool
      BY <1>4 DEF CdcStep, WriteLog, FeedTool, CountSuppressed, console, rfc
    <2>2. cdc'.data = cdc.data \/ cdc'.data = <<>>
      BY <1>1, <2>1 DEF IInv, CarriesLittle
    <2>3. cdc' = Resting => cdc'.data = <<>>
      BY <1>1
    <2> QED BY <1>1, <2>1, <2>2, <2>3 DEF CountsAndCarries
  <1>5. CASE ConsoleStep
    BY <1>1, <1>5 DEF ConsoleStep, ConsoleStart, LookAtTarget, LookAtTool, Note, Drain, target, rfc,
       CountsAndCarries
  <1>6. CASE UNCHANGED <<cdc, fromTarget, suppressed>>
    BY <1>6 DEF Next, Restart, Receive, CdcStep, WriteLog, FeedTool, CountSuppressed, ConsoleStep,
       ConsoleStart, LookAtTarget, LookAtTool, Note, Drain, Toggle, ConsoleAccept, ConsoleLeaves,
       ToolAccept, ToolStart, ToolDrain, ToolLeaves, Poll, Reload, vars, target, console, rfc,
       Resting, CountsAndCarries
  <1>7. \/ UNCHANGED <<cdc, fromTarget, suppressed>> \/ Restart \/ CdcStep \/ ConsoleStep
        \/ \E n \in 1 .. Transfer : Receive(n)
    BY DEF Next, Toggle, ConsoleAccept, ConsoleLeaves,
       ToolAccept, ToolStart, ToolDrain, ToolLeaves, Poll, Reload, vars, target
  <1> QED BY <1>2, <1>3, <1>4, <1>5, <1>6, <1>7

(* onTargetData(), serveClient() and handleConsole(): no cursor is ahead   *)
(* of its ring, no transfer is longer than the driver's buffer, and        *)
(* m_fromTarget is never less than m_suppressed (TypeOK).                  *)
THEOREM StreamTypes == Spec => []TypeOK
  <1>1. ReadersInv /\ CountsAndCarries => TypeOK
    <2> SUFFICES ASSUME ReadersInv, CountsAndCarries PROVE TypeOK
      OBVIOUS
    <2>1. IInv /\ Places
      BY DEF ReadersInv
    <2>2. /\ ring["console"].total = Len(written["console"])
          /\ ring["rfc"].total = Len(written["rfc"])
          /\ Len(written["console"]) \in Nat /\ Len(written["rfc"]) \in Nat
      BY <2>1, Logs DEF Rings
    <2>3. /\ cursor <= ring["console"].total /\ toolCursor <= ring["rfc"].total
          /\ sameBoot => web \in 0 .. ring["console"].total
      BY <2>1, <2>2 DEF Places
    <2>4. /\ RingsHold /\ fromTarget \in Nat /\ suppressed \in Nat
          /\ cdc.at \in {"idle", "write", "feed", "count"}
      BY <2>1 DEF IInv, CarriesLittle
    <2> QED BY <2>3, <2>4 DEF CountsAndCarries, TypeOK
  <1>2. Init => ReadersInv /\ CountsAndCarries
    BY ReadersInit, CountsStart
  <1>3. ReadersInv /\ CountsAndCarries /\ [Next]_vars => (ReadersInv /\ CountsAndCarries)'
    BY PlacesStep, CountsStep DEF ReadersInv
  <1> QED BY <1>1, <1>2, <1>3, PTL DEF Spec
=============================================================================
