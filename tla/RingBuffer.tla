----------------------------- MODULE RingBuffer -----------------------------
(***************************************************************************)
(* RingBuffer.cpp: the log of the last Capacity bytes, read by absolute    *)
(* cursors.  Every method runs under one mutex, so each is one operator    *)
(* from the ring before to the ring after.  m_total counts every byte ever *)
(* written; it is 64 bits wide and does not wrap in the life of a probe.   *)
(***************************************************************************)
EXTENDS Integers, Sequences

CONSTANT Capacity  \* 16384 for the console, 4096 for RFC2217

ASSUME CapacityAssumption == Capacity \in Nat \ {0}

Slots == 0 .. Capacity - 1

(* init(): the memory is not cleared, but nothing reads a slot before it   *)
(* is written; 0 stands for whatever was there.                            *)
Empty == [slots |-> [k \in Slots |-> 0], total |-> 0]

(* oldest() and newest(). *)
Oldest(r) == IF r.total > Capacity THEN r.total - Capacity ELSE 0
Newest(r) == r.total

(* How far slot k lies behind the position the next byte goes to: the two  *)
(* memcpy of write(), the second one from offset 0.                        *)
Behind(r, k) ==
  LET position == r.total % Capacity
  IN  IF k >= position THEN k - position ELSE k - position + Capacity

Write(r, data) ==
  [slots |-> [k \in Slots |->
      IF Len(data) >= Capacity
      THEN data[Len(data) - Capacity + k + 1]
      ELSE IF Behind(r, k) < Len(data)
           THEN data[Behind(r, k) + 1]
           ELSE r.slots[k]],
   total |-> r.total + Len(data)]

(* read(): skips what was overwritten and says how much that was, clamps a *)
(* cursor from the future, hands out at most max bytes.                    *)
Start(r, cursor) ==
  IF cursor < Oldest(r) THEN Oldest(r)
  ELSE IF cursor > r.total THEN r.total ELSE cursor

Skipped(r, cursor) == IF cursor < Oldest(r) THEN Oldest(r) - cursor ELSE 0

ReadStuck(r, cursor, max) ==
  LET count == IF cursor < Oldest(r) \/ cursor > r.total THEN 0
               ELSE IF r.total - cursor < max THEN r.total - cursor ELSE max
  IN  [cursor  |-> cursor + count,
       skipped |-> 0,
       out     |-> [i \in 1 .. count |-> r.slots[(cursor + i - 1) % Capacity]]]

ReadUnreported(r, cursor, max) ==
  LET start == Start(r, cursor)
      count == IF r.total - start < max THEN r.total - start ELSE max
  IN  [cursor  |-> start + count,
       skipped |-> 0,
       out     |-> [i \in 1 .. count |-> r.slots[(start + i - 1) % Capacity]]]

Read(r, cursor, max) ==
  LET start == Start(r, cursor)
      count == IF r.total - start < max THEN r.total - start ELSE max
  IN  [cursor  |-> start + count,
       skipped |-> Skipped(r, cursor),
       out     |-> [i \in 1 .. count |-> r.slots[(start + i - 1) % Capacity]]]

(* What a ring is for: the slots hold the newest bytes of all that were    *)
(* ever written, each at its number modulo the capacity.                   *)
Holds(r, written) ==
  /\ r.total = Len(written)
  /\ \A i \in Oldest(r) .. r.total - 1 : r.slots[i % Capacity] = written[i + 1]
=============================================================================
