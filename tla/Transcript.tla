----------------------------- MODULE Transcript -----------------------------
(***************************************************************************)
(* What a log is to its readers, without any ring: one transcript that     *)
(* only grows and keeps its last Depth bytes, and readers that follow it.  *)
(* A reader misses only what fell out of the log before it came for it.    *)
(* Some are told how much that was; RingBuffer.hpp reports it to whoever   *)
(* calls read(), and not every caller passes it on.                        *)
(***************************************************************************)
EXTENDS Integers, Sequences

CONSTANTS
  Readers,
  Told,     \* those of them that are told what they missed
  Depth     \* how much the log keeps

VARIABLES
  written,  \* everything ever written
  place,    \* how far each reader is, -1 while it does not follow
  handed    \* what this step gave: to whom, the bytes, the reported gap

tvars == <<written, place, handed>>

Nothing == [to |-> "nobody", out |-> <<>>, gap |-> 0]

TInit ==
  /\ written = <<>>
  /\ place = [r \in Readers |-> -1]
  /\ handed = Nothing

Grow(new) ==
  /\ written' = written \o new
  /\ UNCHANGED place
  /\ handed' = Nothing

(* A reader that follows gets the next bytes, or the oldest ones still     *)
(* there.                                                                  *)
Deliver(r, gap, n) ==
  /\ place[r] >= 0
  /\ place[r] + gap + n <= Len(written)
  /\ gap > 0 => place[r] + gap = Len(written) - Depth
  /\ place' = [place EXCEPT ![r] = @ + gap + n]
  /\ handed' = [to |-> r, gap |-> IF r \in Told THEN gap ELSE 0,
       out |-> SubSeq(written, place[r] + gap + 1, place[r] + gap + n)]
  /\ UNCHANGED written

(* A reader comes, somewhere in the log, perhaps with a first piece, or    *)
(* goes.                                                                   *)
Join(r, from, n) ==
  /\ place[r] = -1
  /\ Len(written) - Depth <= from /\ from + n <= Len(written)
  /\ place' = [place EXCEPT ![r] = from + n]
  /\ \/ n = 0 /\ handed' = Nothing
     \/ \E gap \in 0 .. from :
          handed' = [to |-> r, gap |-> gap, out |-> SubSeq(written, from + 1, from + n)]
  /\ UNCHANGED written

Leave(r) ==
  /\ place' = [place EXCEPT ![r] = -1]
  /\ handed' = Nothing
  /\ UNCHANGED written

TNext ==
  \/ \E n \in 1 .. Len(written') - Len(written) :
       Grow(SubSeq(written', Len(written) + 1, Len(written) + n))
  \/ \E r \in Readers :
       \/ \E gap, n \in 0 .. Len(written) : Deliver(r, gap, n) \/ Join(r, gap, n)
       \/ Leave(r)
  \/ handed' = Nothing /\ UNCHANGED <<written, place>>
  \/ TInit'   \* the probe restarts

TSpec == TInit /\ [][TNext]_tvars
=============================================================================
