------------------------------- MODULE MCGate -------------------------------
(* Gate for TLC: the wishes of a world that is mostly, but not always, kind. *)
EXTENDS Gate
World(n, s, f, c, r) == [nets |-> n, slow |-> s, fades |-> f, cuts |-> c, requests |-> r]
SomeWorlds == {World(2, 1, 1, 1, 1), World(3, 1, 2, 0, 0), World(1, 0, 1, 1, 2)}
=============================================================================
