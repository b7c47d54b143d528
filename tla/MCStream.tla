------------------------------ MODULE MCStream ------------------------------
(* An instance of Stream for TLC: what goes on at the same time. *)
EXTENDS Stream

Nothing == [e \in Events |-> 0]

\* console clients come and go during two flash sessions, one perhaps unseen
Flashing == [Nothing EXCEPT !.bytes = 2, !.toggles = 1, !.consoles = 2, !.tools = 2]
\* console clients come and go, the target too; the log overruns them
Watching == [Nothing EXCEPT !.bytes = 6, !.toggles = 2, !.consoles = 2]
\* a browser follows the log over a restart
Browsing == [Nothing EXCEPT !.bytes = 6, !.toggles = 2, !.polls = 5, !.restarts = 1]
\* two flash tools get the target's answers
Answering == [Nothing EXCEPT !.bytes = 6, !.toggles = 1, !.tools = 2, !.reads = 4]

Mixes == {Flashing, Watching, Browsing, Answering}
=============================================================================
