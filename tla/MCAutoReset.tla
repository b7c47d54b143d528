---------------------------- MODULE MCAutoReset ----------------------------
(* Instances of AutoReset for TLC: both boards, three kinds of client. *)
EXTENDS AutoReset
BothBoards == {"bridge", "jtag"}
AllTools   == {Esptool, Terminal, Leisurely}
=============================================================================
