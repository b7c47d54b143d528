------------------------------ MODULE MCTelnet ------------------------------
(* An instance of Telnet for TLC: every client that sends up to two of     *)
(* these items, and a target that answers with 255 among its bytes.        *)
EXTENDS Telnet

SomeItems == {
  <<"data", 7>>, <<"data", IAC>>, <<"data", SE>>,
  <<"neg", DO, ComPort>>, <<"neg", WILL, 31>>, <<"neg", WONT, 3>>,
  <<"sub", <<ComPort, 1, 0, 0, IAC, 0>>>>,
  <<"sub", <<ComPort, 2, 7>>>>, <<"sub", <<ComPort, 2, 0>>>>,
  <<"sub", <<ComPort, 5, 8>>>>, <<"sub", <<ComPort, 5, 7>>>>,
  <<"sub", <<ComPort, 10, IAC>>>>, <<"sub", <<ComPort, 8>>>>,
  <<"sub", <<ComPort, 0, 65, 66, IAC, 67, IAC>>>>,
  <<"nop">> }

UpTo2 == UNION {[1 .. n -> SomeItems] : n \in 0 .. 2}
TargetData == {<<7, IAC>>}
=============================================================================
