------------------------------- MODULE Telnet -------------------------------
(***************************************************************************)
(* Rfc2217Server.cpp as a codec: the Telnet parser that works byte by byte *)
(* over whatever pieces TCP delivers, the RFC2217 requests it hands on,    *)
(* the answers, and the escaping of both directions.  Bytes are numbers;   *)
(* an item is what a client means: <<"data", b>>, <<"neg", command,        *)
(* option>>, <<"sub", body>> or <<"nop">>.                                 *)
(***************************************************************************)
EXTENDS Integers, Sequences, SequencesExt

CONSTANTS
  Scripts,     \* what clients send: sequences of items
  Answers,     \* what the target sends at a time
  Chunk,       \* CHUNK, also the size of the payload buffer
  SubnegMax,   \* sizeof(m_subneg)
  Sessions, Sendings  \* bounds: clients, and sendings of the target

IAC  == 255
DONT == 254
DO   == 253
WONT == 252
WILL == 251
SB   == 250
SE   == 240
ComPort == 44
Supported == {ComPort, 0, 3}
Offset == 100

Bytes    == 0 .. 255
Commands == {WILL, WONT, DO, DONT}
Items == ({"data"} \X Bytes) \cup ({"neg"} \X Commands \X Bytes)
           \cup ({"sub"} \X Seq(Bytes)) \cup {<<"nop">>}

ASSUME TelnetAssumption ==
  /\ Scripts \subseteq Seq(Items) /\ Answers \subseteq Seq(Bytes)
  /\ Chunk \in Nat \ {0} /\ SubnegMax \in Nat \ {0}
  /\ Sessions \in Nat /\ Sendings \in Nat

VARIABLES
  open,      \* UsbTarget::isSerialOpen()
  script,    \* history: what this client means to say
  wire,      \* its bytes that have not been received
  chunk,     \* received, not yet parsed: data[i ..]
  parse, command, subneg,  \* m_parse, m_pendingCommand, m_subneg
  payload,   \* the local buffer of feedFromClient
  port,      \* m_baudRate (four bytes), m_dataBits, m_parity, m_stopBits, m_dtr, m_rts
  heard,     \* history: items acted upon, in order; data with its fate
  said,      \* history: items the server meant to send
  toClient,  \* the bytes it sent
  served,    \* a client is connected
  sessions, sendings

parser == <<chunk, parse, command, subneg, payload>>
vars == <<open, script, wire, parser, port, heard, said, toClient, served, sessions, sendings>>

Fresh == [baud |-> <<0, 1, 194, 0>>, data |-> 8, parity |-> 1, stop |-> 1,
          dtr |-> FALSE, rts |-> FALSE]

(* ----------------------------- the codec ------------------------------- *)

Escaped(body) == FlattenSeq([i \in DOMAIN body |->
                   IF body[i] = IAC THEN <<IAC, IAC>> ELSE <<body[i]>>])

(* What a client sends for an item. *)
Encode(item) ==
  CASE item[1] = "data" -> Escaped(<<item[2]>>)
    [] item[1] = "neg"  -> <<IAC, item[2], item[3]>>
    [] item[1] = "sub"  -> <<IAC, SB>> \o Escaped(item[2]) \o <<IAC, SE>>
    [] item[1] = "nop"  -> <<IAC, 241>>

EncodeAll(items) == FlattenSeq([i \in DOMAIN items |-> Encode(items[i])])

(* sendCommand(), sendSubnegotiation(), sendEscaped() *)
CommandFrame(c, option) == <<IAC, c, option>>
SubnegotiationFramePlain(body) == <<IAC, SB, ComPort>> \o body \o <<IAC, SE>>
SubnegotiationFrame(body) == <<IAC, SB, ComPort>> \o Escaped(body) \o <<IAC, SE>>
DataFrame(data) == Escaped(data)

(* ---------------------------- the answers ------------------------------ *)

Negotiated(c, option) ==
  CASE c = DO   -> <<IF option \in Supported THEN WILL ELSE WONT>>
    [] c = WILL -> <<IF option \in Supported THEN DO ELSE DONT>>
    [] OTHER    -> <<>>

(* SET_CONTROL: the lines it moves, and the state it answers a query with. *)
Lines(v) ==
  CASE v = 8  -> [port EXCEPT !.dtr = TRUE]  [] v = 9  -> [port EXCEPT !.dtr = FALSE]
    [] v = 11 -> [port EXCEPT !.rts = TRUE]  [] v = 12 -> [port EXCEPT !.rts = FALSE]
    [] OTHER -> port

ControlAnswer(v) ==
  CASE v = 7  -> IF port.dtr THEN 8 ELSE 9
    [] v = 10 -> IF port.rts THEN 11 ELSE 12
    [] v = 0  -> 1
    [] v = 13 -> 14
    [] v = 4  -> 6
    [] OTHER  -> v

(* Values outside the range, 0 among them, only ask. *)
Coding(cmd, v) ==
  [port EXCEPT !.data   = IF cmd = 2 /\ v \in 5 .. 8 THEN v ELSE @,
               !.parity = IF cmd = 3 /\ v \in 1 .. 5 THEN v ELSE @,
               !.stop   = IF cmd = 4 /\ v \in 1 .. 3 THEN v ELSE @]

(* handleSubnegotiation(): the port afterwards and the body of the answer, *)
(* empty for none.                                                         *)
Handled(body) ==
  LET cmd == body[2]
      v   == IF Len(body) >= 3 THEN body[3] ELSE 0
      set == Coding(cmd, v)
      baud == IF Len(body) >= 6 /\ SubSeq(body, 3, 6) # <<0, 0, 0, 0>>
              THEN SubSeq(body, 3, 6) ELSE port.baud
      Reply(p, values) == [port |-> p, reply |-> <<cmd + Offset>> \o values]
  IN  IF Len(body) < 2 \/ body[1] # ComPort THEN [port |-> port, reply |-> <<>>]
      ELSE CASE cmd = 1 -> Reply([port EXCEPT !.baud = baud], baud)
             [] cmd = 2 -> Reply(set, <<set.data>>)
             [] cmd = 3 -> Reply(set, <<set.parity>>)
             [] cmd = 4 -> Reply(set, <<set.stop>>)
             [] cmd = 5 -> IF Len(body) >= 3 THEN Reply(Lines(v), <<ControlAnswer(v)>>)
                           ELSE Reply(port, <<0>>)
             [] cmd \in {10, 11, 12} -> Reply(port, <<v>>)
             [] OTHER -> [port |-> port, reply |-> <<>>]

(* ------------------------------ actions -------------------------------- *)

Init ==
  /\ open = TRUE /\ script = <<>> /\ wire = <<>> /\ chunk = <<>>
  /\ parse = "Data" /\ command = 0 /\ subneg = <<>> /\ payload = <<>>
  /\ port = Fresh
  /\ heard = <<>> /\ said = <<>> /\ toClient = <<>>
  /\ served = FALSE /\ sessions = 0 /\ sendings = 0

Offers == << <<"neg", WILL, ComPort>>, <<"neg", DO, ComPort>>, <<"neg", WILL, 0>>,
             <<"neg", DO, 0>>, <<"neg", WILL, 3>>, <<"neg", DO, 3>> >>

ConnectKeepParse(s) ==
  /\ ~served /\ sessions < Sessions
  /\ served' = TRUE /\ sessions' = sessions + 1
  /\ script' = s /\ wire' = EncodeAll(s)
  /\ heard' = <<>> /\ said' = Offers /\ toClient' = EncodeAll(Offers)
  /\ UNCHANGED <<open, parser, port, sendings>>

(* The parser starts afresh, whatever the client before left in it. *)
Connect(s) ==
  /\ ~served /\ sessions < Sessions
  /\ served' = TRUE /\ sessions' = sessions + 1
  /\ parse' = "Data" /\ subneg' = <<>>
  /\ script' = s /\ wire' = EncodeAll(s)
  /\ heard' = <<>> /\ said' = Offers /\ toClient' = EncodeAll(Offers)
  /\ UNCHANGED <<open, chunk, command, payload, port, sendings>>

(* recv(): some bytes, as TCP has them. *)
Receive(n) ==
  /\ served /\ chunk = <<>> /\ Len(wire) >= n
  /\ chunk' = SubSeq(wire, 1, n)
  /\ wire' = SubSeq(wire, n + 1, Len(wire))
  /\ UNCHANGED <<open, script, parse, command, subneg, payload, port, heard, said,
                 toClient, served, sessions, sendings>>

(* flush(): without a serial session the payload is dropped. *)
Flushed(data) ==
  [i \in DOMAIN data |-> <<"data", data[i], IF open THEN "written" ELSE "dropped">>]

(* The end of the loop's body, and after the last byte flush() once more. *)
Proceed(data, acted) ==
  LET all == Len(data) >= Chunk \/ Len(chunk) = 1
  IN  /\ chunk' = Tail(chunk)
      /\ payload' = IF all THEN <<>> ELSE data
      /\ heard' = IF all THEN acted \o Flushed(data) ELSE acted

At(state) == chunk # <<>> /\ parse = state
Byte == Head(chunk)
Silent == UNCHANGED <<said, toClient>>
Session == UNCHANGED <<open, script, wire, served, sessions, sendings>>

ParseData ==
  /\ At("Data") /\ Session /\ Silent
  /\ parse' = IF Byte = IAC THEN "Iac" ELSE "Data"
  /\ Proceed(IF Byte = IAC THEN payload ELSE Append(payload, Byte), heard)
  /\ UNCHANGED <<command, subneg, port>>

ParseIac ==
  /\ At("Iac") /\ Session /\ Silent
  /\ parse' = IF Byte \in Commands THEN "Option"
              ELSE IF Byte = SB THEN "Subneg" ELSE "Data"
  /\ command' = IF Byte \in Commands THEN Byte ELSE command
  /\ subneg' = IF Byte = SB THEN <<>> ELSE subneg
  /\ Proceed(IF Byte = IAC THEN Append(payload, IAC) ELSE payload, heard)
  /\ UNCHANGED port

ParseOption ==
  /\ At("Option") /\ Session
  /\ parse' = "Data"
  /\ LET answer == Negotiated(command, Byte)
     IN  IF answer = <<>> THEN Silent
         ELSE /\ said' = Append(said, <<"neg", answer[1], Byte>>)
              /\ toClient' = toClient \o CommandFrame(answer[1], Byte)
  /\ Proceed(<<>>, heard \o Flushed(payload) \o << <<"neg", command, Byte>> >>)
  /\ UNCHANGED <<command, subneg, port>>

Longer(byte) == IF Len(subneg) < SubnegMax THEN Append(subneg, byte) ELSE subneg

ParseSubneg ==
  /\ At("Subneg") /\ Session /\ Silent
  /\ parse' = IF Byte = IAC THEN "SubnegIac" ELSE "Subneg"
  /\ subneg' = IF Byte = IAC THEN subneg ELSE Longer(Byte)
  /\ Proceed(payload, heard)
  /\ UNCHANGED <<command, port>>

(* What the client sent before a request goes to the target before the     *)
(* request takes effect.                                                   *)
ParseSubnegIac ==
  /\ At("SubnegIac") /\ Session
  /\ IF Byte = SE
     THEN LET done == Handled(subneg)
          IN  /\ parse' = "Data" /\ subneg' = subneg
              /\ port' = done.port
              /\ IF done.reply = <<>> THEN Silent
                 ELSE /\ said' = Append(said, <<"sub", <<ComPort>> \o done.reply>>)
                      /\ toClient' = toClient \o SubnegotiationFrame(done.reply)
              /\ Proceed(<<>>, heard \o Flushed(payload) \o << <<"sub", subneg>> >>)
     ELSE /\ parse' = "Subneg" /\ subneg' = Longer(Byte)
          /\ Proceed(payload, heard)
          /\ Silent /\ UNCHANGED port
  /\ UNCHANGED command

(* The target's bytes, after what was received has been handled. *)
Send(data) ==
  /\ served /\ chunk = <<>> /\ open /\ sendings < Sendings
  /\ sendings' = sendings + 1
  /\ said' = said \o [i \in DOMAIN data |-> <<"data", data[i]>>]
  /\ toClient' = toClient \o DataFrame(data)
  /\ UNCHANGED <<open, script, wire, parser, port, heard, served, sessions>>

(* The connection ends, in the middle of whatever. *)
Disconnect ==
  /\ served /\ chunk = <<>>
  /\ served' = FALSE
  /\ port' = Fresh
  /\ wire' = <<>>
  /\ UNCHANGED <<open, script, parser, heard, said, toClient, sessions, sendings>>

(* The target is unplugged. *)
Unplug ==
  /\ open /\ open' = FALSE
  /\ UNCHANGED <<script, wire, parser, port, heard, said, toClient, served, sessions, sendings>>

Next ==
  \/ \E s \in Scripts : Connect(s)
  \/ \E n \in 1 .. Chunk : Receive(n)
  \/ ParseData \/ ParseIac \/ ParseOption \/ ParseSubneg \/ ParseSubnegIac
  \/ \E data \in Answers : Send(data)
  \/ Disconnect \/ Unplug

Spec == Init /\ [][Next]_vars

(* ----------------------------- properties ------------------------------ *)

TypeOK ==
  /\ open \in BOOLEAN /\ served \in BOOLEAN
  /\ parse \in {"Data", "Iac", "Option", "Subneg", "SubnegIac"}
  /\ Len(chunk) <= Chunk /\ Len(subneg) <= SubnegMax
  /\ Len(payload) < Chunk
  /\ payload # <<>> => chunk # <<>>
  /\ port.data \in 5 .. 8 /\ port.parity \in 1 .. 5 /\ port.stop \in 1 .. 3
  /\ port.baud # <<0, 0, 0, 0>>

(* However TCP cuts a client's stream, and whatever an earlier client left *)
(* unfinished, the server acts on what this client means, in that order:   *)
(* data before a request is with the target when the request takes effect, *)
(* a request that is longer than m_subneg is cut and spills into nothing   *)
(* else, and when all bytes are in nothing is left unheard.                *)
Kept(body) == SubSeq(body, 1, IF Len(body) < SubnegMax THEN Len(body) ELSE SubnegMax)

MeantBy(item) ==
  CASE item[1] = "nop" -> <<>>
    [] item[1] = "sub" -> << <<"sub", Kept(item[2])>> >>
    [] OTHER -> <<item>>

Meant == FlattenSeq([i \in DOMAIN script |-> MeantBy(script[i])])
Heard == [i \in DOMAIN heard |->
            IF heard[i][1] = "data" THEN <<"data", heard[i][2]>> ELSE heard[i]]

HeardRight ==
  /\ IsPrefix(Heard, Meant)
  /\ served /\ wire = <<>> /\ chunk = <<>> => Heard = Meant

(* The client's side of Telnet: what it has read, and the frame it is in.  *)
Place(at, frame, items) == [at |-> at, frame |-> frame, items |-> items]

Reads(r, b) ==
  LET Item(item) == Place("data", <<>>, Append(r.items, item))
      In(at)     == Place(at, r.frame, r.items)
      More       == Place("sub", Append(r.frame, b), r.items)
  IN  CASE r.at = "data"   -> IF b = IAC THEN In("iac") ELSE Item(<<"data", b>>)
        [] r.at = "iac"    -> IF b = IAC THEN Item(<<"data", b>>)
                              ELSE IF b = SB THEN In("sub")
                              ELSE IF b \in Commands THEN Place("option", <<b>>, r.items)
                              ELSE In("data")
        [] r.at = "option" -> Item(<<"neg", r.frame[1], b>>)
        [] r.at = "sub"    -> IF b = IAC THEN In("subIac") ELSE More
        [] r.at = "subIac" -> IF b = SE THEN Item(<<"sub", r.frame>>) ELSE More

Understood(s) ==
  LET read[n \in 0 .. Len(s)] ==
        IF n = 0 THEN Place("data", <<>>, <<>>) ELSE Reads(read[n - 1], s[n])
  IN  read[Len(s)]

(* What a Telnet client reads out of the server's bytes is what the server *)
(* meant: the target's data, the answers and their values, each whole and  *)
(* in order, also where a value is 255.                                    *)
ClientUnderstands ==
  /\ Understood(toClient).items = said
  /\ Understood(toClient).at = "data"
=============================================================================
