---------------------------- MODULE PacketStream -----------------------------
(***************************************************************************)
(* codec/ over a transport: packets are encoded and each is written with   *)
(* one Write; the peer's ReadPacket takes bytes from Read calls that       *)
(* return as much as has arrived (tcp, tls, quic, kcp) or what is left of  *)
(* one message (ws), and puts the packets together again.                  *)
(*                                                                         *)
(* The sizes of the format are constants, so that its limits are reached   *)
(* with short packets: a byte is below 2 * Digit and a length has at most  *)
(* Digits digits, 128 and 4 in the code; Nibble is 16, Disconnect is 14.   *)
(***************************************************************************)
EXTENDS Integers, Sequences

CONSTANTS
  Digit, Digits, Nibble, Disconnect,
  Packets,      \* the packets that may be written
  MaxWrites     \* bound on the number of writes

Connect == 1
Connack == 2
Push == 3
Pingreq == 5
Pingresp == 6

Types == {Connect, Connack, Push, Pingreq, Pingresp, Disconnect}

Byte == 0 .. (2 * Digit - 1)
Word == 4 * Digit * Digit     \* 2^16

ASSUME FormatAssumption ==
  /\ Digit \in Nat \ {0, 1} /\ Digits \in Nat \ {0} /\ Nibble \in Nat \ {0}
  /\ Disconnect \in Nat \ (1 .. 6) /\ Disconnect * Nibble \in Byte
  /\ MaxWrites \in Nat

(* A packet has the fields of its type; the others are 0 or empty.          *)
ASSUME PacketsAssumption ==
  \A p \in Packets :
    /\ p \in [type : Types, kp : Nat, code : Byte, data : Seq(Byte)]
    /\ p.type \notin {Connect, Connack} => p.kp = 0
    /\ p.type \notin {Connack, Disconnect} => p.code = 0
    /\ p.type \notin {Connect, Push} => p.data = <<>>

Least(a, b) == IF a <= b THEN a ELSE b
Take(s, n) == SubSeq(s, 1, n)
Drop(s, n) == SubSeq(s, n + 1, Len(s))

-----------------------------------------------------------------------------
(* Encoding.  A packet has a type and its fields: kp (CONNECT, CONNACK),    *)
(* code (CONNACK, DISCONNECT), data (CONNECT's credential, PUSH's payload). *)

digits[n \in Nat] == IF n < Digit THEN <<n>> ELSE <<Digit + (n % Digit)>> \o digits[n \div Digit]

encodeLength(length) == digits[length]

encodeUint16(n) == LET m == n % Word IN <<m \div (2 * Digit), m % (2 * Digit)>>

(* The magic number, the protocol version and the reserved byte. *)
Preamble == <<1, 2, 3, 4, 1, 0>>

encodeBytes(field) == encodeUint16(Len(field)) \o field

ConnectBody(p) == Preamble \o encodeUint16(p.kp) \o encodeBytes(p.data)
ConnackBody(p) == <<p.code>> \o encodeUint16(p.kp)
PushBody(p) == <<0>> \o p.data
DisconnectBody(p) == <<p.code>>

Body(p) ==
  CASE p.type = Connect    -> ConnectBody(p)
    [] p.type = Connack    -> ConnackBody(p)
    [] p.type = Push       -> PushBody(p)
    [] p.type = Disconnect -> DisconnectBody(p)
    [] OTHER               -> <<>>

Encoded(p) == <<p.type * Nibble>> \o encodeLength(Len(Body(p))) \o Body(p)

(* Decoding.  Unpack reads its fields from the front of the body and stops. *)
decodeUint16(s) == s[1] * 2 * Digit + s[2]

decodeBytes(s) == Take(Drop(s, 2), decodeUint16(s))

Unpackable(type, b) ==
  CASE type = Connect    -> Len(b) >= 10 /\ Len(b) - 10 >= decodeUint16(Drop(b, 8))
    [] type = Connack    -> Len(b) >= 3
    [] type \in {Push, Disconnect} -> Len(b) >= 1
    [] OTHER             -> TRUE

Packet(type, kp, code, data) == [type |-> type, kp |-> kp, code |-> code, data |-> data]

ConnectUnpack(b) == Packet(Connect, decodeUint16(Drop(b, 6)), 0, decodeBytes(Drop(b, 8)))

(* Mutant: the keepalive is read where the return code is. *)
ConnackUnpackShifted(b) == Packet(Connack, decodeUint16(b), b[1], <<>>)

ConnackUnpack(b) == Packet(Connack, decodeUint16(Drop(b, 1)), b[1], <<>>)
PushUnpack(b) == Packet(Push, 0, 0, Drop(b, 1))
DisconnectUnpack(b) == Packet(Disconnect, 0, b[1], <<>>)

Unpack(type, b) ==
  CASE type = Connect    -> ConnectUnpack(b)
    [] type = Connack    -> ConnackUnpack(b)
    [] type = Push       -> PushUnpack(b)
    [] type = Disconnect -> DisconnectUnpack(b)
    [] OTHER             -> Packet(type, 0, 0, <<>>)

-----------------------------------------------------------------------------
VARIABLES
  transport,  \* "stream" or "ws"
  writes,     \* number of writes so far
  buf,        \* bytes that can be read: on the stream, or wsConn.buf
  messages,   \* WebSocket messages on their way
  closed,     \* the writer has closed the connection
  phase,      \* of ReadPacket: "type", "length", "body", or "failed"
  got,        \* what the current ReadFull has read
  fh,         \* the FixedHeader and the number of digits read
  sent, received, intact   \* as in PacketChannel

writer == <<writes, messages, closed, sent, intact>>
reader == <<phase, got, fh, received>>
vars == <<transport, buf, writer, reader>>

NoHeader == [type |-> 0, length |-> 0, digits |-> 0]

Init ==
  /\ transport \in {"stream", "ws"}
  /\ writes = 0
  /\ buf = <<>> /\ messages = <<>>
  /\ closed = FALSE
  /\ phase = "type" /\ got = <<>> /\ fh = NoHeader
  /\ sent = <<>> /\ received = <<>> /\ intact = TRUE

Transmit(bytes) ==
  IF transport = "stream"
    THEN buf' = buf \o bytes /\ UNCHANGED messages
    ELSE messages' = Append(messages, bytes) /\ UNCHANGED buf

(* The packet as a reader that is in step sees it: encodeBytes keeps 16     *)
(* bits of the length of the credential, and Unpack that much of it.        *)
AsRead(p) ==
  Packet(p.type, p.kp % Word, p.code,
         IF p.type = Connect THEN Take(p.data, Len(p.data) % Word) ELSE p.data)

Power[n \in Nat] == IF n = 0 THEN 1 ELSE Digit * Power[n - 1]

Fits(p) == Len(Body(p)) < Power[Digits]

CanWrite == ~closed /\ writes < MaxWrites /\ writes' = writes + 1

(* One Write call per packet: calls of several goroutines do not mix. *)
Write(p) ==
  /\ CanWrite
  /\ Transmit(Encoded(p))
  /\ sent' = IF intact /\ Fits(p) THEN Append(sent, AsRead(p)) ELSE sent
  /\ intact' = (intact /\ Fits(p))
  /\ UNCHANGED <<transport, closed, reader>>

(* The write deadline expires when n bytes of the packet have been taken.   *)
(* Neither deviceConnection.Write nor the outgoing goroutine closes the     *)
(* connection then and there, so other writes may follow.                   *)
WriteCut(p, n) ==
  /\ CanWrite
  /\ transport = "stream"
  /\ n < Len(Encoded(p))
  /\ Transmit(Take(Encoded(p), n))
  /\ intact' = FALSE
  /\ UNCHANGED <<transport, closed, sent, reader>>

Close ==
  /\ ~closed
  /\ closed' = TRUE
  /\ UNCHANGED <<transport, buf, writes, messages, sent, intact, reader>>

-----------------------------------------------------------------------------
(* ReadPacket *)

Need == IF phase = "body" THEN fh.length ELSE 1

Wants == phase # "failed" /\ Len(got) < Need

(* Mutant: a message is delivered when the next one has arrived. *)
ReceiveOneBehind ==
  /\ Wants
  /\ buf = <<>> /\ Len(messages) > 1
  /\ buf' = Head(messages) /\ messages' = Tail(messages)
  /\ UNCHANGED <<transport, writes, closed, sent, intact, reader>>

(* wsConn.Read and wsStreamConn.Read: the next message, when the last one   *)
(* is used up.                                                              *)
Receive ==
  /\ Wants
  /\ buf = <<>> /\ messages # <<>>
  /\ buf' = Head(messages) /\ messages' = Tail(messages)
  /\ UNCHANGED <<transport, writes, closed, sent, intact, reader>>

Available == Least(Need - Len(got), Len(buf))

(* Read returns n bytes: all that is there, or on a stream also less. *)
Read(n) ==
  /\ Wants
  /\ got' = got \o Take(buf, n)
  /\ buf' = Drop(buf, n)
  /\ UNCHANGED <<transport, writer, phase, fh, received>>

Reads ==
  /\ buf # <<>>
  /\ \E n \in (IF transport = "ws" THEN {} ELSE {1}) \cup {Available} : Read(n)

Fail == phase' = "failed" /\ UNCHANGED <<got, fh, received>>

(* io.EOF and io.ErrUnexpectedEOF *)
ReadEnds ==
  /\ Wants
  /\ closed /\ buf = <<>> /\ messages = <<>>
  /\ Fail
  /\ UNCHANGED <<transport, buf, writer>>

ReadsType ==
  /\ phase = "type" /\ ~Wants
  /\ IF got[1] % Nibble # 0
       THEN Fail
       ELSE /\ phase' = "length"
            /\ fh' = [NoHeader EXCEPT !.type = got[1] \div Nibble]
            /\ got' = <<>>
            /\ UNCHANGED received
  /\ UNCHANGED <<transport, buf, writer>>

(* Mutant: one digit less is read. *)
LastDigitEarly(digit) == digit < Digit \/ fh.digits + 2 >= Digits

(* decodeLength stops without an error after its last digit. *)
LastDigit(digit) == digit < Digit \/ fh.digits + 1 = Digits

ReadsLength ==
  /\ phase = "length" /\ ~Wants
  /\ LET length == fh.length + (got[1] % Digit) * Power[fh.digits]
         header == [fh EXCEPT !.length = length, !.digits = @ + 1]
     IN IF LastDigit(got[1]) /\ fh.type \notin Types
          THEN Fail
          ELSE /\ phase' = IF LastDigit(got[1]) THEN "body" ELSE "length"
               /\ fh' = header
               /\ got' = <<>>
               /\ UNCHANGED received
  /\ UNCHANGED <<transport, buf, writer>>

ReadsBody ==
  /\ phase = "body" /\ ~Wants
  /\ IF Unpackable(fh.type, got)
       THEN /\ received' = Append(received, Unpack(fh.type, got))
            /\ phase' = "type" /\ got' = <<>> /\ fh' = NoHeader
       ELSE Fail
  /\ UNCHANGED <<transport, buf, writer>>

ReadPacket == Receive \/ Reads \/ ReadEnds \/ ReadsType \/ ReadsLength \/ ReadsBody

Next ==
  \/ \E p \in Packets : Write(p) \/ \E n \in {1, Len(Encoded(p)) - 1} : WriteCut(p, n)
  \/ Close
  \/ ReadPacket

Spec == Init /\ [][Next]_vars

(* The reading goroutine runs, and what was written arrives. *)
FairSpec == Spec /\ WF_vars(ReadPacket)

-----------------------------------------------------------------------------
(* Properties *)

(* However the bytes are cut into reads or messages, whatever their values, *)
(* and with every length the header can carry, the packets written before   *)
(* the first broken write are the first ones read, in order and with their  *)
(* fields; nothing is read that was not written.                            *)
Channel == INSTANCE PacketChannel

ImplementsChannel == Channel!Spec

(* ReadPacket never reads beyond the packet it returns nor fails before: as *)
(* long as no write was broken and the connection is open, it is waiting    *)
(* for bytes of a packet that is not yet received.                          *)
InStep ==
  intact /\ phase = "failed" =>
    closed /\ Len(received) = Len(sent) /\ got = <<>>

(* No packet is stuck waiting for bytes of the next one: what was written   *)
(* whole is read even if nothing is written after it.                       *)
AllRead == \A n \in 1 .. MaxWrites : Len(sent) >= n ~> Len(received) >= n
=============================================================================
