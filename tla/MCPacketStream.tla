--------------------------- MODULE MCPacketStream ----------------------------
(* A small instance of PacketStream for TLC: bytes below 16, at most three  *)
(* digits of base 8 in a length.                                            *)
EXTENDS PacketStream

(* A credential longer than 16 bits can say and a payload longer than the   *)
(* header can say, beside packets whose lengths have one and two digits and *)
(* whose bytes look like headers.                                           *)
MCPackets ==
  { Packet(Pingreq, 0, 0, <<>>),
    Packet(Connack, 255, 3, <<>>),
    Packet(Disconnect, 0, 2, <<>>),
    Packet(Push, 0, 0, <<>>),
    Packet(Push, 0, 0, <<10, 0, 6, 9, 15, 10, 0>>),
    Packet(Connect, 20, 0, <<2, 10>>),
    Packet(Connect, 300, 0, [n \in 1 .. 257 |-> 6]),
    Packet(Push, 0, 0, [n \in 1 .. 511 |-> 10]) }
=============================================================================
