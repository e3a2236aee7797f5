---------------------------- MODULE PacketChannel ----------------------------
(***************************************************************************)
(* What codec.ReadPacket and the Write methods of the packets promise of   *)
(* one direction of a connection: until a write breaks it, a first-in      *)
(* first-out channel of whole packets; afterwards, nothing about what is   *)
(* read once the packets written before have been read.                    *)
(***************************************************************************)
EXTENDS Naturals, Sequences

VARIABLES
  sent,       \* the packets written before the first broken write
  received,   \* the packets read
  intact      \* no write has been cut short or was too long for its header

Init == sent = <<>> /\ received = <<>> /\ intact = TRUE

OneMore(s, t) == Len(t) = Len(s) + 1 /\ SubSeq(t, 1, Len(s)) = s

Send ==
  /\ intact
  /\ OneMore(sent, sent')
  /\ UNCHANGED <<received, intact>>

Break ==
  /\ intact' = FALSE
  /\ UNCHANGED <<sent, received>>

Receive ==
  /\ OneMore(received, received')
  /\ IF Len(received) < Len(sent)
       THEN received'[Len(received) + 1] = sent[Len(received) + 1]
       ELSE ~intact
  /\ UNCHANGED <<sent, intact>>

Next == Send \/ Break \/ Receive

Spec == Init /\ [][Next]_<<sent, received, intact>>
=============================================================================
