---------------------------- MODULE MCKeepalive ----------------------------
(* Instances of Keepalive for TLC. *)
EXTENDS Keepalive

Fixed(hb, talk) ==
  [adaptive |-> FALSE, hb |-> hb, short |-> 0, max |-> 0, probes |-> 0, window |-> 0, talk |-> talk]
Adaptive(short, max, talk) ==
  [adaptive |-> TRUE, hb |-> 0, short |-> short, max |-> max, probes |-> 2, window |-> 4, talk |-> talk]

MCOptions ==
  {Fixed(hb, {}) : hb \in {0, 4, 6}} \cup {Fixed(2, {"client"})}
    \cup {Adaptive(1, max, {}) : max \in {1, 4, 8}} \cup {Adaptive(1, 3, {"server"})}
BusyOptions == {Fixed(4, {"client"})}
MCPolicies ==
  {[min |-> 1, max |-> 5, default |-> 9, disable |-> FALSE],
   [min |-> 2, max |-> 3, default |-> 9, disable |-> TRUE]}
=============================================================================
