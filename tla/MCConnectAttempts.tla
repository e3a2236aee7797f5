-------------------------- MODULE MCConnectAttempts --------------------------
(* Small instances of ConnectAttempts for TLC. *)
EXTENDS ConnectAttempts

(* A list whose attempts are short enough for the backoff to grow, one with *)
(* an unknown scheme, and one whose dial may hang.                          *)
MCServerLists == {<<"tcp">>, <<"other", "tcp">>, <<"quic", "kcp">>}

(* An acceptance, a refusal the client knows and one it does not. *)
MCCodes == {0, 1, 2}

MCDurations == {0, 2, 12}
=============================================================================
