----------------------------- MODULE MCSession -----------------------------
(* A room of one and a ceiling as low: sockets are refused, hellos find    *)
(* the room full, and a connection waits while the other is torn down.     *)
EXTENDS Session

CONSTANTS s1, s2

TwoConns == {s1, s2}
=============================================================================
