-------------------------------- MODULE Link --------------------------------
(***************************************************************************)
(* What the client is promised about its connection: the callbacks of      *)
(* SyncTransport (client/src/sync/SyncTransport.h), as the message thread  *)
(* sees them.  A session is one use of the connect button.                 *)
(***************************************************************************)
EXTENDS Naturals

VARIABLES
    session,  \* how many sessions were asked for
    over,     \* the network of the current one has ended, or never began
    spoken,   \* messages the server has written in it
    got,      \* the latest of them that reached the application
    shown     \* what the connection panel shows

linkVars == <<session, over, spoken, got, shown>>

LinkInit == session = 0 /\ over = TRUE /\ spoken = 0 /\ got = 0 /\ shown = "idle"

(* A new session, from which nothing has been heard. *)
Ask ==
    /\ shown # "connected"
    /\ session' = session + 1 /\ spoken' = 0 /\ got' = 0
    /\ shown' = "connecting"
    /\ over' \in BOOLEAN

Speak == ~over /\ spoken' = spoken + 1 /\ UNCHANGED <<session, over, got, shown>>

End == over' = TRUE /\ UNCHANGED <<session, spoken, got, shown>>

(* A later message of this session than the last; the first connects. *)
Hear ==
    /\ shown \in {"connecting", "connected"}
    /\ got' \in got + 1 .. spoken
    /\ shown' = "connected"
    /\ UNCHANGED <<session, over, spoken>>

(* The application is told of the end of this session, and of no other. *)
Fail ==
    /\ over /\ shown \in {"connecting", "connected"}
    /\ shown' = "down"
    /\ UNCHANGED <<session, over, spoken, got>>

HangUp ==
    /\ shown = "connected"
    /\ shown' = "down" /\ over' = TRUE
    /\ UNCHANGED <<session, spoken, got>>

LinkNext == Ask \/ Speak \/ End \/ Hear \/ Fail \/ HangUp

LinkSpec == LinkInit /\ [][LinkNext]_linkVars
=============================================================================
