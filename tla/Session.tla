------------------------------- MODULE Session -------------------------------
(***************************************************************************)
(* The life of a connection in server/src/server.js: admission below the   *)
(* pre-hello ceiling, the hello timer, what each frame costs, ejection     *)
(* with its terminate timer, the heartbeat, and graceful shutdown.         *)
(*                                                                         *)
(* The event loop runs one callback at a time, each an action here.  Time  *)
(* is left out: an armed timer may fire at any moment.  Of the room, only  *)
(* membership and control remain (Room has the rest); of the rate limiter, *)
(* only its three verdicts.  The ws library is external: close() starts a  *)
(* closing handshake that an unresponsive peer never completes, terminate() *)
(* destroys the socket, and either way a close event follows.              *)
(***************************************************************************)
EXTENDS Integers, FiniteSets

CONSTANTS
    Conn,                         \* sockets
    MaxClients,                   \* config.maxClients
    PRE_HELLO_CEILING_FACTOR,
    MAX_CONSECUTIVE_INVALID,
    Nobody                        \* no connection in control

preHelloCeiling == MaxClients * PRE_HELLO_CEILING_FACTOR

ASSUME SessionAssumption ==
    /\ Nobody \notin Conn
    /\ MaxClients \in Nat \ {0}
    /\ PRE_HELLO_CEILING_FACTOR \in Nat \ {0}
    /\ MAX_CONSECUTIVE_INVALID \in Nat \ {0}

VARIABLES
    record,         \* the record of each connection
    records,        \* the connections that have one
    preHelloCount,
    members,        \* connections registered in the room
    holder,         \* the connection in control, or Nobody
    phase,          \* of the server: "running", "closing", "closed"
    socket,         \* "none", "open", "closing" (close frame sent), "dying"
                    \* (destroyed, close event due), "gone"
    mute,           \* peers that have stopped answering anything
    pongDue,        \* peers that owe the pong of the last ping
    reaped          \* connections the heartbeat has terminated

vars == <<record, records, preHelloCount, members, holder, phase, socket, mute,
          pongDue, reaped>>

Record ==
    [helloTimer         : BOOLEAN,   \* armed
     terminateTimer     : BOOLEAN,   \* armed
     pendingHello       : BOOLEAN,
     ejected            : BOOLEAN,
     isAlive            : BOOLEAN,
     consecutiveInvalid : 0 .. MAX_CONSECUTIVE_INVALID]

(* The record of onConnection. *)
NewRecord ==
    [helloTimer |-> TRUE, terminateTimer |-> FALSE, pendingHello |-> TRUE,
     ejected |-> FALSE, isAlive |-> TRUE, consecutiveInvalid |-> 0]

(* MUTANT: the close event leaves the hello timer armed. *)
ClosedStillWatched(r) == [r EXCEPT !.terminateTimer = FALSE, !.pendingHello = FALSE]

(* What the close event does to a record before it is dropped. *)
Closed(r) ==
    [r EXCEPT !.helloTimer = FALSE, !.pendingHello = FALSE, !.terminateTimer = FALSE]

(* No record: nothing armed, nothing counted. *)
Unused == [NewRecord EXCEPT !.helloTimer = FALSE, !.pendingHello = FALSE]

Init ==
    /\ record = [c \in Conn |-> Unused]
    /\ records = {}
    /\ preHelloCount = 0
    /\ members = {}
    /\ holder = Nobody
    /\ phase = "running"
    /\ socket = [c \in Conn |-> "none"]
    /\ mute = {}
    /\ pongDue = {}
    /\ reaped = {}

-----------------------------------------------------------------------------
(* Functions on a record.                                                  *)

(* releaseHelloWatch *)
ReleaseHelloWatch(r) == [r EXCEPT !.helloTimer = FALSE, !.pendingHello = FALSE]

(* MUTANT: an ejected connection keeps its pre-hello slot. *)
EjectedStillPending(r) ==
    IF r.ejected THEN r ELSE [r EXCEPT !.ejected = TRUE, !.terminateTimer = TRUE]

(* MUTANT: an ejected connection waits for its peer. *)
EjectedWithoutTimer(r) ==
    IF r.ejected THEN r ELSE [ReleaseHelloWatch(r) EXCEPT !.ejected = TRUE]

(* close(), once per connection *)
Ejected(r) ==
    IF r.ejected THEN r
    ELSE [ReleaseHelloWatch(r) EXCEPT !.ejected = TRUE, !.terminateTimer = TRUE]

(* countInvalid *)
CountInvalid(r) ==
    LET counted == [r EXCEPT !.consecutiveInvalid = @ + 1]
    IN  IF counted.consecutiveInvalid < MAX_CONSECUTIVE_INVALID
        THEN counted ELSE Ejected(counted)

(* What follows a message that the room accepted. *)
Accepted(r) == [ReleaseHelloWatch(r) EXCEPT !.consecutiveInvalid = 0]

-----------------------------------------------------------------------------
(* Storing a record, with the pre-hello count that goes with it, and the   *)
(* close frame if the record was ejected just now.                         *)

(* MUTANT: releaseHelloWatch is not idempotent. *)
SlotFreedTwice(c, r) == IF ~r.pendingHello THEN 1 ELSE 0

SlotsFreed(c, r) == IF record[c].pendingHello /\ ~r.pendingHello THEN 1 ELSE 0

Store(c, r) ==
    /\ record' = [record EXCEPT ![c] = r]
    /\ preHelloCount' = preHelloCount - SlotsFreed(c, r)
    /\ socket' = IF r.ejected /\ socket[c] = "open"
                 THEN [socket EXCEPT ![c] = "closing"] ELSE socket

roomVars == <<members, holder>>
peerVars == <<mute, pongDue>>

-----------------------------------------------------------------------------
(* Admission.                                                              *)

(* A socket over the ceiling is closed without a record or a timer.        *)
OnConnection(c) ==
    /\ phase = "running" /\ socket[c] = "none"
    /\ \/ /\ preHelloCount >= preHelloCeiling
          /\ socket' = [socket EXCEPT ![c] = "closing"]
          /\ UNCHANGED <<record, records, preHelloCount>>
       \/ /\ preHelloCount < preHelloCeiling
          /\ socket' = [socket EXCEPT ![c] = "open"]
          /\ records' = records \cup {c}
          /\ preHelloCount' = preHelloCount + 1
          /\ record' = [record EXCEPT ![c] = NewRecord]
    /\ UNCHANGED <<roomVars, peerVars, phase, reaped>>

(* MUTANT: the hello timer only disarms itself. *)
NeverOverdue(c) == FALSE

(* The hello timer closes a connection that still has no id. *)
HelloOverdue(c) == c \notin members

HelloTimeout(c) ==
    /\ c \in records /\ record[c].helloTimer
    /\ LET r == [record[c] EXCEPT !.helloTimer = FALSE]
       IN  Store(c, IF HelloOverdue(c) THEN Ejected(r) ELSE r)
    /\ UNCHANGED <<records, roomVars, peerVars, phase, reaped>>

-----------------------------------------------------------------------------
(* Frames.  Every handler returns at once for an ejected connection.  Until *)
(* the close event ws still delivers what it had received.                 *)

(* MUTANT: a connection being closed is still served. *)
ReadableToTheEnd(c) ==
    c \in records /\ socket[c] \in {"open", "closing", "dying"} /\ c \notin mute

Readable(c) ==
    /\ c \in records /\ ~record[c].ejected
    /\ socket[c] \in {"open", "dying"} /\ c \notin mute

(* A binary frame, a frame or ping that the rate limiter bans for, or an    *)
(* exception or an oversize frame to this peer: close().                   *)
Expel(c) ==
    /\ c \in records /\ ~record[c].ejected
    /\ Store(c, Ejected(record[c]))
    /\ UNCHANGED <<records, roomVars, peerVars, phase, reaped>>

(* JSON.parse fails, or the room answers bad-message; before the hello      *)
(* either closes the connection.                                           *)
InvalidFrame(c) ==
    /\ Readable(c)
    /\ Store(c, IF c \in members THEN CountInvalid(record[c]) ELSE Ejected(record[c]))
    /\ UNCHANGED <<records, roomVars, peerVars, phase, reaped>>

(* A valid hello; the room closes the connection if it is full, or has no  *)
(* free id to give, which takes a member.                                  *)
HelloFrame(c) ==
    /\ Readable(c) /\ c \notin members
    /\ \/ /\ Cardinality(members) < MaxClients
          /\ members' = members \cup {c}
          /\ Store(c, Accepted(record[c]))
       \/ /\ members # {}
          /\ Store(c, Ejected(record[c]))
          /\ UNCHANGED members
    /\ UNCHANGED <<holder, records, peerVars, phase, reaped>>

(* The holder's deltas, anybody's requestSnapshot. *)
AcceptedFrame(c) ==
    /\ Readable(c) /\ c \in members
    /\ Store(c, Accepted(record[c]))
    /\ UNCHANGED <<roomVars, records, peerVars, phase, reaped>>

ClaimFrame(c) ==
    /\ Readable(c) /\ c \in members /\ holder = Nobody
    /\ holder' = c
    /\ Store(c, Accepted(record[c]))
    /\ UNCHANGED <<members, records, peerVars, phase, reaped>>

ReleaseFrame(c) ==
    /\ Readable(c) /\ c \in members /\ holder = c
    /\ holder' = Nobody
    /\ Store(c, Accepted(record[c]))
    /\ UNCHANGED <<members, records, peerVars, phase, reaped>>

(* Well-formed but refused (control-taken, not-controller): neither an      *)
(* invalid message nor one that resets the count.                          *)
RefusedFrame(c) ==
    /\ Readable(c) /\ c \in members
    /\ Store(c, record[c])
    /\ UNCHANGED <<roomVars, records, peerVars, phase, reaped>>

-----------------------------------------------------------------------------
(* Heartbeat.                                                              *)

(* MUTANT: a pong that the rate limiter drops does not count. *)
PongIfServed(r, served) == [r EXCEPT !.isAlive = @ \/ served]

(* A pong counts before it is charged. *)
PongReceived(r, served) == [r EXCEPT !.isAlive = TRUE]

(* served: the rate limiter's verdict, short of a ban. *)
OnPong(c) ==
    /\ Readable(c) /\ c \in pongDue
    /\ \E served \in BOOLEAN : Store(c, PongReceived(record[c], served))
    /\ pongDue' = pongDue \ {c}
    /\ UNCHANGED <<roomVars, records, mute, phase, reaped>>

(* MUTANT: the sweep pings without expecting an answer. *)
MissedInterval(c) == FALSE

(* No pong since the last sweep. *)
MissedPong(c) == ~record[c].isAlive

(* One sweep over all records.  The interval is long enough for every peer *)
(* that answers at all to have answered the last ping.                     *)
Heartbeat ==
    /\ phase = "running" /\ records # {}
    /\ \A c \in pongDue : ~Readable(c)
    /\ LET dead == {c \in records : MissedPong(c)}
       IN  /\ socket' = [c \in Conn |-> IF c \in dead THEN "dying" ELSE socket[c]]
           /\ reaped' = reaped \cup dead
           /\ record' = [c \in Conn |-> IF c \in records \ dead
                                        THEN [record[c] EXCEPT !.isAlive = FALSE]
                                        ELSE record[c]]
           /\ pongDue' = records \ dead
    /\ UNCHANGED <<records, preHelloCount, roomVars, mute, phase>>

-----------------------------------------------------------------------------
(* The end of a connection.                                                *)

(* The fallback that close() armed: ws.terminate(). *)
TerminateTimeout(c) ==
    /\ c \in records /\ record[c].terminateTimer /\ socket[c] # "dying"
    /\ socket' = [socket EXCEPT ![c] = "dying"]
    /\ UNCHANGED <<record, records, preHelloCount, roomVars, peerVars, phase, reaped>>

(* Too much buffered for this peer: ws.terminate(), without close(). *)
Backpressure(c) ==
    /\ c \in members /\ socket[c] = "open"
    /\ socket' = [socket EXCEPT ![c] = "dying"]
    /\ UNCHANGED <<record, records, preHelloCount, roomVars, peerVars, phase, reaped>>

(* The peer closes, answers our close, or its network fails. *)
PeerCloses(c) ==
    /\ socket[c] \in {"open", "closing"} /\ c \notin mute
    /\ socket' = [socket EXCEPT ![c] = "dying"]
    /\ UNCHANGED <<record, records, preHelloCount, roomVars, peerVars, phase, reaped>>

(* ws's own fallback for a closing handshake that does not complete. *)
WsCloseTimeout(c) ==
    /\ socket[c] = "closing"
    /\ socket' = [socket EXCEPT ![c] = "dying"]
    /\ UNCHANGED <<record, records, preHelloCount, roomVars, peerVars, phase, reaped>>

(* MUTANT: a connection that leaves is not taken out of control. *)
HolderKept(c) == holder

(* room.handleDisconnect, as far as it concerns control. *)
HolderAfter(c) == IF holder = c THEN Nobody ELSE holder

(* The close event; a refused socket has no listener for it. *)
OnClose(c) ==
    /\ socket[c] = "dying"
    /\ socket' = [socket EXCEPT ![c] = "gone"]
    /\ \/ c \notin records /\ UNCHANGED <<record, preHelloCount, records, roomVars>>
       \/ /\ c \in records
          /\ record' = [record EXCEPT ![c] = Closed(@)]
          /\ preHelloCount' = preHelloCount - SlotsFreed(c, Closed(record[c]))
          /\ records' = records \ {c}
          /\ members' = members \ {c}
          /\ holder' = HolderAfter(c)
    /\ pongDue' = pongDue \ {c}
    /\ UNCHANGED <<mute, phase, reaped>>

(* A peer stops reading and answering, without its network failing. *)
GoMute(c) ==
    /\ socket[c] \in {"open", "closing"} /\ c \notin mute
    /\ mute' = mute \cup {c}
    /\ UNCHANGED <<record, records, preHelloCount, roomVars, phase, socket, pongDue, reaped>>

-----------------------------------------------------------------------------
(* Shutdown.                                                               *)

(* close(): the heartbeat stops and every connection is ejected. *)
Shutdown ==
    /\ phase = "running"
    /\ phase' = "closing"
    /\ record' = [c \in Conn |-> IF c \in records THEN Ejected(ReleaseHelloWatch(record[c]))
                                 ELSE record[c]]
    /\ preHelloCount' =
          preHelloCount - Cardinality({c \in records : record[c].pendingHello})
    /\ socket' = [c \in Conn |-> IF c \in records /\ socket[c] = "open" THEN "closing"
                                 ELSE socket[c]]
    /\ UNCHANGED <<records, roomVars, peerVars, reaped>>

(* wss.close() resolves when the last socket is gone. *)
ShutdownDone ==
    /\ phase = "closing"
    /\ \A c \in Conn : socket[c] \in {"none", "gone"}
    /\ phase' = "closed"
    /\ UNCHANGED <<record, records, preHelloCount, roomVars, socket, peerVars, reaped>>

-----------------------------------------------------------------------------
Frame(c) ==
    \/ Expel(c) \/ InvalidFrame(c) \/ HelloFrame(c) \/ AcceptedFrame(c)
    \/ ClaimFrame(c) \/ ReleaseFrame(c) \/ RefusedFrame(c)

Next ==
    \/ \E c \in Conn :
          \/ OnConnection(c) \/ HelloTimeout(c) \/ Frame(c) \/ OnPong(c)
          \/ TerminateTimeout(c) \/ Backpressure(c) \/ PeerCloses(c)
          \/ WsCloseTimeout(c) \/ OnClose(c) \/ GoMute(c)
    \/ Heartbeat \/ Shutdown \/ ShutdownDone

(* Armed timers fire, destroyed sockets get their close event, the          *)
(* interval recurs, and a peer that answers at all answers a ping.  Nothing *)
(* is assumed of what peers send or when they leave.  ws's own close        *)
(* timeout is relied on only for a socket refused at admission, which has   *)
(* no record and no timer: for the others the server's own must do.         *)
Fairness ==
    /\ \A c \in Conn : /\ WF_vars(HelloTimeout(c))
                       /\ WF_vars(TerminateTimeout(c))
                       /\ WF_vars(c \notin records /\ WsCloseTimeout(c))
                       /\ WF_vars(OnClose(c))
                       /\ WF_vars(OnPong(c))
    /\ WF_vars(Heartbeat)
    /\ WF_vars(ShutdownDone)

Spec == Init /\ [][Next]_vars

FairSpec == Spec /\ Fairness

-----------------------------------------------------------------------------
(* Correctness.                                                            *)

(* Every variable has its type. *)
TypeOK ==
    /\ record \in [Conn -> Record]
    /\ records \subseteq Conn /\ members \subseteq Conn
    /\ mute \subseteq Conn /\ pongDue \subseteq Conn /\ reaped \subseteq Conn
    /\ preHelloCount \in 0 .. preHelloCeiling
    /\ holder \in Conn \cup {Nobody}
    /\ phase \in {"running", "closing", "closed"}
    /\ socket \in [Conn -> {"none", "open", "closing", "dying", "gone"}]

(* The count that admission looks at is the number of live connections     *)
(* that have neither joined nor been given up on: it neither leaks a slot  *)
(* nor frees one twice, whichever of timer, frame, shutdown and close      *)
(* event comes first.                                                      *)
PreHelloExact ==
    preHelloCount =
        Cardinality({c \in records : c \notin members /\ ~record[c].ejected})

(* No connection is without a deadline, and no timer outlives its          *)
(* connection: one that has not joined is on the hello timer, one that was *)
(* ejected on the terminate timer, and the heartbeat has the members.      *)
Deadlines ==
    \A c \in Conn :
        /\ record[c].helloTimer
             <=> c \in records /\ c \notin members /\ ~record[c].ejected
        /\ record[c].terminateTimer <=> c \in records /\ record[c].ejected

(* The room's members are connections the server still has, and the one in *)
(* control is one of them.                                                 *)
RoomFollowsSockets ==
    members \subseteq records /\ (holder # Nobody => holder \in members)

(* The heartbeat ends only connections whose peer stopped answering or     *)
(* that were ejected; a rate-limited pong is a pong.                       *)
HeartbeatSparesTheLiving ==
    \A c \in reaped : c \in mute \/ record[c].ejected

(* Once ejected, a connection neither joins nor gains control, however     *)
(* many of its frames are still to be read.                                *)
EjectedNeverServed ==
    [][\A c \in records : record[c].ejected =>
          /\ c \in members' => c \in members
          /\ holder' = c => holder = c]_vars

(* A peer that stops answering is gone in the end, and its control free:   *)
(* no half-open connection keeps the room from being controlled.           *)
SilentPeerGone == \A c \in Conn : c \in mute /\ c \in records ~> c \notin records

(* A connection joins or goes: pinging alone keeps no socket.              *)
JoinsOrGoes == \A c \in Conn : c \in records ~> c \in members \/ c \notin records

(* An ejected connection is gone in the end, whatever its peer does. *)
EjectedGone == \A c \in Conn : c \in records /\ record[c].ejected ~> c \notin records

(* A shutdown completes, whatever peers do. *)
ShutdownCompletes == phase = "closing" ~> phase = "closed"
=============================================================================
