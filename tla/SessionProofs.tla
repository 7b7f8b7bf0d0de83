---------------------------- MODULE SessionProofs ----------------------------
(***************************************************************************)
(* Proofs about Session, for any sockets, room size, ceiling and number of *)
(* strikes.                                                                *)
(*                                                                         *)
(* The inductive invariant says of every connection, from its socket, its  *)
(* record and its membership, which of the record's flags are set.  None   *)
(* of the properties is inductive alone: that a slot is not freed twice    *)
(* needs pendingHello to mean what the count counts, that needs the timers *)
(* to end with the connection, and that a heartbeat spares the living      *)
(* needs a connection that is being closed to be an ejected one.           *)
(***************************************************************************)
EXTENDS Session, FiniteSetTheorems, TLAPS

(* Neither joined nor given up on. *)
Waits(c) == c \in records /\ c \notin members /\ ~record[c].ejected

Pending == {c \in records : record[c].pendingHello}

(* The flags of a connection agree with where it stands. *)
FlagsMean ==
    \A c \in Conn :
        /\ record[c].pendingHello <=> Waits(c)
        /\ record[c].helloTimer <=> Waits(c)
        /\ record[c].terminateTimer <=> c \in records /\ record[c].ejected
        /\ ~record[c].ejected => record[c].consecutiveInvalid < MAX_CONSECUTIVE_INVALID

(* A record has a socket, and one that is being closed was ejected. *)
SocketsMean ==
    \A c \in Conn :
        /\ c \in records => socket[c] \in {"open", "closing", "dying"}
        /\ c \in records /\ socket[c] = "closing" => record[c].ejected
        /\ socket[c] = "open" => c \in records /\ ~record[c].ejected

(* Who is not alive still owes a pong, or has been ended for it. *)
PulseMeans ==
    /\ \A c \in records : record[c].isAlive \/ c \in pongDue \/ c \in reaped
    /\ \A c \in reaped : socket[c] \in {"dying", "gone"}

CountExact ==
    /\ IsFiniteSet(records)
    /\ preHelloCount = Cardinality(Pending)

SInv ==
    /\ TypeOK
    /\ FlagsMean
    /\ SocketsMean
    /\ PulseMeans
    /\ HeartbeatSparesTheLiving
    /\ RoomFollowsSockets
    /\ CountExact

-----------------------------------------------------------------------------
(* Counting.                                                               *)

(* Storing a record frees the slot of a connection that stops waiting.     *)
LEMMA SlotFollowsFlag ==
    ASSUME CountExact, record \in [Conn -> Record], records \subseteq Conn,
           NEW c \in records, NEW r \in Record,
           r.pendingHello => record[c].pendingHello,
           record' = [record EXCEPT ![c] = r],
           records' = records,
           preHelloCount' = preHelloCount - SlotsFreed(c, r)
    PROVE  CountExact'
<1>1. Pending \subseteq records /\ IsFiniteSet(Pending)
  BY FS_Subset DEF Pending, CountExact
<1>2. Cardinality(Pending) \in Nat
  BY <1>1, FS_CardinalityType
<1>3. \A x \in records : record'[x] = IF x = c THEN r ELSE record[x]
  OBVIOUS
<1>4. Pending' = IF r.pendingHello THEN Pending ELSE Pending \ {c}
  BY <1>3 DEF Pending
<1>5. CASE r.pendingHello
  BY <1>2, <1>4, <1>5 DEF CountExact, SlotsFreed
<1>6. CASE ~r.pendingHello
  <2>1. Cardinality(Pending \ {c})
          = IF c \in Pending THEN Cardinality(Pending) - 1 ELSE Cardinality(Pending)
    BY <1>1, FS_RemoveElement
  <2>2. c \in Pending <=> record[c].pendingHello
    BY DEF Pending
  <2>3. SlotsFreed(c, r) = IF c \in Pending THEN 1 ELSE 0
    BY <1>6, <2>2 DEF SlotsFreed
  <2> QED
    BY <1>2, <1>4, <1>6, <2>1, <2>3 DEF CountExact
<1> QED
  BY <1>5, <1>6

(* It counts the connections that wait. *)
LEMMA PendingWaits ==
    ASSUME FlagsMean, records \subseteq Conn
    PROVE  Pending = {c \in records : c \notin members /\ ~record[c].ejected}
  BY DEF FlagsMean, Pending, Waits

-----------------------------------------------------------------------------
(* Steps of one connection that has a record.                              *)

(* What every handler that ends in Store owes to the invariant. *)
LEMMA StoreKeeps ==
    ASSUME SInv,
           NEW c \in records, NEW r \in Record, Store(c, r),
           records' = records,
           members \subseteq members', members' \subseteq members \cup {c},
           holder' \in members' \cup {Nobody},
           pongDue' = pongDue \/ pongDue' = pongDue \ {c},
           UNCHANGED <<mute, phase, reaped>>,
           r.pendingHello <=> c \notin members' /\ ~r.ejected,
           r.helloTimer <=> c \notin members' /\ ~r.ejected,
           r.terminateTimer <=> r.ejected,
           r.pendingHello => record[c].pendingHello,
           record[c].ejected => r.ejected,
           ~r.ejected => r.consecutiveInvalid < MAX_CONSECUTIVE_INVALID,
           r.isAlive \/ (r.isAlive = record[c].isAlive /\ pongDue' = pongDue)
    PROVE  SInv'
<1>1. /\ record \in [Conn -> Record] /\ records \subseteq Conn
      /\ socket \in [Conn -> {"none", "open", "closing", "dying", "gone"}]
      /\ members \subseteq records /\ reaped \subseteq Conn
      /\ mute \subseteq Conn /\ pongDue \subseteq Conn
      /\ phase \in {"running", "closing", "closed"}
  BY DEF SInv, TypeOK, RoomFollowsSockets
<1>2. /\ record' = [record EXCEPT ![c] = r]
      /\ preHelloCount' = preHelloCount - SlotsFreed(c, r)
      /\ socket' = IF r.ejected /\ socket[c] = "open"
                   THEN [socket EXCEPT ![c] = "closing"] ELSE socket
  BY DEF Store
<1>3. \A x \in Conn : record'[x] = IF x = c THEN r ELSE record[x]
  BY <1>1, <1>2
<1>4. \A x \in Conn :
        socket'[x] = IF x = c /\ r.ejected /\ socket[c] = "open" THEN "closing"
                     ELSE socket[x]
  BY <1>1, <1>2
<1>5. CountExact'
  BY <1>1, <1>2, SlotFollowsFlag DEF SInv
<1>6. FlagsMean'
  BY <1>1, <1>3 DEF SInv, FlagsMean, Waits
<1>7. SocketsMean'
  BY <1>1, <1>3, <1>4 DEF SInv, SocketsMean
<1>8. PulseMeans'
  BY <1>1, <1>3, <1>4 DEF SInv, PulseMeans
<1>9. HeartbeatSparesTheLiving'
  BY <1>1, <1>3 DEF SInv, HeartbeatSparesTheLiving
<1>10. RoomFollowsSockets'
  BY <1>1 DEF RoomFollowsSockets
<1>11. TypeOK'
  <2>1. preHelloCount \in 0 .. preHelloCeiling
    BY DEF SInv, TypeOK
  <2>2. preHelloCount' <= preHelloCeiling
    BY <1>2, <2>1, SessionAssumption DEF SlotsFreed, preHelloCeiling
  <2>3. preHelloCount' \in 0 .. preHelloCeiling
    BY <1>5, <2>2, FS_Subset, FS_CardinalityType, SessionAssumption
    DEF CountExact, preHelloCeiling, Pending
  <2>4. /\ record' \in [Conn -> Record]
        /\ socket' \in [Conn -> {"none", "open", "closing", "dying", "gone"}]
        /\ pongDue' \subseteq Conn /\ members' \subseteq Conn
        /\ holder' \in Conn \cup {Nobody}
    BY <1>1, <1>2
  <2> QED
    BY <1>1, <2>3, <2>4 DEF TypeOK
<1> QED
  BY <1>5, <1>6, <1>7, <1>8, <1>9, <1>10, <1>11 DEF SInv

(* close(), counting a strike, and accepting a message, on a record. *)
LEMMA EjectedEffect ==
    ASSUME NEW r \in Record
    PROVE  /\ Ejected(r) \in Record
           /\ Ejected(r).ejected
           /\ ~r.ejected => /\ ~Ejected(r).pendingHello /\ ~Ejected(r).helloTimer
                            /\ Ejected(r).terminateTimer
           /\ r.ejected => Ejected(r) = r
           /\ Ejected(r).isAlive = r.isAlive
  BY DEF Ejected, ReleaseHelloWatch, Record

LEMMA CountInvalidEffect ==
    ASSUME NEW r \in Record, ~r.ejected,
           r.consecutiveInvalid < MAX_CONSECUTIVE_INVALID
    PROVE  LET counted == CountInvalid(r)
           IN  /\ counted \in Record
               /\ counted.isAlive = r.isAlive
               /\ \/ /\ counted.ejected /\ counted.terminateTimer
                     /\ ~counted.pendingHello /\ ~counted.helloTimer
                  \/ /\ ~counted.ejected
                     /\ counted.consecutiveInvalid < MAX_CONSECUTIVE_INVALID
                     /\ counted.terminateTimer = r.terminateTimer
                     /\ counted.pendingHello = r.pendingHello
                     /\ counted.helloTimer = r.helloTimer
<1> DEFINE counted == [r EXCEPT !.consecutiveInvalid = @ + 1]
<1>1. /\ counted \in Record
      /\ counted.isAlive = r.isAlive /\ ~counted.ejected
      /\ counted.terminateTimer = r.terminateTimer
      /\ counted.pendingHello = r.pendingHello
      /\ counted.helloTimer = r.helloTimer
  BY SessionAssumption DEF Record
<1>2. CountInvalid(r) = IF counted.consecutiveInvalid < MAX_CONSECUTIVE_INVALID
                        THEN counted ELSE Ejected(counted)
  BY DEF CountInvalid
<1> HIDE DEF counted
<1> QED
  BY <1>1, <1>2, EjectedEffect

LEMMA AcceptedEffect ==
    ASSUME NEW r \in Record
    PROVE  /\ Accepted(r) \in Record
           /\ ~Accepted(r).pendingHello /\ ~Accepted(r).helloTimer
           /\ Accepted(r).terminateTimer = r.terminateTimer
           /\ Accepted(r).ejected = r.ejected
           /\ Accepted(r).isAlive = r.isAlive
           /\ Accepted(r).consecutiveInvalid = 0
<1>1. 0 \in 0 .. MAX_CONSECUTIVE_INVALID
  BY SessionAssumption
<1>2. ReleaseHelloWatch(r) = [r EXCEPT !.helloTimer = FALSE, !.pendingHello = FALSE]
  BY DEF ReleaseHelloWatch
<1>3. Accepted(r) = [r EXCEPT !.helloTimer = FALSE, !.pendingHello = FALSE,
                              !.consecutiveInvalid = 0]
  BY <1>2 DEF Accepted, Record
<1> QED
  BY <1>1, <1>3 DEF Record

(* What the invariant says of a connection with a record. *)
LEMMA Stands ==
    ASSUME SInv, NEW c \in records
    PROVE  /\ record[c] \in Record
           /\ record[c].pendingHello <=> c \notin members /\ ~record[c].ejected
           /\ record[c].helloTimer <=> c \notin members /\ ~record[c].ejected
           /\ record[c].terminateTimer <=> record[c].ejected
           /\ ~record[c].ejected =>
                record[c].consecutiveInvalid < MAX_CONSECUTIVE_INVALID
           /\ holder \in members \cup {Nobody}
  BY DEF SInv, TypeOK, FlagsMean, Waits, RoomFollowsSockets

(* The hello timer and every frame but a pong. *)
LEMMA FramesKeep ==
    ASSUME SInv, NEW c \in Conn, HelloTimeout(c) \/ Frame(c)
    PROVE  SInv'
<1>1. c \in records /\ c \in Conn
  BY DEF HelloTimeout, Frame, Expel, InvalidFrame, HelloFrame, AcceptedFrame,
         ClaimFrame, ReleaseFrame, RefusedFrame, Readable
<1>2. CASE HelloTimeout(c)
  <2> DEFINE r == [record[c] EXCEPT !.helloTimer = FALSE]
  <2>1. ~record[c].ejected /\ c \notin members
    BY <1>1, <1>2, Stands DEF HelloTimeout
  <2>2. Store(c, Ejected(r))
    BY <1>2, <2>1 DEF HelloTimeout, HelloOverdue
  <2>3. r \in Record /\ ~r.ejected /\ r.isAlive = record[c].isAlive
    BY <1>1, <2>1, Stands DEF Record
  <2> HIDE DEF r
  <2> QED
    BY <1>1, <1>2, <2>2, <2>3, Stands, StoreKeeps, EjectedEffect
    DEF HelloTimeout, roomVars, peerVars
<1>3. CASE Expel(c)
  BY <1>1, <1>3, Stands, StoreKeeps, EjectedEffect DEF Expel, roomVars, peerVars
<1>4. CASE InvalidFrame(c)
  <2>1. ~record[c].ejected
    BY <1>4 DEF InvalidFrame, Readable
  <2>2. CASE c \in members
    BY <1>1, <1>4, <2>1, <2>2, Stands, StoreKeeps, CountInvalidEffect
    DEF InvalidFrame, roomVars, peerVars
  <2>3. CASE c \notin members
    BY <1>1, <1>4, <2>1, <2>3, Stands, StoreKeeps, EjectedEffect
    DEF InvalidFrame, roomVars, peerVars
  <2> QED
    BY <2>2, <2>3
<1>5. CASE HelloFrame(c)
  <2>1. ~record[c].ejected /\ c \notin members
    BY <1>5 DEF HelloFrame, Readable
  <2>2. CASE members' = members \cup {c} /\ Store(c, Accepted(record[c]))
    BY <1>1, <1>5, <2>1, <2>2, Stands, StoreKeeps, AcceptedEffect, SessionAssumption
    DEF HelloFrame, peerVars
  <2>3. CASE members' = members /\ Store(c, Ejected(record[c]))
    BY <1>1, <1>5, <2>1, <2>3, Stands, StoreKeeps, EjectedEffect
    DEF HelloFrame, peerVars
  <2> QED
    BY <1>5, <2>2, <2>3 DEF HelloFrame
<1>6. ASSUME c \in members, ~record[c].ejected, Store(c, Accepted(record[c])),
             holder' \in {holder, c, Nobody},
             UNCHANGED <<members, records, peerVars, phase, reaped>>
      PROVE  SInv'
  BY <1>1, <1>6, Stands, StoreKeeps, AcceptedEffect, SessionAssumption DEF peerVars
<1>7. CASE AcceptedFrame(c)
  BY <1>6, <1>7 DEF AcceptedFrame, Readable, roomVars
<1>8. CASE ClaimFrame(c)
  BY <1>6, <1>8 DEF ClaimFrame, Readable
<1>9. CASE ReleaseFrame(c)
  BY <1>6, <1>9 DEF ReleaseFrame, Readable
<1>10. CASE RefusedFrame(c)
  BY <1>1, <1>10, Stands, StoreKeeps DEF RefusedFrame, Readable, roomVars, peerVars
<1> QED
  BY <1>2, <1>3, <1>4, <1>5, <1>7, <1>8, <1>9, <1>10 DEF Frame

LEMMA PongKeeps ==
    ASSUME SInv, NEW c \in Conn, OnPong(c)
    PROVE  SInv'
<1>1. c \in records /\ ~record[c].ejected
  BY DEF OnPong, Readable
<1>2. PICK served \in BOOLEAN : Store(c, PongReceived(record[c], served))
  BY DEF OnPong
<1> DEFINE r == PongReceived(record[c], served)
<1>3. /\ r \in Record /\ r.isAlive
      /\ r.pendingHello = record[c].pendingHello /\ r.helloTimer = record[c].helloTimer
      /\ r.terminateTimer = record[c].terminateTimer /\ r.ejected = record[c].ejected
      /\ r.consecutiveInvalid = record[c].consecutiveInvalid
  BY <1>1, Stands DEF PongReceived, Record
<1> HIDE DEF r
<1> QED
  BY <1>1, <1>2, <1>3, Stands, StoreKeeps DEF OnPong, r, roomVars

-----------------------------------------------------------------------------
(* The other steps.                                                        *)

(* A socket dies, from whatever cause. *)
LEMMA DeathKeeps ==
    ASSUME SInv, NEW c \in Conn, socket[c] # "none",
           c \in records \/ socket[c] \notin {"open", "gone"},
           socket' = [socket EXCEPT ![c] = "dying"],
           UNCHANGED <<record, records, preHelloCount, roomVars, peerVars, phase, reaped>>
    PROVE  SInv'
<1>1. socket \in [Conn -> {"none", "open", "closing", "dying", "gone"}]
      /\ records \subseteq Conn
  BY DEF SInv, TypeOK
<1>2. \A x \in Conn : socket'[x] = IF x = c THEN "dying" ELSE socket[x]
  BY <1>1
<1>3. SocketsMean' /\ PulseMeans'
  BY <1>1, <1>2 DEF SInv, SocketsMean, PulseMeans, peerVars
<1>4. TypeOK'
  BY <1>1 DEF SInv, TypeOK, roomVars, peerVars
<1>5. FlagsMean' /\ CountExact' /\ RoomFollowsSockets' /\ HeartbeatSparesTheLiving'
  BY DEF SInv, FlagsMean, Waits, CountExact, Pending, RoomFollowsSockets,
         HeartbeatSparesTheLiving, roomVars, peerVars
<1> QED
  BY <1>3, <1>4, <1>5 DEF SInv

LEMMA AdmissionKeeps ==
    ASSUME SInv, NEW c \in Conn, OnConnection(c)
    PROVE  SInv'
<1>1. /\ record \in [Conn -> Record] /\ records \subseteq Conn
      /\ socket \in [Conn -> {"none", "open", "closing", "dying", "gone"}]
      /\ socket[c] = "none" /\ c \notin records /\ c \notin members /\ c \notin reaped
      /\ preHelloCount \in 0 .. preHelloCeiling
  BY DEF SInv, TypeOK, OnConnection, SocketsMean, PulseMeans, RoomFollowsSockets
<1>2. CASE preHelloCount >= preHelloCeiling
  <2>1. /\ socket' = [socket EXCEPT ![c] = "closing"]
        /\ UNCHANGED <<record, records, preHelloCount, roomVars, peerVars, phase, reaped>>
    BY <1>1, <1>2, SessionAssumption DEF OnConnection, preHelloCeiling
  <2>2. \A x \in Conn : socket'[x] = IF x = c THEN "closing" ELSE socket[x]
    BY <1>1, <2>1
  <2>3. SocketsMean' /\ PulseMeans'
    BY <1>1, <2>1, <2>2 DEF SInv, SocketsMean, PulseMeans, peerVars
  <2>4. TypeOK'
    BY <1>1, <2>1 DEF SInv, TypeOK, roomVars, peerVars
  <2>5. FlagsMean' /\ CountExact' /\ RoomFollowsSockets' /\ HeartbeatSparesTheLiving'
    BY <2>1 DEF SInv, FlagsMean, Waits, CountExact, Pending, RoomFollowsSockets,
                HeartbeatSparesTheLiving, roomVars, peerVars
  <2> QED
    BY <2>3, <2>4, <2>5 DEF SInv
<1>3. CASE ~(preHelloCount >= preHelloCeiling)
  <2>1. /\ preHelloCount < preHelloCeiling
        /\ socket' = [socket EXCEPT ![c] = "open"]
        /\ records' = records \cup {c}
        /\ preHelloCount' = preHelloCount + 1
        /\ record' = [record EXCEPT ![c] = NewRecord]
        /\ UNCHANGED <<roomVars, peerVars, phase, reaped>>
    BY <1>3 DEF OnConnection
  <2>2. NewRecord \in Record
    BY SessionAssumption DEF NewRecord, Record
  <2>3. \A x \in Conn : /\ socket'[x] = IF x = c THEN "open" ELSE socket[x]
                        /\ record'[x] = IF x = c THEN NewRecord ELSE record[x]
    BY <1>1, <2>1
  <2>4. SocketsMean' /\ PulseMeans'
    BY <1>1, <2>1, <2>3 DEF SInv, SocketsMean, PulseMeans, NewRecord, peerVars
  <2>5. FlagsMean'
    BY <1>1, <2>1, <2>3, SessionAssumption
    DEF SInv, FlagsMean, Waits, NewRecord, roomVars
  <2>6. CountExact'
    <3>1. Pending' = Pending \cup {c} /\ c \notin Pending
      BY <1>1, <2>1, <2>3 DEF Pending, NewRecord
    <3>2. IsFiniteSet(Pending) /\ IsFiniteSet(records)
      BY FS_Subset DEF Pending, SInv, CountExact
    <3>3. Cardinality(Pending \cup {c}) = Cardinality(Pending) + 1
          /\ IsFiniteSet(records \cup {c})
      BY <3>1, <3>2, FS_AddElement
    <3> QED
      BY <2>1, <3>1, <3>3 DEF SInv, CountExact
  <2>7. TypeOK'
    BY <1>1, <2>1, <2>2, SessionAssumption DEF SInv, TypeOK, roomVars, peerVars,
                                               preHelloCeiling
  <2>8. RoomFollowsSockets' /\ HeartbeatSparesTheLiving'
    BY <1>1, <2>1, <2>3 DEF SInv, TypeOK, RoomFollowsSockets, HeartbeatSparesTheLiving,
                            roomVars, peerVars
  <2> QED
    BY <2>4, <2>5, <2>6, <2>7, <2>8 DEF SInv
<1> QED
  BY <1>2, <1>3

(* A sweep ends only who was ejected, or mute: all others have answered. *)
LEMMA HeartbeatKeeps ==
    ASSUME SInv, Heartbeat
    PROVE  SInv'
<1> DEFINE dead == {c \in records : MissedPong(c)}
<1>1. /\ record \in [Conn -> Record] /\ records \subseteq Conn
      /\ socket \in [Conn -> {"none", "open", "closing", "dying", "gone"}]
      /\ reaped \subseteq Conn
  BY DEF SInv, TypeOK
<1>2. /\ socket' = [c \in Conn |-> IF c \in dead THEN "dying" ELSE socket[c]]
      /\ reaped' = reaped \cup dead
      /\ record' = [c \in Conn |-> IF c \in records \ dead
                                   THEN [record[c] EXCEPT !.isAlive = FALSE]
                                   ELSE record[c]]
      /\ pongDue' = records \ dead
      /\ \A c \in pongDue : ~Readable(c)
      /\ UNCHANGED <<records, preHelloCount, roomVars, mute, phase>>
  BY DEF Heartbeat
<1>3. \A c \in dead : c \in reaped \/ c \in mute \/ record[c].ejected
  <2> SUFFICES ASSUME NEW c \in dead, c \notin reaped
               PROVE  c \in mute \/ record[c].ejected
    OBVIOUS
  <2>1. c \in records /\ c \in pongDue
    BY DEF MissedPong, SInv, PulseMeans
  <2>2. ~Readable(c)
    BY <1>2, <2>1
  <2> QED
    BY <1>1, <2>1, <2>2 DEF Readable, SInv, SocketsMean
<1>4. \A c \in Conn :
        /\ record'[c] \in Record
        /\ record'[c].pendingHello = record[c].pendingHello
        /\ record'[c].helloTimer = record[c].helloTimer
        /\ record'[c].terminateTimer = record[c].terminateTimer
        /\ record'[c].ejected = record[c].ejected
        /\ record'[c].consecutiveInvalid = record[c].consecutiveInvalid
        /\ socket'[c] = IF c \in dead THEN "dying" ELSE socket[c]
  BY <1>1, <1>2 DEF Record
<1>5. FlagsMean'
  BY <1>2, <1>4 DEF SInv, FlagsMean, Waits, roomVars
<1>6. SocketsMean'
  BY <1>1, <1>2, <1>4 DEF SInv, SocketsMean
<1>7. PulseMeans'
  BY <1>1, <1>2, <1>4 DEF SInv, PulseMeans
<1>8. HeartbeatSparesTheLiving'
  BY <1>1, <1>2, <1>3, <1>4 DEF SInv, HeartbeatSparesTheLiving
<1>9. CountExact'
  <2>1. Pending' = Pending
    BY <1>1, <1>2, <1>4 DEF Pending
  <2> QED
    BY <1>2, <2>1 DEF SInv, CountExact
<1>10. RoomFollowsSockets'
  BY <1>2 DEF SInv, RoomFollowsSockets, roomVars
<1>11. TypeOK'
  <2>1. record' \in [Conn -> Record]
    BY <1>2, <1>4
  <2>2. socket' \in [Conn -> {"none", "open", "closing", "dying", "gone"}]
    BY <1>1, <1>2
  <2> QED
    BY <1>1, <1>2, <2>1, <2>2 DEF SInv, TypeOK, roomVars
<1> QED
  BY <1>5, <1>6, <1>7, <1>8, <1>9, <1>10, <1>11 DEF SInv

LEMMA CloseKeeps ==
    ASSUME SInv, NEW c \in Conn, OnClose(c)
    PROVE  SInv'
<1>1. /\ record \in [Conn -> Record] /\ records \subseteq Conn
      /\ socket \in [Conn -> {"none", "open", "closing", "dying", "gone"}]
      /\ members \subseteq records /\ pongDue \subseteq Conn
      /\ socket[c] = "dying" /\ socket' = [socket EXCEPT ![c] = "gone"]
      /\ pongDue' = pongDue \ {c}
      /\ UNCHANGED <<mute, phase, reaped>>
  BY DEF SInv, TypeOK, RoomFollowsSockets, OnClose
<1>2. \A x \in Conn : socket'[x] = IF x = c THEN "gone" ELSE socket[x]
  BY <1>1
<1>3. CASE c \notin records
  <2>1. UNCHANGED <<record, preHelloCount, records, members, holder>>
    BY <1>3 DEF OnClose, roomVars
  <2>2. SocketsMean' /\ PulseMeans'
    BY <1>1, <1>2, <1>3, <2>1 DEF SInv, SocketsMean, PulseMeans
  <2>3. TypeOK'
    BY <1>1, <2>1 DEF SInv, TypeOK
  <2>4. FlagsMean' /\ CountExact' /\ RoomFollowsSockets' /\ HeartbeatSparesTheLiving'
    BY <1>1, <2>1 DEF SInv, FlagsMean, Waits, CountExact, Pending, RoomFollowsSockets,
                      HeartbeatSparesTheLiving
  <2> QED
    BY <2>2, <2>3, <2>4 DEF SInv
<1>4. CASE c \in records
  <2> DEFINE r == Closed(record[c])
  <2>1. /\ record' = [record EXCEPT ![c] = r]
        /\ preHelloCount' = preHelloCount - SlotsFreed(c, r)
        /\ records' = records \ {c}
        /\ members' = members \ {c}
        /\ holder' = IF holder = c THEN Nobody ELSE holder
    BY <1>1, <1>4 DEF OnClose, HolderAfter
  <2>2. /\ r \in Record /\ r.ejected = record[c].ejected /\ ~r.pendingHello
        /\ ~r.helloTimer /\ ~r.terminateTimer
        /\ r.consecutiveInvalid = record[c].consecutiveInvalid
    BY <1>1 DEF Closed, Record
  <2>3. \A x \in Conn : record'[x] = IF x = c THEN r ELSE record[x]
    BY <1>1, <2>1
  <2>4. SlotsFreed(c, r) = IF c \in Pending THEN 1 ELSE 0
    BY <1>4, <2>2 DEF SlotsFreed, Pending
  <2> HIDE DEF r
  <2>5. FlagsMean'
    BY <1>1, <2>1, <2>2, <2>3 DEF SInv, FlagsMean, Waits
  <2>6. SocketsMean' /\ PulseMeans'
    BY <1>1, <1>2, <2>1, <2>3 DEF SInv, SocketsMean, PulseMeans
  <2>7. HeartbeatSparesTheLiving' /\ RoomFollowsSockets'
    BY <1>1, <2>1, <2>2, <2>3 DEF SInv, TypeOK, HeartbeatSparesTheLiving,
                                  RoomFollowsSockets
  <2>8. IsFiniteSet(Pending) /\ IsFiniteSet(records)
    BY FS_Subset DEF Pending, SInv, CountExact
  <2>9. CountExact'
    <3>1. Pending' = Pending \ {c}
      BY <1>1, <2>1, <2>3 DEF Pending
    <3>2. /\ IsFiniteSet(records \ {c})
          /\ Cardinality(Pending) \in Nat
          /\ Cardinality(Pending \ {c})
                = IF c \in Pending THEN Cardinality(Pending) - 1 ELSE Cardinality(Pending)
      BY <2>8, FS_RemoveElement, FS_CardinalityType
    <3> QED
      BY <2>1, <2>4, <3>1, <3>2 DEF SInv, CountExact
  <2>10. TypeOK'
    <3>1. preHelloCount' \in Nat /\ preHelloCount' <= preHelloCount
      BY <2>1, <2>4, <2>8, <2>9, FS_Subset, FS_CardinalityType
      DEF CountExact, Pending, SInv, TypeOK
    <3>2. preHelloCount' \in 0 .. preHelloCeiling
      BY <3>1, SessionAssumption DEF SInv, TypeOK, preHelloCeiling
    <3> QED
      BY <1>1, <2>1, <2>2, <3>2 DEF SInv, TypeOK
  <2> QED
    BY <2>5, <2>6, <2>7, <2>9, <2>10 DEF SInv
<1> QED
  BY <1>3, <1>4

(* A shutdown gives every waiting connection's slot back at once. *)
LEMMA ShutdownKeeps ==
    ASSUME SInv, Shutdown
    PROVE  SInv'
<1> DEFINE ended(c) == Ejected(ReleaseHelloWatch(record[c]))
<1>1. /\ record \in [Conn -> Record] /\ records \subseteq Conn
      /\ socket \in [Conn -> {"none", "open", "closing", "dying", "gone"}]
      /\ preHelloCount = Cardinality(Pending)
      /\ IsFiniteSet(Pending)
  BY FS_Subset DEF SInv, TypeOK, CountExact, Pending
<1>2. /\ record' = [c \in Conn |-> IF c \in records THEN ended(c) ELSE record[c]]
      /\ preHelloCount' = preHelloCount - Cardinality(Pending)
      /\ socket' = [c \in Conn |-> IF c \in records /\ socket[c] = "open"
                                   THEN "closing" ELSE socket[c]]
      /\ phase' = "closing"
      /\ UNCHANGED <<records, roomVars, peerVars, reaped>>
  BY DEF Shutdown, Pending
<1>3. \A c \in records :
        /\ ended(c) \in Record /\ ended(c).ejected
        /\ ~ended(c).pendingHello /\ ~ended(c).helloTimer /\ ended(c).terminateTimer
        /\ ended(c).isAlive = record[c].isAlive
  <2> SUFFICES ASSUME NEW c \in records
               PROVE  /\ ended(c) \in Record /\ ended(c).ejected
                      /\ ~ended(c).pendingHello /\ ~ended(c).helloTimer
                      /\ ended(c).terminateTimer
                      /\ ended(c).isAlive = record[c].isAlive
    OBVIOUS
  <2> DEFINE r == ReleaseHelloWatch(record[c])
  <2>1. /\ r \in Record /\ r.ejected = record[c].ejected
        /\ ~r.pendingHello /\ ~r.helloTimer
        /\ r.terminateTimer = record[c].terminateTimer
        /\ r.isAlive = record[c].isAlive
    BY Stands DEF ReleaseHelloWatch, Record
  <2> HIDE DEF r
  <2> QED
    BY <2>1, EjectedEffect, Stands DEF r
<1> HIDE DEF ended
<1>4. FlagsMean'
  BY <1>1, <1>2, <1>3 DEF SInv, FlagsMean, Waits, roomVars
<1>5. SocketsMean'
  BY <1>1, <1>2, <1>3 DEF SInv, SocketsMean
<1>6. PulseMeans' /\ HeartbeatSparesTheLiving' /\ RoomFollowsSockets'
  BY <1>1, <1>2, <1>3 DEF SInv, TypeOK, PulseMeans, HeartbeatSparesTheLiving,
                          RoomFollowsSockets, roomVars, peerVars
<1>7. preHelloCount' = 0
  BY <1>1, <1>2, FS_CardinalityType
<1>8. CountExact'
  <2>1. Pending' = {}
    BY <1>1, <1>2, <1>3 DEF Pending
  <2> QED
    BY <1>2, <1>7, <2>1, FS_EmptySet DEF SInv, CountExact
<1>9. TypeOK'
  <2>1. record' \in [Conn -> Record]
    BY <1>1, <1>2, <1>3
  <2>2. preHelloCount' \in 0 .. preHelloCeiling
    BY <1>7, SessionAssumption DEF preHelloCeiling
  <2> QED
    BY <1>1, <1>2, <2>1, <2>2 DEF SInv, TypeOK, roomVars, peerVars
<1> QED
  BY <1>4, <1>5, <1>6, <1>8, <1>9 DEF SInv

LEMMA SessionInit ==
    ASSUME Init
    PROVE  SInv
<1>1. Unused \in Record /\ ~Unused.helloTimer /\ ~Unused.pendingHello
      /\ ~Unused.terminateTimer /\ Unused.consecutiveInvalid = 0
  <2>1. 0 \in 0 .. MAX_CONSECUTIVE_INVALID
    BY SessionAssumption
  <2>2. NewRecord \in Record /\ NewRecord.consecutiveInvalid = 0 /\ ~NewRecord.terminateTimer
    BY <2>1 DEF NewRecord, Record
  <2> QED
    BY <2>2 DEF Unused, Record
<1>2. Pending = {}
  BY DEF Init, Pending
<1> QED
  BY <1>1, <1>2, FS_EmptySet, SessionAssumption
  DEF Init, SInv, TypeOK, FlagsMean, Waits, SocketsMean, PulseMeans,
      HeartbeatSparesTheLiving, RoomFollowsSockets, CountExact, preHelloCeiling

LEMMA SessionNext ==
    ASSUME SInv, [Next]_vars
    PROVE  SInv'
<1>1. ASSUME NEW c \in Conn,
             \/ TerminateTimeout(c) \/ Backpressure(c) \/ PeerCloses(c) \/ WsCloseTimeout(c)
      PROVE  SInv'
  <2>1. /\ socket[c] # "none"
        /\ c \in records \/ socket[c] \notin {"open", "gone"}
        /\ socket' = [socket EXCEPT ![c] = "dying"]
    BY <1>1 DEF TerminateTimeout, Backpressure, PeerCloses, WsCloseTimeout, SInv,
                SocketsMean, RoomFollowsSockets
  <2>2. UNCHANGED <<record, records, preHelloCount, roomVars, peerVars, phase, reaped>>
    BY <1>1 DEF TerminateTimeout, Backpressure, PeerCloses, WsCloseTimeout
  <2> QED
    BY <2>1, <2>2, DeathKeeps
<1>2. ASSUME NEW c \in Conn, GoMute(c)
      PROVE  SInv'
  BY <1>2 DEF GoMute, roomVars, SInv, TypeOK, FlagsMean, Waits, SocketsMean, PulseMeans,
              HeartbeatSparesTheLiving, RoomFollowsSockets, CountExact, Pending
<1>3. CASE ShutdownDone
  BY <1>3 DEF ShutdownDone, roomVars, peerVars, SInv, TypeOK, FlagsMean, Waits,
              SocketsMean, PulseMeans, HeartbeatSparesTheLiving, RoomFollowsSockets,
              CountExact, Pending
<1>4. CASE UNCHANGED vars
  BY <1>4 DEF vars, SInv, TypeOK, FlagsMean, Waits, SocketsMean, PulseMeans,
              HeartbeatSparesTheLiving, RoomFollowsSockets, CountExact, Pending
<1> QED
  BY <1>1, <1>2, <1>3, <1>4, AdmissionKeeps, FramesKeep, PongKeeps, CloseKeeps,
     HeartbeatKeeps, ShutdownKeeps
  DEF Next

-----------------------------------------------------------------------------
(* What follows.                                                           *)

THEOREM SessionInvariant == Spec => []SInv
<1>1. Init => SInv
  BY SessionInit
<1>2. SInv /\ [Next]_vars => SInv'
  BY SessionNext
<1> QED
  BY <1>1, <1>2, PTL DEF Spec

(* Records, sockets and counters have their types, whatever order timers,  *)
(* frames, sweeps and close events come in.                                *)
THEOREM SessionTypes == Spec => []TypeOK
<1>1. SInv => TypeOK
  BY DEF SInv
<1> QED
  BY <1>1, SessionInvariant, PTL

(* The pre-hello count neither leaks a slot nor frees one twice.           *)
THEOREM SlotsExact == Spec => []PreHelloExact
<1>1. SInv => PreHelloExact
  BY PendingWaits DEF SInv, TypeOK, CountExact, PreHelloExact
<1> QED
  BY <1>1, SessionInvariant, PTL

(* No connection is without a deadline, no timer outlives its connection.  *)
THEOREM DeadlinesHold == Spec => []Deadlines
<1>1. SInv => Deadlines
  BY DEF SInv, FlagsMean, Waits, Deadlines
<1> QED
  BY <1>1, SessionInvariant, PTL

(* Members are connections that the server still has; so is the holder.    *)
THEOREM RoomOfLiveSockets == Spec => []RoomFollowsSockets
<1>1. SInv => RoomFollowsSockets
  BY DEF SInv
<1> QED
  BY <1>1, SessionInvariant, PTL

(* The heartbeat ends nobody who answers.                                  *)
THEOREM LivingSpared == Spec => []HeartbeatSparesTheLiving
<1>1. SInv => HeartbeatSparesTheLiving
  BY DEF SInv
<1> QED
  BY <1>1, SessionInvariant, PTL

(* Once ejected, a connection neither joins nor gains control.             *)
THEOREM EjectedIsOut == Spec => EjectedNeverServed
<1>1. SInv /\ [Next]_vars =>
        [\A c \in records : record[c].ejected =>
            /\ c \in members' => c \in members
            /\ holder' = c => holder = c]_vars
  <2> SUFFICES ASSUME SInv, [Next]_vars, NEW x \in records, record[x].ejected
               PROVE  /\ x \in members' => x \in members
                      /\ holder' = x => holder = x
    OBVIOUS
  <2>1. x # Nobody
    BY SessionAssumption DEF SInv, TypeOK
  <2>2. ASSUME NEW c \in Conn, HelloFrame(c)
        PROVE  holder' = holder /\ members' \subseteq members \cup {c} /\ c # x
    BY <2>2 DEF HelloFrame, Readable
  <2>3. ASSUME NEW c \in Conn, ClaimFrame(c)
        PROVE  members' = members /\ holder' = c /\ c # x
    BY <2>3 DEF ClaimFrame, Readable
  <2>4. ASSUME NEW c \in Conn, ReleaseFrame(c)
        PROVE  members' = members /\ holder' = Nobody
    BY <2>4 DEF ReleaseFrame
  <2>5. ASSUME NEW c \in Conn, OnClose(c)
        PROVE  members' \subseteq members /\ holder' \in {holder, Nobody}
    BY <2>5 DEF OnClose, HolderAfter, roomVars
  <2>6. ASSUME NEW c \in Conn,
               \/ OnConnection(c) \/ HelloTimeout(c) \/ Expel(c) \/ InvalidFrame(c)
               \/ AcceptedFrame(c) \/ RefusedFrame(c) \/ OnPong(c) \/ TerminateTimeout(c)
               \/ Backpressure(c) \/ PeerCloses(c) \/ WsCloseTimeout(c) \/ GoMute(c)
        PROVE  members' = members /\ holder' = holder
    BY <2>6 DEF OnConnection, HelloTimeout, Expel, InvalidFrame, AcceptedFrame,
                RefusedFrame, OnPong, TerminateTimeout, Backpressure, PeerCloses,
                WsCloseTimeout, GoMute, roomVars
  <2>7. CASE Heartbeat \/ Shutdown \/ ShutdownDone \/ UNCHANGED vars
    BY <2>7 DEF Heartbeat, Shutdown, ShutdownDone, vars, roomVars
  <2> QED
    BY <2>1, <2>2, <2>3, <2>4, <2>5, <2>6, <2>7 DEF Next, Frame
<1> QED
  BY <1>1, SessionInvariant, PTL DEF Spec, EjectedNeverServed
=============================================================================
