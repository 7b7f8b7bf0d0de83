-------------------------------- MODULE Room --------------------------------
(***************************************************************************)
(* The room domain of the sync server (server/src/room.js): who is a       *)
(* member, who holds control, the canonical state of the decks, and what   *)
(* one call of handleMessage or handleDisconnect does to them.             *)
(*                                                                         *)
(* room.js never sees a socket.  It is called with a connection and a      *)
(* parsed message and hands frames to conn.send; here `sent` is what the   *)
(* last call handed to each connection, and `closed` the connections on    *)
(* which it called conn.close.  The frames' journey to the clients is in   *)
(* DjSync, the life of a socket in Session.                                *)
(*                                                                         *)
(* Abstracted: names, human-readable error texts, close codes, logging,    *)
(* and the checks of validate.js, of which the model keeps the verdict.    *)
(***************************************************************************)
EXTENDS Protocol

CONSTANTS
    Conn,         \* connections (conn objects of server.js), each used once
    MaxClients,   \* config.maxClients
    MaxSeq,       \* bound of the model on serverSeq
    NoConn        \* no entry in the registry

ASSUME RoomAssumption ==
    /\ NoConn \notin Conn
    /\ MaxClients \in Nat \ {0}
    /\ MaxSeq \in Nat

ASSUME FiniteIds == IsFiniteSet(ClientId)

VARIABLES
    connId,        \* conn.id of each connection: NoId until its hello, then never reset
    clients,       \* the Map id -> conn
    decks,         \* canonical deck states; NoDeck while the deck was never written
    serverSeq,     \* number of deltas applied
    controllerId,  \* the id in control, or NoId
    sent,          \* frames the last call handed to each connection
    closed,        \* connections the room has closed
    gone           \* connections whose socket's close event reached handleDisconnect

vars == <<connId, clients, decks, serverSeq, controllerId, sent, closed, gone>>

-----------------------------------------------------------------------------
(* State functions.  Those that a handler evaluates after it has changed   *)
(* the registry take the registry as a parameter.                          *)

(* ids of the Map `clients`. *)
Registered(cl) == {id \in ClientId : cl[id] # NoConn}

(* The connections broadcast() reaches. *)
Recipients(cl) == {cl[id] : id \in Registered(cl)}

(* MUTANT: any connection that ever said hello counts as a member. *)
IsMemberById(c) == connId[c] # NoId

(* True only for the live entry of the connection's id. *)
IsMember(c) == connId[c] # NoId /\ clients[connId[c]] = c

RoleOf(id) == IF id = controllerId THEN "controller" ELSE "observer"

(* What a snapshot reports of the decks. *)
SnapshotOf == decks

(* The other members, with their roles, as a welcome lists them. *)
PeersOf(id) ==
    {[clientId |-> p, role |-> RoleOf(p)] : p \in Registered(clients) \ {id}}

(* The deck a delta is merged into, created on its first use. *)
Target(d) == IF decks[d] = NoDeck THEN DefaultDeck ELSE decks[d]

Silence == [c \in Conn |-> <<>>]

Reply(c, msgs) == [x \in Conn |-> IF x = c THEN msgs ELSE <<>>]

Broadcast(recipients, msg) ==
    [x \in Conn |-> IF x \in recipients THEN <<msg>> ELSE <<>>]

ErrorMessage(code) == [type |-> "error", code |-> code]

SnapshotMessage ==
    [type |-> "snapshot", serverSeq |-> serverSeq, decks |-> SnapshotOf]

Welcome(id) ==
    [type |-> "welcome", clientId |-> id, role |-> RoleOf(id),
     serverSeq |-> serverSeq, decks |-> SnapshotOf, peers |-> PeersOf(id)]

-----------------------------------------------------------------------------
(* Initially nobody has connected and only the first deck exists.          *)

Init ==
    /\ connId = [c \in Conn |-> NoId]
    /\ clients = [id \in ClientId |-> NoConn]
    /\ decks = [d \in Deck |-> IF d = FirstDeck THEN DefaultDeck ELSE NoDeck]
    /\ serverSeq = 0
    /\ controllerId = NoId
    /\ sent = Silence
    /\ closed = {}
    /\ gone = {}

roomState == <<connId, clients, decks, serverSeq, controllerId, closed, gone>>

-----------------------------------------------------------------------------
(* handleMessage.                                                          *)

(* sendError: an error frame to the sender and nothing else. *)
Refuse(c, code) ==
    /\ sent' = Reply(c, <<ErrorMessage(code)>>)
    /\ UNCHANGED roomState

(* closeHandshake: the room closes a connection that is not registered. *)
CloseHandshake(c) ==
    /\ closed' = closed \cup {c}
    /\ sent' = Silence
    /\ UNCHANGED <<connId, clients, decks, serverSeq, controllerId, gone>>

(* MUTANT: capacity counted one too many. *)
RoomFullLate == Cardinality(Registered(clients)) > MaxClients

RoomFull == Cardinality(Registered(clients)) >= MaxClients

(* allocateClientId skips the ids in use. *)
FreeId(id) == clients[id] = NoConn

(* A valid hello with room left: the connection gets a free id, is told the *)
(* state of the room, and the others are told of it.                        *)
Register(c, id) ==
    LET others == Recipients(clients)
        joined == [type |-> "peerJoined", clientId |-> id, role |-> RoleOf(id)]
    IN  /\ FreeId(id)
        /\ connId' = [connId EXCEPT ![c] = id]
        /\ clients' = [clients EXCEPT ![id] = c]
        /\ sent' = [x \in Conn |-> IF x = c THEN <<Welcome(id)>>
                                   ELSE IF x \in others THEN <<joined>>
                                   ELSE <<>>]
        /\ UNCHANGED <<decks, serverSeq, controllerId, closed, gone>>

(* The first message of a connection: a hello, or the connection is closed. *)
(* A hundred draws that all collide close it too; that takes a member.      *)
HandleHello(c, msg) ==
    \/ /\ ~(msg.type = "hello" /\ msg.valid)
       /\ CloseHandshake(c)
    \/ msg.type = "hello" /\ msg.valid /\ RoomFull /\ CloseHandshake(c)
    \/ /\ msg.type = "hello" /\ msg.valid
       /\ ~RoomFull /\ Registered(clients) # {}
       /\ CloseHandshake(c)
    \/ /\ msg.type = "hello" /\ msg.valid
       /\ ~RoomFull
       /\ \E id \in ClientId : Register(c, id)

ControlFree == controllerId = NoId

HandleClaimControl(c) ==
    \/ ~IsMember(c) /\ Refuse(c, "bad-message")
    \/ IsMember(c) /\ ~ControlFree /\ Refuse(c, "control-taken")
    \/ /\ IsMember(c) /\ ControlFree
       /\ controllerId' = connId[c]
       /\ sent' = Broadcast(Recipients(clients),
                            [type |-> "roleChanged", clientId |-> connId[c],
                             role |-> "controller"])
       /\ UNCHANGED <<connId, clients, decks, serverSeq, closed, gone>>

HandleReleaseControl(c) ==
    \/ ~IsMember(c) /\ Refuse(c, "bad-message")
    \/ IsMember(c) /\ controllerId # connId[c] /\ Refuse(c, "not-controller")
    \/ /\ IsMember(c) /\ controllerId = connId[c]
       /\ controllerId' = NoId
       /\ sent' = Broadcast(Recipients(clients),
                            [type |-> "roleChanged", clientId |-> connId[c],
                             role |-> "observer"])
       /\ UNCHANGED <<connId, clients, decks, serverSeq, closed, gone>>

MayWrite(c) == connId[c] = controllerId

(* A refused delta is answered with the state that undoes the sender's     *)
(* optimistic change; an accepted one goes to everybody else.              *)
HandleDelta(c, d, changes) ==
    \/ ~IsMember(c) /\ Refuse(c, "bad-message")
    \/ IsMember(c) /\ ~ValidDelta(changes) /\ Refuse(c, "bad-message")
    \/ /\ IsMember(c) /\ ValidDelta(changes) /\ ~MayWrite(c)
       /\ sent' = Reply(c, <<ErrorMessage("not-controller"), SnapshotMessage>>)
       /\ UNCHANGED roomState
    \/ /\ IsMember(c) /\ ValidDelta(changes) /\ MayWrite(c)
       /\ serverSeq < MaxSeq                                  \* model bound
       /\ decks' = [decks EXCEPT ![d] = Merge(Target(d), changes)]
       /\ serverSeq' = serverSeq + 1
       /\ sent' = Broadcast(Recipients(clients) \ {c},
                            [type |-> "delta", serverSeq |-> serverSeq',
                             sourceClientId |-> connId[c], deck |-> d,
                             changes |-> changes])
       /\ UNCHANGED <<connId, clients, controllerId, closed, gone>>

(* Always answered, even to a connection that is no longer a member. *)
HandleRequestSnapshot(c) ==
    /\ sent' = Reply(c, <<SnapshotMessage>>)
    /\ UNCHANGED roomState

(* Dispatch.  server.js hands over no message of a connection it has        *)
(* ejected, nor a first message after the socket's close event; room.js     *)
(* does guard against a late message of a retired client, so that may come. *)
HandleMessage(c, msg) ==
    /\ c \notin closed
    /\ \/ connId[c] = NoId /\ c \notin gone /\ HandleHello(c, msg)
       \/ /\ connId[c] # NoId
          /\ \/ msg.type \in {"junk", "hello"} /\ Refuse(c, "bad-message")
             \/ msg.type = "claimControl" /\ HandleClaimControl(c)
             \/ msg.type = "releaseControl" /\ HandleReleaseControl(c)
             \/ msg.type = "delta" /\ HandleDelta(c, msg.deck, msg.changes)
             \/ msg.type = "requestSnapshot" /\ HandleRequestSnapshot(c)

-----------------------------------------------------------------------------
(* handleDisconnect.                                                       *)

(* MUTANT: control stays with the id of the departed controller. *)
ControlKeptBy(id) == controllerId

(* Control is freed when its holder leaves, and passes to nobody. *)
ControlAfter(id) == IF controllerId = id THEN NoId ELSE controllerId

(* MUTANT: the id alone decides, so that a late second call evicts whoever  *)
(* has drawn the id since.                                                  *)
EvictableById(c) == connId[c] # NoId /\ clients[connId[c]] # NoConn

Evictable(c) == connId[c] # NoId /\ clients[connId[c]] = c

(* The socket's close event; a second call finds no entry and returns. *)
HandleDisconnect(c) ==
    /\ gone' = gone \cup {c}
    /\ \/ /\ ~Evictable(c)
          /\ sent' = Silence
          /\ UNCHANGED <<clients, controllerId>>
       \/ /\ Evictable(c)
          /\ LET id == connId[c]
                 left == [clients EXCEPT ![id] = NoConn]
             IN  /\ clients' = left
                 /\ sent' = Broadcast(Recipients(left),
                                      [type |-> "peerLeft", clientId |-> id])
                 /\ controllerId' = ControlAfter(id)
    /\ UNCHANGED <<connId, decks, serverSeq, closed>>

Next ==
    \E c \in Conn :
        \/ \E msg \in ClientMessage : HandleMessage(c, msg)
        \/ HandleDisconnect(c)

Spec == Init /\ [][Next]_vars

-----------------------------------------------------------------------------
(* Correctness.                                                            *)

(* Every variable has its type; frames are well formed. *)
TypeOK ==
    /\ connId \in [Conn -> ClientId \cup {NoId}]
    /\ clients \in [ClientId -> Conn \cup {NoConn}]
    /\ decks \in Decks
    /\ serverSeq \in 0 .. MaxSeq
    /\ controllerId \in ClientId \cup {NoId}
    /\ sent \in [Conn -> Seq(ServerMessage)]
    /\ closed \subseteq Conn
    /\ gone \subseteq Conn

(* The registry holds exactly the connections that said hello and have not *)
(* gone, each under its own id: an id drawn again after its holder left is *)
(* the new connection's, and a repeated or late handleDisconnect of the    *)
(* old one does not evict it.                                              *)
MembershipExact ==
    /\ \A c \in Conn : IsMember(c) <=> connId[c] # NoId /\ c \notin gone
    /\ \A id \in Registered(clients) : connId[clients[id]] = id

(* Control is held by a member or by nobody: it is freed with its holder's *)
(* departure, however the departure is noticed.                            *)
ControllerIsMember == controllerId # NoId => controllerId \in Registered(clients)

(* The connection in control. *)
Holder == IF controllerId = NoId THEN NoConn ELSE clients[controllerId]

(* A connection comes into control only out of "nobody has it" and only    *)
(* when it was a member already: control is never taken over, and no       *)
(* newcomer inherits it by drawing the id of a departed controller.        *)
ControlNeverInherited ==
    [][Holder' # Holder /\ Holder' # NoConn
         => Holder = NoConn /\ Holder' \in Recipients(clients)]_vars

(* A write tells every member but the connection in control, and nobody    *)
(* else: it is that connection's own, not one of a retired connection      *)
(* whose id the controller has drawn since.                                *)
WriteToldToOthers ==
    [][serverSeq' # serverSeq
         => {c \in Conn : sent'[c] # <<>>} = Recipients(clients) \ {Holder}]_vars

(* The room is a control token over its members, seen through the registry. *)
Token == INSTANCE ControlToken WITH
    Member <- ClientId, Nobody <- NoId, Capacity <- MaxClients, Canon <- Decks,
    members <- Registered(clients), holder <- controllerId,
    canon <- decks, version <- serverSeq

(* Every step is a join below the capacity, a departure that frees         *)
(* control, a claim of free control, a release by its holder, a write by   *)
(* its holder that advances the version by one, or none of these.          *)
TokenSpec == Token!Spec
=============================================================================
