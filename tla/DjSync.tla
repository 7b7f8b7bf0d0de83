------------------------------- MODULE DjSync -------------------------------
(***************************************************************************)
(* The whole system: the room, the clients, and between them one ordered   *)
(* channel in each direction for every connection a client opens.          *)
(*                                                                         *)
(* A client that loses its connection may open another at once, while the  *)
(* server still holds the old one (until its heartbeat or a close event),  *)
(* and frames sent before the loss may still reach the room, or not.       *)
(***************************************************************************)
EXTENDS Room, Client

CONSTANTS
    App,        \* client programs
    MaxUplink,   \* bounds of the model: the user of a client acts while
    MaxDownlink  \* fewer frames than MaxUplink are under way to the server;
                 \* the server acts while at most MaxDownlink are to a client

(* The peer list of MainComponent holds kMaxPeers entries; the model leaves *)
(* the cap out, which is exact while the room is no larger than that.       *)
kMaxPeers == 8

ASSUME DjSyncAssumption ==
    /\ MaxClients <= kMaxPeers
    /\ MaxUplink \in Nat /\ MaxDownlink \in Nat

VARIABLES
    client,     \* the state of each client
    link,       \* its current connection, or NoConn
    fresh,      \* connections nobody has opened yet
    lost,       \* connections whose client end is gone
    toServer, toClient

syncVars == <<client, link, fresh, lost, toServer, toClient>>

allVars == <<vars, syncVars>>

SyncInit ==
    /\ Init
    /\ client = [a \in App |-> StartedClient]
    /\ link = [a \in App |-> NoConn]
    /\ fresh = Conn
    /\ lost = {}
    /\ toServer = [c \in Conn |-> <<>>]
    /\ toClient = [c \in Conn |-> <<>>]

(* A step of a client: the room does nothing. *)
RoomIdle == sent' = Silence /\ UNCHANGED roomState

-----------------------------------------------------------------------------
(* The server's side of the channels.                                      *)

(* What the room hands to conn.send arrives, unless nobody reads. *)
Transmit ==
    /\ toClient' = [c \in Conn |-> IF c \in lost THEN <<>> ELSE toClient[c] \o sent'[c]]
    /\ \A c \in Conn : Len(toClient'[c]) <= MaxDownlink           \* model bound

ServerReceives(c) ==
    /\ c \notin gone
    /\ toServer[c] # <<>>
    /\ HandleMessage(c, Head(toServer[c]))
    /\ toServer' = [toServer EXCEPT ![c] = IF c \in closed' THEN <<>> ELSE Tail(@)]
    /\ Transmit
    /\ UNCHANGED <<client, link, fresh, lost>>

(* The close event of a connection its client has left, or that the room   *)
(* has closed; what it still had under way is never read.                  *)
ServerLoses(c) ==
    /\ c \in (lost \cup closed) \ gone
    /\ HandleDisconnect(c)
    /\ toServer' = [toServer EXCEPT ![c] = <<>>]
    /\ Transmit
    /\ UNCHANGED <<client, link, fresh, lost>>

-----------------------------------------------------------------------------
(* The client's side.                                                      *)

(* sendMessage: nothing is sent without a socket, and nothing is read on   *)
(* one that the server has closed.                                         *)
Send(a, frames) ==
    toServer' = IF link[a] = NoConn \/ link[a] \in closed THEN toServer
                ELSE [toServer EXCEPT ![link[a]] = @ \o frames]

QuietUplink(a) == link[a] # NoConn => Len(toServer[link[a]]) < MaxUplink

(* The connect button, then the hello from the Open callback. *)
Connect(a) ==
    /\ link[a] = NoConn
    /\ \E c \in fresh :
        /\ link' = [link EXCEPT ![a] = c]
        /\ fresh' = fresh \ {c}
        /\ toServer' = [toServer EXCEPT ![c] = <<[type |-> "hello", valid |-> TRUE]>>]
    /\ client' = [client EXCEPT ![a].lastSeen = NoSeq]
    /\ RoomIdle
    /\ UNCHANGED <<lost, toClient>>

(* The disconnect button, the server's close, or a network failure. *)
LoseLink(a) ==
    /\ link[a] # NoConn
    /\ lost' = lost \cup {link[a]}
    /\ link' = [link EXCEPT ![a] = NoConn]
    /\ client' = [client EXCEPT ![a] = AfterConnectionLost(@)]
    /\ toClient' = [toClient EXCEPT ![link[a]] = <<>>]
    /\ RoomIdle
    /\ UNCHANGED <<fresh, toServer>>

Deliver(a) ==
    LET c == link[a] IN
    /\ c # NoConn
    /\ toClient[c] # <<>>
    /\ client' = [client EXCEPT ![a] = AfterFrame(@, Head(toClient[c]))]
    /\ Send(a, Answer(client[a], Head(toClient[c])))
    /\ toClient' = [toClient EXCEPT ![c] = Tail(@)]
    /\ RoomIdle
    /\ UNCHANGED <<link, fresh, lost>>

(* A control on a deck is used.  A forwarded change is sent at once or     *)
(* waits for the deck's throttle window to open.                           *)
UserChange(a, d, changes) ==
    LET changed == LocalChange(client[a], d, changes) IN
    /\ CanControlLocally(client[a])
    /\ QuietUplink(a)
    /\ \/ /\ client' = [client EXCEPT ![a] = changed]
          /\ UNCHANGED toServer
       \/ /\ Forwards(client[a])
          /\ client' = [client EXCEPT ![a] = Flushed(changed, d)]
          /\ Send(a, <<DeltaFrame(d, changed.pending[d])>>)
    /\ RoomIdle
    /\ UNCHANGED <<link, fresh, lost, toClient>>

(* timerCallback, which looks neither at the role nor at the connection. *)
Flush(a, d) ==
    /\ ValidDelta(client[a].pending[d])
    /\ client' = [client EXCEPT ![a] = Flushed(@, d)]
    /\ Send(a, <<DeltaFrame(d, client[a].pending[d])>>)
    /\ RoomIdle
    /\ UNCHANGED <<link, fresh, lost, toClient>>

(* The claim button.  A change waits at most one throttle window (33 ms),  *)
(* far less than a user needs to move from a deck to this button.          *)
ClickClaim(a) ==
    /\ client[a].connected /\ client[a].role # "controller"
    /\ \A d \in Deck : ~ValidDelta(client[a].pending[d])
    /\ QuietUplink(a)
    /\ Send(a, <<[type |-> "claimControl"]>>)
    /\ RoomIdle
    /\ UNCHANGED <<client, link, fresh, lost, toClient>>

ClickRelease(a) ==
    /\ client[a].connected /\ client[a].role = "controller"
    /\ QuietUplink(a)
    /\ Send(a, <<[type |-> "releaseControl"]>>)
    /\ RoomIdle
    /\ UNCHANGED <<client, link, fresh, lost, toClient>>

ClientNext(a) ==
    \/ Connect(a) \/ LoseLink(a) \/ Deliver(a) \/ ClickClaim(a) \/ ClickRelease(a)
    \/ \E d \in Deck : \/ Flush(a, d)
                       \/ \E ch \in Changes \ {NoChanges} : UserChange(a, d, ch)

SyncNext ==
    \/ \E c \in Conn : ServerReceives(c) \/ ServerLoses(c)
    \/ \E a \in App : ClientNext(a)

SyncSpec == SyncInit /\ [][SyncNext]_allVars

-----------------------------------------------------------------------------
(* Correctness.                                                            *)

(* The clients and the channels have their types, and every frame under    *)
(* way is one its receiver knows.                                          *)
SyncTypeOK ==
    /\ TypeOK
    /\ client \in [App -> ClientState]
    /\ link \in [App -> Conn \cup {NoConn}]
    /\ fresh \subseteq Conn /\ lost \subseteq Conn
    /\ toServer \in [Conn -> Seq(ClientMessage)]
    /\ toClient \in [Conn -> Seq(ServerMessage)]

(* The client is a member of the room, by the connection it uses now. *)
Online(a) == link[a] # NoConn /\ IsMember(link[a])

(* A client after the frames of a channel, handled one by one. *)
Replay(s, frames) ==
    LET after[i \in 0 .. Len(frames)] ==
            IF i = 0 THEN s ELSE AfterFrame(after[i - 1], frames[i])
    IN  after[Len(frames)]

(* What the client will be once it has handled all that is under way to it. *)
CaughtUp(a) == Replay(client[a], toClient[link[a]])

(* Whatever joins, departures and role changes cross on the wire, a client *)
(* that has handled what is under way to it knows its own id and role, and *)
(* exactly the other members with theirs.  A ghost of its own earlier      *)
(* connection counts as another member until the server drops it.          *)
RosterConverges ==
    \A a \in App : Online(a) =>
        LET s == CaughtUp(a) IN
        /\ s.connected
        /\ s.ownId = connId[link[a]]
        /\ s.role = RoleOf(s.ownId)
        /\ s.peers = PeersOf(s.ownId)

(* Hence the deck controls: caught up, they are open to the controller     *)
(* alone, or to everybody while nobody has control.                        *)
ControlsOpenToHolder ==
    \A a \in App : Online(a) =>
        (CanControlLocally(CaughtUp(a)) <=> controllerId \in {NoId, connId[link[a]]})

(* Nothing is under way, waits to be sent, or has yet to be noticed. *)
Settled ==
    /\ \A c \in Conn : toServer[c] = <<>> /\ toClient[c] = <<>>
    /\ lost \subseteq gone
    /\ \A a \in App : Online(a) => \A d \in Deck : ~ValidDelta(client[a].pending[d])

(* With a controller and nothing under way, every member plays what the    *)
(* room holds, whatever each played on its own before, and whatever edits  *)
(* were refused, coalesced, or overtaken by a change of control.           *)
DecksConverge ==
    Settled /\ controllerId # NoId =>
        \A a \in App : Online(a) => client[a].local = decks

(* The defensive resync is never needed: channels keep their order, and a  *)
(* controller that did not hear its own deltas still sees numbers rise.    *)
NoResyncNeeded ==
    \A c \in Conn : \A i \in DOMAIN toServer[c] :
        toServer[c][i].type # "requestSnapshot"

(* docs/plan/02-protocol.md:51: a snapshot is the "full canonical state;   *)
(* recipient replaces local state wholesale", and by line 87 a deck that   *)
(* it leaves out is at its defaults.                                       *)
SnapshotReplacesLocalState ==
    [][\A a \in App :
        LET c == link[a]
            msg == Head(toClient[c])
        IN  /\ c # NoConn /\ link'[a] = c
            /\ toClient[c] # <<>> /\ toClient'[c] = Tail(toClient[c])
            /\ msg.type \in {"welcome", "snapshot"}
            => \A d \in Deck : client'[a].local[d] =
                   IF msg.decks[d] = NoDeck THEN DefaultDeck ELSE msg.decks[d]]_allVars
=============================================================================
