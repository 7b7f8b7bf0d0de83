------------------------------- MODULE Client -------------------------------
(***************************************************************************)
(* One DJ client, as the functions its handlers compute: the session state *)
(* of MainComponent, the deck states of StateManager, the coalescing       *)
(* buffer of SyncPublisher and the sequence check of WebSocketTransport.   *)
(* The message thread runs them one at a time.                             *)
(*                                                                         *)
(* The frames of a connection are checked on the network thread and        *)
(* handled on the message thread, in the same order; the model fuses the   *)
(* two.  Engines, playback positions and widgets are left out: a deck is   *)
(* the fields that StateManager stores.                                    *)
(***************************************************************************)
EXTENDS Protocol

ASSUME FiniteDecks == IsFiniteSet(Deck)

NoSeq == -1   \* lastSeenServerSeq_ before the welcome

ClientState ==
    [connected : BOOLEAN,               \* connected_
     role      : Role,                  \* role_
     ownId     : ClientId \cup {NoId},  \* ownClientId_
     peers     : SUBSET Peer,           \* peers_
     lastSeen  : Nat \cup {NoSeq},      \* lastSeenServerSeq_
     local     : [Deck -> DeckState],   \* StateManager::states_
     pending   : [Deck -> Changes]]     \* SyncPublisher::pending_; empty: none

StartedClient ==
    [connected |-> FALSE, role |-> "observer", ownId |-> NoId, peers |-> {},
     lastSeen  |-> NoSeq,
     local     |-> [d \in Deck |-> DefaultDeck],
     pending   |-> [d \in Deck |-> NoChanges]]

-----------------------------------------------------------------------------
(* What the user may do.                                                   *)

AnyPeerControls(s) == \E p \in s.peers : p.role = "controller"

(* MUTANT: control is looked for only in the client's own role. *)
UngatedByPeers(s) == TRUE

(* Solo play is always allowed; in a room the controller, or anybody while *)
(* nobody is known to control.                                             *)
CanControlLocally(s) ==
    ~s.connected \/ s.role = "controller" \/ ~AnyPeerControls(s)

(* StateManager::applyDelta. *)
ApplyDelta(s, d, changes) == [s EXCEPT !.local[d] = Merge(@, changes)]

(* SyncPublisher forwards only the controller's own changes. *)
Forwards(s) == s.connected /\ s.role = "controller"

(* handleLocalDelta merges into what already waits for this deck. *)
Coalesce(waiting, changes) == Merge(waiting, changes)

(* A local change: stored, and kept for sending if it is to be forwarded.  *)
LocalChange(s, d, changes) ==
    LET changed == ApplyDelta(s, d, changes)
    IN  IF Forwards(s)
        THEN [changed EXCEPT !.pending[d] = Coalesce(@, changes)]
        ELSE changed

DeltaFrame(d, changes) == [type |-> "delta", deck |-> d, changes |-> changes]

(* Sending what waits for a deck empties its slot. *)
Flushed(s, d) == [s EXCEPT !.pending[d] = NoChanges]

-----------------------------------------------------------------------------
(* What the server's frames do.                                            *)

(* applySnapshot: only the decks that the message carries. *)
ApplySnapshot(s, decks) ==
    [s EXCEPT !.local =
        [d \in Deck |-> IF decks[d] = NoDeck THEN s.local[d] ELSE decks[d]]]

(* addOrUpdatePeer. *)
PutPeer(peers, peer) == {p \in peers : p.clientId # peer.clientId} \cup {peer}

DropPeer(peers, id) == {p \in peers : p.clientId # id}

HandleWelcome(s, msg) ==
    [ApplySnapshot(s, msg.decks) EXCEPT
        !.connected = TRUE, !.role = msg.role, !.ownId = msg.clientId,
        !.lastSeen = msg.serverSeq, !.peers = msg.peers]

(* MUTANT: the client's own role change is taken for a peer's. *)
OwnRoleMissed(s, msg) ==
    [s EXCEPT !.peers =
        {IF p.clientId = msg.clientId THEN [p EXCEPT !.role = msg.role] ELSE p :
            p \in s.peers}]

(* A role change of this client, or of a peer it knows. *)
HandleRoleChanged(s, msg) ==
    IF msg.clientId = s.ownId
    THEN [s EXCEPT !.role = msg.role]
    ELSE [s EXCEPT !.peers =
            {IF p.clientId = msg.clientId THEN [p EXCEPT !.role = msg.role] ELSE p :
                p \in s.peers}]

(* The client's state after a frame. *)
AfterFrame(s, msg) ==
    CASE msg.type = "welcome"     -> HandleWelcome(s, msg)
      [] msg.type = "snapshot"    -> [ApplySnapshot(s, msg.decks) EXCEPT
                                        !.lastSeen = msg.serverSeq]
      [] msg.type = "delta"       -> [ApplyDelta(s, msg.deck, msg.changes) EXCEPT
                                        !.lastSeen = msg.serverSeq]
      [] msg.type = "roleChanged" -> HandleRoleChanged(s, msg)
      [] msg.type = "peerJoined"  ->
            [s EXCEPT !.peers = PutPeer(@, [clientId |-> msg.clientId, role |-> msg.role])]
      [] msg.type = "peerLeft"    -> [s EXCEPT !.peers = DropPeer(@, msg.clientId)]
      [] msg.type = "error"       -> s

BecomesController(s, msg) ==
    /\ msg.type = "roleChanged" /\ msg.clientId = s.ownId
    /\ msg.role = "controller" /\ s.role # "controller"

(* MUTANT: a delta must have the very next number. *)
GapFound(s, msg) == msg.type = "delta" /\ msg.serverSeq # s.lastSeen + 1

(* A delta before any welcome, or not newer than the last frame seen. *)
OutOfSequence(s, msg) ==
    /\ msg.type = "delta"
    /\ s.lastSeen = NoSeq \/ ~(msg.serverSeq > s.lastSeen)

(* deck A, then deck B *)
DeckOrder ==
    CHOOSE order \in [1 .. Cardinality(Deck) -> Deck] :
        \A d \in Deck : \E i \in DOMAIN order : order[i] = d

(* MUTANT: the new controller says nothing until its first change. *)
NoResync(s) == <<>>

(* pushFullResync: every field of both decks, past the publisher. *)
FullResync(s) ==
    [i \in DOMAIN DeckOrder |-> DeltaFrame(DeckOrder[i], s.local[DeckOrder[i]])]

(* The frames that handling a frame sends. *)
Answer(s, msg) ==
    IF BecomesController(s, msg) THEN FullResync(s)
    ELSE IF OutOfSequence(s, msg) THEN <<[type |-> "requestSnapshot"]>>
    ELSE <<>>

(* handleConnectionChange(false): the decks stay as they are. *)
AfterConnectionLost(s) ==
    [s EXCEPT !.connected = FALSE, !.role = "observer", !.ownId = NoId, !.peers = {}]
=============================================================================
