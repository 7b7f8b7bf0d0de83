---------------------------- MODULE DjSyncProofs ----------------------------
(***************************************************************************)
(* Proofs about DjSync, for any number of clients, connections, ids, decks *)
(* and values, and any bounds on the channels.                             *)
(*                                                                         *)
(* What a client checks of the numbers it receives follows from what the   *)
(* room sends and from the order of the channels: the numbers on the way   *)
(* to a client are past what it has seen, a delta's is past all before it, *)
(* and the first frame a registered connection carries is its welcome.     *)
(*                                                                         *)
(* That clients agree is said of the client as it will be once it has      *)
(* handled what is under way to it (Replay): its roster and role; then the *)
(* standing of control at both ends of a connection; then, with closed     *)
(* controls at all other ends, the decks of the one in control.            *)
(***************************************************************************)
EXTENDS DjSync, RoomProofs, Recursion

Numbered(frame) == frame.type \in {"welcome", "snapshot", "delta"}

-----------------------------------------------------------------------------
(* Edits that wait.                                                        *)

(* Sending two changes of a deck as one merged change, as the publisher    *)
(* does within a throttle window, brings every deck to the same state.     *)
THEOREM CoalescingLosesNothing ==
    ASSUME NEW old \in DeckState, NEW first \in Changes, NEW second \in Changes
    PROVE  Merge(old, Coalesce(first, second)) = Merge(Merge(old, first), second)
<1>1. PICK S \in SUBSET Field : first \in [S -> Value]
  BY DEF Changes
<1>2. PICK T \in SUBSET Field : second \in [T -> Value]
  BY DEF Changes
<1>3. /\ DOMAIN old = Field /\ DOMAIN first = S /\ DOMAIN second = T
      /\ S \subseteq Field /\ T \subseteq Field
  BY <1>1, <1>2 DEF DeckState
<1> DEFINE once  == Merge(old, Coalesce(first, second))
           twice == Merge(Merge(old, first), second)
           both  == [f \in S \cup T |-> IF f \in T THEN second[f] ELSE first[f]]
           one   == [f \in Field |-> IF f \in S THEN first[f] ELSE old[f]]
<1>4. Coalesce(first, second) = both
  BY <1>3 DEF Coalesce, Merge
<1>5. once = [f \in Field |-> IF f \in S \cup T THEN both[f] ELSE old[f]]
  BY <1>3, <1>4 DEF Merge
<1>6. Merge(old, first) = one
  BY <1>3 DEF Merge
<1>7. twice = [f \in Field |-> IF f \in T THEN second[f] ELSE one[f]]
  BY <1>3, <1>6 DEF Merge
<1> HIDE DEF once, twice
<1> QED
  BY <1>5, <1>7 DEF once, twice

(* Merged changes are changes. *)
LEMMA CoalesceTyped ==
    ASSUME NEW first \in Changes, NEW second \in Changes
    PROVE  Merge(first, second) \in Changes
<1>1. PICK S \in SUBSET Field : first \in [S -> Value]
  BY DEF Changes
<1>2. PICK T \in SUBSET Field : second \in [T -> Value]
  BY DEF Changes
<1>3. Merge(first, second) \in [S \cup T -> Value]
  BY <1>1, <1>2 DEF Merge
<1>4. S \cup T \in SUBSET Field
  OBVIOUS
<1> QED
  BY <1>3, <1>4 DEF Changes

-----------------------------------------------------------------------------
(* The full resync.                                                        *)

LEMMA DeckOrderCovers ==
    /\ Cardinality(Deck) \in Nat
    /\ DeckOrder \in [1 .. Cardinality(Deck) -> Deck]
    /\ \A d \in Deck : \E i \in DOMAIN DeckOrder : DeckOrder[i] = d
<1>1. /\ Cardinality(Deck) \in Nat
      /\ ExistsBijection(1 .. Cardinality(Deck), Deck)
  BY FiniteDecks, FS_CardinalityType
<1>2. PICK listing \in [1 .. Cardinality(Deck) -> Deck] :
        \A d \in Deck : \E i \in 1 .. Cardinality(Deck) : listing[i] = d
  BY <1>1 DEF ExistsBijection, Bijection, Surjection, Injection
<1>3. \E order \in [1 .. Cardinality(Deck) -> Deck] :
        \A d \in Deck : \E i \in DOMAIN order : order[i] = d
  BY <1>2
<1> QED
  BY <1>1, <1>3 DEF DeckOrder

(* A new controller announces every field of every deck, and a room that   *)
(* takes the announcement holds that deck as the controller has it,        *)
(* whatever it held before.                                                *)
THEOREM ResyncCoversEveryDeck ==
    ASSUME NEW s \in ClientState, NEW d \in Deck, NEW held \in DeckState
    PROVE  /\ \E i \in DOMAIN FullResync(s) : FullResync(s)[i] = DeltaFrame(d, s.local[d])
           /\ Merge(held, s.local[d]) = s.local[d]
<1>1. \E i \in DOMAIN FullResync(s) : FullResync(s)[i] = DeltaFrame(d, s.local[d])
  BY DeckOrderCovers DEF FullResync
<1>2. s.local[d] \in DeckState
  BY DEF ClientState
<1> QED
  BY <1>1, <1>2 DEF Merge, DeckState

-----------------------------------------------------------------------------
(* What one call of the room hands to a connection: a welcome, if that is  *)
(* the call that registers it; otherwise frames that carry the present     *)
(* number, or one delta with the next.                                     *)

Greeted(x) ==
    /\ connId[x] = NoId
    /\ \E frame : /\ frame.type = "welcome" /\ frame.serverSeq = serverSeq
                  /\ sent'[x] = <<frame>>

Informed(x) ==
    /\ connId[x] # NoId
    /\ \A i \in DOMAIN sent'[x] :
          LET frame == sent'[x][i]
          IN  /\ Numbered(frame) =>
                   frame.serverSeq >= serverSeq /\ frame.serverSeq <= serverSeq'
              /\ frame.type = "delta" => i = 1 /\ frame.serverSeq > serverSeq

RoomSpeaks ==
    /\ serverSeq' >= serverSeq
    /\ \A x \in Conn :
          /\ connId'[x] = connId[x] \/ (Greeted(x) /\ connId'[x] # NoId)
          /\ sent'[x] = <<>> \/ Informed(x) \/ (Greeted(x) /\ connId'[x] # NoId)

(* Whoever is told something is registered. *)
LEMMA RecipientsRegistered ==
    ASSUME IInv, NEW x \in Conn, x \in Recipients(clients)
    PROVE  connId[x] # NoId
  BY ProtocolAssumption DEF IInv, MembershipExact, Recipients, Registered

(* One frame without a number, to some of those that are registered. *)
LEMMA NewsSpeaks ==
    ASSUME IInv, NEW msg, ~Numbered(msg),
           NEW told \in SUBSET Recipients(clients), sent' = Broadcast(told, msg),
           UNCHANGED <<connId, serverSeq>>
    PROVE  RoomSpeaks
<1>1. serverSeq \in Nat
  BY RoomAssumption DEF IInv, TypeOK
<1>2. ASSUME NEW x \in Conn
      PROVE  sent'[x] = <<>> \/ Informed(x)
  <2>1. CASE x \in told
    <3>1. sent'[x] = <<msg>> /\ connId[x] # NoId
      BY <2>1, RecipientsRegistered DEF Broadcast
    <3> QED
      BY <3>1 DEF Informed, Numbered
  <2>2. CASE x \notin told
    BY <2>2 DEF Broadcast
  <2> QED
    BY <2>1, <2>2
<1> QED
  BY <1>1, <1>2 DEF RoomSpeaks

(* Frames to a registered connection that carry no new number. *)
LEMMA ReplySpeaks ==
    ASSUME IInv, NEW c \in Conn, connId[c] # NoId, NEW msgs, sent' = Reply(c, msgs),
           \A i \in DOMAIN msgs : /\ msgs[i].type # "delta"
                                  /\ Numbered(msgs[i]) => msgs[i].serverSeq = serverSeq,
           UNCHANGED roomState
    PROVE  RoomSpeaks
<1>1. serverSeq \in Nat
  BY RoomAssumption DEF IInv, TypeOK
<1>2. Informed(c)
  <2>1. sent'[c] = msgs
    BY DEF Reply
  <2> QED
    BY <1>1, <2>1 DEF Informed, roomState
<1>3. \A x \in Conn : x # c => sent'[x] = <<>>
  BY DEF Reply
<1> QED
  BY <1>1, <1>2, <1>3 DEF RoomSpeaks, roomState

LEMMA RefusalSpeaks ==
    ASSUME IInv, NEW c \in Conn, connId[c] # NoId, NEW code, Refuse(c, code)
    PROVE  RoomSpeaks
<1> DEFINE msgs == <<ErrorMessage(code)>>
<1>1. \A i \in DOMAIN msgs : msgs[i].type = "error"
  BY DEF ErrorMessage
<1>2. sent' = Reply(c, msgs) /\ UNCHANGED roomState
  BY DEF Refuse
<1> HIDE DEF msgs
<1> QED
  BY <1>1, <1>2, ReplySpeaks DEF Numbered

LEMMA SilenceSpeaks ==
    ASSUME IInv, sent' = Silence, UNCHANGED <<connId, serverSeq>>
    PROVE  RoomSpeaks
  BY RoomAssumption DEF RoomSpeaks, Silence, IInv, TypeOK

LEMMA RegisterSpeaks ==
    ASSUME IInv, NEW c \in Conn, connId[c] = NoId, NEW id \in ClientId, Register(c, id)
    PROVE  RoomSpeaks
<1> DEFINE others == Recipients(clients)
           joined == [type |-> "peerJoined", clientId |-> id, role |-> RoleOf(id)]
<1>1. /\ connId' = [connId EXCEPT ![c] = id] /\ serverSeq' = serverSeq
      /\ sent' = [x \in Conn |-> IF x = c THEN <<Welcome(id)>>
                                 ELSE IF x \in others THEN <<joined>>
                                 ELSE <<>>]
  BY DEF Register
<1>2. serverSeq \in Nat /\ id # NoId /\ connId \in [Conn -> ClientId \cup {NoId}]
  BY RoomAssumption, ProtocolAssumption DEF IInv, TypeOK
<1>3. Greeted(c) /\ connId'[c] # NoId
  BY <1>1, <1>2 DEF Greeted, Welcome
<1>4. ASSUME NEW x \in Conn, x # c
      PROVE  connId'[x] = connId[x] /\ (sent'[x] = <<>> \/ Informed(x))
  <2>1. connId'[x] = connId[x]
    BY <1>1, <1>2, <1>4
  <2>2. CASE x \in others
    <3>1. sent'[x] = <<joined>> /\ connId[x] # NoId
      BY <1>1, <1>4, <2>2, RecipientsRegistered
    <3> QED
      BY <2>1, <3>1 DEF Informed, Numbered
  <2>3. CASE x \notin others
    BY <1>1, <1>4, <2>1, <2>3
  <2> QED
    BY <2>2, <2>3
<1> QED
  BY <1>1, <1>2, <1>3, <1>4 DEF RoomSpeaks

LEMMA DeltaSpeaks ==
    ASSUME IInv, NEW c \in Conn, connId[c] # NoId, NEW d, NEW changes,
           HandleDelta(c, d, changes)
    PROVE  RoomSpeaks
<1>1. serverSeq \in Nat
  BY RoomAssumption DEF IInv, TypeOK
<1>2. CASE \E code : Refuse(c, code)
  BY <1>2, RefusalSpeaks
<1>3. CASE sent' = Reply(c, <<ErrorMessage("not-controller"), SnapshotMessage>>)
           /\ UNCHANGED roomState
  <2> DEFINE msgs == <<ErrorMessage("not-controller"), SnapshotMessage>>
  <2>1. \A i \in DOMAIN msgs :
            /\ msgs[i].type # "delta"
            /\ Numbered(msgs[i]) => msgs[i].serverSeq = serverSeq
    BY DEF ErrorMessage, SnapshotMessage, Numbered
  <2> HIDE DEF msgs
  <2> QED
    BY <1>3, <2>1, ReplySpeaks DEF msgs
<1>4. CASE /\ serverSeq' = serverSeq + 1
           /\ sent' = Broadcast(Recipients(clients) \ {c},
                                [type |-> "delta", serverSeq |-> serverSeq',
                                 sourceClientId |-> connId[c], deck |-> d,
                                 changes |-> changes])
           /\ UNCHANGED <<connId, clients, controllerId, closed, gone>>
  <2> DEFINE msg == [type |-> "delta", serverSeq |-> serverSeq',
                     sourceClientId |-> connId[c], deck |-> d, changes |-> changes]
  <2>1. msg.type = "delta" /\ msg.serverSeq = serverSeq'
    OBVIOUS
  <2>2. /\ serverSeq' = serverSeq + 1 /\ connId' = connId
        /\ sent' = Broadcast(Recipients(clients) \ {c}, msg)
    BY <1>4
  <2>4. serverSeq' \in Nat /\ serverSeq' > serverSeq /\ serverSeq' >= serverSeq
    BY <1>1, <2>2
  <2> HIDE DEF msg
  <2>3. ASSUME NEW x \in Conn
        PROVE  sent'[x] = <<>> \/ Informed(x)
    <3>1. CASE x \in Recipients(clients) \ {c}
      <4>1. sent'[x] = <<msg>> /\ connId[x] # NoId
        BY <2>2, <3>1, RecipientsRegistered DEF Broadcast
      <4>2. \A i \in DOMAIN sent'[x] : i = 1 /\ sent'[x][i] = msg
        BY <4>1
      <4> QED
        BY <1>1, <2>1, <2>4, <4>1, <4>2 DEF Informed
    <3>2. CASE x \notin Recipients(clients) \ {c}
      BY <2>2, <3>2 DEF Broadcast
    <3> QED
      BY <3>1, <3>2
  <2> QED
    BY <1>1, <2>2, <2>3, <2>4 DEF RoomSpeaks
<1> QED
  BY <1>2, <1>3, <1>4 DEF HandleDelta

LEMMA MessageSpeaks ==
    ASSUME IInv, NEW c \in Conn, NEW msg, HandleMessage(c, msg)
    PROVE  RoomSpeaks
<1>1. CASE connId[c] = NoId /\ HandleHello(c, msg)
  <2>1. CASE CloseHandshake(c)
    BY <2>1, SilenceSpeaks DEF CloseHandshake
  <2>2. CASE \E id \in ClientId : Register(c, id)
    BY <1>1, <2>2, RegisterSpeaks
  <2> QED
    BY <1>1, <2>1, <2>2 DEF HandleHello
<1>2. CASE connId[c] # NoId
  <2>1. CASE \E code : Refuse(c, code)
    BY <1>2, <2>1, RefusalSpeaks
  <2>2. ASSUME HandleClaimControl(c) \/ HandleReleaseControl(c)
        PROVE  RoomSpeaks
    <3>1. ASSUME NEW role,
                 sent' = Broadcast(Recipients(clients),
                                   [type |-> "roleChanged", clientId |-> connId[c],
                                    role |-> role]),
                 UNCHANGED <<connId, clients, decks, serverSeq, closed, gone>>
          PROVE  RoomSpeaks
      BY <3>1, NewsSpeaks DEF Numbered
    <3> QED
      BY <2>1, <2>2, <3>1 DEF HandleClaimControl, HandleReleaseControl
  <2>3. CASE \E d, changes : HandleDelta(c, d, changes)
    BY <1>2, <2>3, DeltaSpeaks
  <2>4. CASE HandleRequestSnapshot(c)
    <3> DEFINE msgs == <<SnapshotMessage>>
    <3>1. \A i \in DOMAIN msgs :
              /\ msgs[i].type # "delta"
              /\ Numbered(msgs[i]) => msgs[i].serverSeq = serverSeq
      BY DEF SnapshotMessage
    <3> HIDE DEF msgs
    <3> QED
      BY <1>2, <2>4, <3>1, ReplySpeaks DEF HandleRequestSnapshot, msgs
  <2> QED
    BY <1>2, <2>1, <2>2, <2>3, <2>4 DEF HandleMessage
<1> QED
  BY <1>1, <1>2 DEF HandleMessage

LEMMA DisconnectSpeaks ==
    ASSUME IInv, NEW c \in Conn, HandleDisconnect(c)
    PROVE  RoomSpeaks
<1>1. CASE sent' = Silence
  BY <1>1, SilenceSpeaks DEF HandleDisconnect
<1>2. CASE Evictable(c)
  <2> DEFINE left == [clients EXCEPT ![connId[c]] = NoConn]
             msg  == [type |-> "peerLeft", clientId |-> connId[c]]
  <2>1. sent' = Broadcast(Recipients(left), msg) /\ UNCHANGED <<connId, serverSeq>>
    BY <1>2 DEF HandleDisconnect
  <2>2. Recipients(left) \subseteq Recipients(clients)
    BY DEF IInv, TypeOK, Recipients, Registered
  <2> HIDE DEF left
  <2> QED
    BY <2>1, <2>2, NewsSpeaks DEF Numbered
<1> QED
  BY <1>1, <1>2 DEF HandleDisconnect

(* A message gives an id to nobody but its sender. *)
LEMMA MessageIds ==
    ASSUME IInv, NEW c \in Conn, NEW msg, HandleMessage(c, msg),
           NEW x \in Conn, x # c
    PROVE  connId'[x] = connId[x]
<1>1. connId \in [Conn -> ClientId \cup {NoId}]
  BY DEF IInv, TypeOK
<1>2. ASSUME NEW id \in ClientId, Register(c, id)
      PROVE  connId'[x] = connId[x]
  BY <1>1, <1>2 DEF Register
<1> QED
  BY <1>2 DEF HandleMessage, HandleHello, CloseHandshake, Refuse, HandleClaimControl,
              HandleReleaseControl, HandleDelta, HandleRequestSnapshot, roomState

-----------------------------------------------------------------------------
(* The client's handlers keep its types.                                   *)

LEMMA MessageFields ==
    ASSUME NEW msg \in ServerMessage
    PROVE  /\ Numbered(msg) => msg.serverSeq \in Nat
           /\ msg.type \in {"welcome", "snapshot"} => msg.decks \in Decks
           /\ msg.type = "welcome" => /\ msg.clientId \in ClientId /\ msg.role \in Role
                                      /\ msg.peers \in SUBSET Peer
           /\ msg.type = "delta" => msg.deck \in Deck /\ msg.changes \in Changes
           /\ msg.type \in {"roleChanged", "peerJoined"} =>
                msg.clientId \in ClientId /\ msg.role \in Role
           /\ msg.type \in {"welcome", "snapshot", "delta", "roleChanged", "peerJoined",
                            "peerLeft", "error"}
  BY DEF ServerMessage, Numbered

LEMMA StartedTyped == StartedClient \in ClientState
<1>1. NoChanges \in Changes
  BY DEF NoChanges, Changes
<1> QED
  BY <1>1, ProtocolAssumption DEF StartedClient, ClientState, NoSeq, Role

LEMMA ApplySnapshotTyped ==
    ASSUME NEW s \in ClientState, NEW received \in Decks
    PROVE  ApplySnapshot(s, received) \in ClientState
<1> DEFINE local == [d \in Deck |-> IF received[d] = NoDeck THEN s.local[d] ELSE received[d]]
<1>1. local \in [Deck -> DeckState]
  BY ProtocolAssumption DEF ClientState, Decks
<1>2. ApplySnapshot(s, received) = [s EXCEPT !.local = local]
  BY DEF ApplySnapshot
<1> HIDE DEF local
<1> QED
  BY <1>1, <1>2 DEF ClientState

LEMMA ApplyDeltaTyped ==
    ASSUME NEW s \in ClientState, NEW d \in Deck, NEW changes \in Changes
    PROVE  /\ ApplyDelta(s, d, changes) \in ClientState
           /\ ApplyDelta(s, d, changes).lastSeen = s.lastSeen
<1>1. Merge(s.local[d], changes) \in DeckState
  BY MergeTyped DEF ClientState
<1>2. [s.local EXCEPT ![d] = Merge(@, changes)] \in [Deck -> DeckState]
  BY <1>1 DEF ClientState
<1>3. ApplyDelta(s, d, changes)
        = [s EXCEPT !.local = [s.local EXCEPT ![d] = Merge(@, changes)]]
  BY DEF ApplyDelta, ClientState
<1> QED
  BY <1>2, <1>3 DEF ClientState

LEMMA LocalChangeTyped ==
    ASSUME NEW s \in ClientState, NEW d \in Deck, NEW changes \in Changes
    PROVE  /\ LocalChange(s, d, changes) \in ClientState
           /\ LocalChange(s, d, changes).lastSeen = s.lastSeen
<1> DEFINE changed == ApplyDelta(s, d, changes)
<1>1. changed \in ClientState /\ changed.lastSeen = s.lastSeen
  BY ApplyDeltaTyped
<1>2. LocalChange(s, d, changes) = IF Forwards(s)
        THEN [changed EXCEPT !.pending[d] = Coalesce(@, changes)] ELSE changed
  BY DEF LocalChange
<1> HIDE DEF changed
<1>3. Coalesce(changed.pending[d], changes) \in Changes
  BY <1>1, CoalesceTyped DEF ClientState, Coalesce
<1> QED
  BY <1>1, <1>2, <1>3 DEF ClientState

LEMMA FlushedTyped ==
    ASSUME NEW s \in ClientState, NEW d \in Deck
    PROVE  /\ Flushed(s, d) \in ClientState
           /\ Flushed(s, d).lastSeen = s.lastSeen
<1>1. NoChanges \in Changes
  BY DEF NoChanges, Changes
<1> QED
  BY <1>1 DEF Flushed, ClientState

LEMMA LostTyped ==
    ASSUME NEW s \in ClientState
    PROVE  AfterConnectionLost(s) \in ClientState
  BY DEF AfterConnectionLost, ClientState, Role

LEMMA AfterFrameTyped ==
    ASSUME NEW s \in ClientState, NEW msg \in ServerMessage
    PROVE  /\ AfterFrame(s, msg) \in ClientState
           /\ AfterFrame(s, msg).lastSeen =
                IF Numbered(msg) THEN msg.serverSeq ELSE s.lastSeen
<1>1. CASE msg.type = "welcome"
  <2> DEFINE applied == ApplySnapshot(s, msg.decks)
  <2>1. applied \in ClientState
    BY <1>1, MessageFields, ApplySnapshotTyped
  <2>2. AfterFrame(s, msg) =
          [applied EXCEPT !.connected = TRUE, !.role = msg.role, !.ownId = msg.clientId,
                          !.lastSeen = msg.serverSeq, !.peers = msg.peers]
    BY <1>1 DEF AfterFrame, HandleWelcome
  <2> HIDE DEF applied
  <2> QED
    BY <1>1, <2>1, <2>2, MessageFields DEF ClientState, Numbered
<1>2. CASE msg.type = "snapshot"
  <2> DEFINE applied == ApplySnapshot(s, msg.decks)
  <2>1. applied \in ClientState
    BY <1>2, MessageFields, ApplySnapshotTyped
  <2>2. AfterFrame(s, msg) = [applied EXCEPT !.lastSeen = msg.serverSeq]
    BY <1>2 DEF AfterFrame
  <2> HIDE DEF applied
  <2> QED
    BY <1>2, <2>1, <2>2, MessageFields DEF ClientState, Numbered
<1>3. CASE msg.type = "delta"
  <2> DEFINE applied == ApplyDelta(s, msg.deck, msg.changes)
  <2>1. applied \in ClientState
    BY <1>3, MessageFields, ApplyDeltaTyped
  <2>2. AfterFrame(s, msg) = [applied EXCEPT !.lastSeen = msg.serverSeq]
    BY <1>3 DEF AfterFrame
  <2> HIDE DEF applied
  <2> QED
    BY <1>3, <2>1, <2>2, MessageFields DEF ClientState, Numbered
<1>4. CASE msg.type = "roleChanged"
  <2> DEFINE renamed == {IF p.clientId = msg.clientId THEN [p EXCEPT !.role = msg.role] ELSE p :
                           p \in s.peers}
  <2>1. msg.role \in Role /\ s.peers \subseteq Peer
    BY <1>4, MessageFields DEF ClientState
  <2>2. renamed \in SUBSET Peer
    BY <2>1 DEF Peer
  <2>3. AfterFrame(s, msg) = IF msg.clientId = s.ownId THEN [s EXCEPT !.role = msg.role]
                             ELSE [s EXCEPT !.peers = renamed]
    BY <1>4 DEF AfterFrame, HandleRoleChanged
  <2> HIDE DEF renamed
  <2> QED
    BY <1>4, <2>1, <2>2, <2>3 DEF ClientState, Numbered
<1>5. CASE msg.type = "peerJoined"
  <2>1. PutPeer(s.peers, [clientId |-> msg.clientId, role |-> msg.role]) \in SUBSET Peer
    BY <1>5, MessageFields DEF PutPeer, Peer, ClientState
  <2>2. AfterFrame(s, msg) =
          [s EXCEPT !.peers = PutPeer(@, [clientId |-> msg.clientId, role |-> msg.role])]
    BY <1>5 DEF AfterFrame
  <2> QED
    BY <1>5, <2>1, <2>2 DEF ClientState, Numbered
<1>6. CASE msg.type = "peerLeft"
  <2>1. DropPeer(s.peers, msg.clientId) \in SUBSET Peer
    BY DEF DropPeer, ClientState
  <2>2. AfterFrame(s, msg) = [s EXCEPT !.peers = DropPeer(@, msg.clientId)]
    BY <1>6 DEF AfterFrame
  <2> QED
    BY <1>6, <2>1, <2>2 DEF ClientState, Numbered
<1>7. CASE msg.type = "error"
  BY <1>7 DEF AfterFrame, Numbered
<1> QED
  BY <1>1, <1>2, <1>3, <1>4, <1>5, <1>6, <1>7, MessageFields

(* In sequence, a client answers with deltas or not at all. *)
LEMMA AnswerTyped ==
    ASSUME NEW s \in ClientState, NEW msg, ~OutOfSequence(s, msg)
    PROVE  /\ Answer(s, msg) \in Seq(ClientMessage)
           /\ \A i \in DOMAIN Answer(s, msg) : Answer(s, msg)[i].type = "delta"
<1> DEFINE n == Cardinality(Deck)
<1>1. n \in Nat /\ DeckOrder \in [1 .. n -> Deck]
  BY DeckOrderCovers
<1> HIDE DEF n
<1>2. \A d \in Deck : s.local[d] \in Changes
  BY DEF ClientState, DeckState, Changes
<1>3. \A d \in Deck : /\ DeltaFrame(d, s.local[d]) \in ClientMessage
                      /\ DeltaFrame(d, s.local[d]).type = "delta"
  BY <1>2 DEF DeltaFrame, ClientMessage
<1>4. FullResync(s) = [i \in 1 .. n |-> DeltaFrame(DeckOrder[i], s.local[DeckOrder[i]])]
  BY <1>1 DEF FullResync
<1>5. /\ FullResync(s) \in Seq(ClientMessage)
      /\ \A i \in DOMAIN FullResync(s) : FullResync(s)[i].type = "delta"
  BY <1>1, <1>3, <1>4
<1>6. CASE Answer(s, msg) = FullResync(s)
  BY <1>5, <1>6
<1>7. CASE Answer(s, msg) = <<>>
  BY <1>7
<1> QED
  BY <1>6, <1>7 DEF Answer

-----------------------------------------------------------------------------
(* The channels.                                                           *)

(* What a client that has seen the number `seen` finds under way, when the *)
(* room is at the number `limit`.                                          *)
Rising(frames, seen, limit) ==
    /\ \A j \in DOMAIN frames : Numbered(frames[j]) => frames[j].serverSeq <= limit
    /\ \A j \in DOMAIN frames : frames[j].type = "delta" =>
          /\ seen # NoSeq => frames[j].serverSeq > seen
          /\ \A i \in 1 .. j - 1 :
                Numbered(frames[i]) => frames[i].serverSeq < frames[j].serverSeq

LEMMA AppendRises ==
    ASSUME NEW frames \in Seq(ServerMessage), NEW new \in Seq(ServerMessage),
           NEW seen \in Nat \cup {NoSeq}, NEW limit \in Nat, NEW limit2 \in Nat,
           limit <= limit2, seen # NoSeq => seen <= limit,
           Rising(frames, seen, limit),
           \A i \in DOMAIN new : /\ Numbered(new[i]) => new[i].serverSeq <= limit2
                                 /\ new[i].type = "delta" => i = 1 /\ new[i].serverSeq > limit
    PROVE  Rising(frames \o new, seen, limit2)
<1> DEFINE all == frames \o new
<1>1. /\ Len(frames) \in Nat /\ Len(new) \in Nat
      /\ DOMAIN frames = 1 .. Len(frames) /\ DOMAIN new = 1 .. Len(new)
      /\ DOMAIN all = 1 .. Len(frames) + Len(new)
      /\ \A j \in 1 .. Len(frames) : all[j] = frames[j]
      /\ \A j \in DOMAIN all : j > Len(frames) =>
            j - Len(frames) \in DOMAIN new /\ all[j] = new[j - Len(frames)]
  OBVIOUS
<1>2. \A j \in DOMAIN all : all[j] \in ServerMessage
  BY <1>1
<1>3. \A j \in DOMAIN all : Numbered(all[j]) => all[j].serverSeq \in Nat
  BY <1>2, MessageFields
<1> HIDE DEF all
<1>4. ASSUME NEW j \in DOMAIN all, Numbered(all[j])
      PROVE  all[j].serverSeq <= limit2
  <2>1. CASE j <= Len(frames)
    <3>1. frames[j].serverSeq <= limit /\ all[j] = frames[j]
      BY <1>1, <1>4, <2>1 DEF Rising
    <3> QED
      BY <1>3, <1>4, <3>1
  <2>2. CASE j > Len(frames)
    BY <1>1, <1>4, <2>2
  <2> QED
    BY <1>1, <2>1, <2>2
<1>5. ASSUME NEW j \in DOMAIN all, all[j].type = "delta"
      PROVE  /\ seen # NoSeq => all[j].serverSeq > seen
             /\ \A i \in 1 .. j - 1 :
                   Numbered(all[i]) => all[i].serverSeq < all[j].serverSeq
  <2>1. all[j].serverSeq \in Nat
    BY <1>3, <1>5 DEF Numbered
  <2>2. CASE j <= Len(frames)
    <3>1. /\ j \in DOMAIN frames /\ all[j] = frames[j]
          /\ \A i \in 1 .. j - 1 : all[i] = frames[i]
      BY <1>1, <2>2
    <3> QED
      BY <1>5, <3>1 DEF Rising
  <2>3. CASE j > Len(frames)
    <3>1. j = Len(frames) + 1 /\ all[j].serverSeq > limit
      BY <1>1, <1>5, <2>3
    <3>2. ASSUME NEW i \in 1 .. j - 1, Numbered(all[i])
          PROVE  all[i].serverSeq < all[j].serverSeq
      <4>1. i \in DOMAIN frames /\ i \in DOMAIN all /\ all[i] = frames[i]
        BY <1>1, <3>1
      <4>2. all[i].serverSeq <= limit /\ all[i].serverSeq \in Nat
        BY <1>3, <3>2, <4>1 DEF Rising
      <4> QED
        BY <2>1, <3>1, <4>2
    <3>3. seen # NoSeq => all[j].serverSeq > seen
      BY <2>1, <3>1 DEF NoSeq
    <3> QED
      BY <3>2, <3>3
  <2> QED
    BY <1>1, <2>2, <2>3
<1> QED
  BY <1>4, <1>5 DEF Rising, all

LEMMA TailRises ==
    ASSUME NEW frames \in Seq(ServerMessage), frames # <<>>,
           NEW seen, NEW limit \in Nat, Rising(frames, seen, limit)
    PROVE  Rising(Tail(frames),
                  IF Numbered(frames[1]) THEN frames[1].serverSeq ELSE seen, limit)
<1> DEFINE rest == Tail(frames)
<1>1. /\ Len(frames) \in Nat /\ DOMAIN frames = 1 .. Len(frames) /\ 1 \in DOMAIN frames
      /\ DOMAIN rest = 1 .. Len(frames) - 1
      /\ \A j \in DOMAIN rest : j + 1 \in DOMAIN frames /\ rest[j] = frames[j + 1]
  OBVIOUS
<1> HIDE DEF rest
<1>2. \A j \in DOMAIN rest : Numbered(rest[j]) => rest[j].serverSeq <= limit
  BY <1>1 DEF Rising
<1>3. ASSUME NEW j \in DOMAIN rest, rest[j].type = "delta"
      PROVE  /\ Numbered(frames[1]) => frames[1].serverSeq < rest[j].serverSeq
             /\ seen # NoSeq => rest[j].serverSeq > seen
             /\ \A i \in 1 .. j - 1 :
                   Numbered(rest[i]) => rest[i].serverSeq < rest[j].serverSeq
  <2>1. /\ j + 1 \in DOMAIN frames /\ rest[j] = frames[j + 1] /\ 1 \in 1 .. (j + 1) - 1
        /\ \A i \in 1 .. j - 1 : /\ i \in DOMAIN rest
                                /\ i + 1 \in 1 .. (j + 1) - 1 /\ rest[i] = frames[i + 1]
    BY <1>1
  <2> QED
    BY <1>3, <2>1 DEF Rising
<1>4. /\ Numbered(frames[1]) => frames[1].serverSeq \in Nat
      /\ \A j \in DOMAIN rest : rest[j].type = "delta" => rest[j].serverSeq \in Nat
  BY <1>1, MessageFields DEF Numbered
<1> QED
  BY <1>2, <1>3, <1>4 DEF Rising, rest

-----------------------------------------------------------------------------
(* The invariant.                                                          *)

(* A client's connection is its own, and neither unopened nor abandoned;   *)
(* a connection that is not registered has been told nothing.              *)
LinksExact ==
    /\ \A a \in App : link[a] # NoConn => link[a] \notin fresh \cup lost
    /\ \A a, b \in App : link[a] # NoConn /\ link[a] = link[b] => a = b
    /\ \A c \in fresh : connId[c] = NoId /\ toServer[c] = <<>>
    /\ \A c \in Conn : connId[c] = NoId => toClient[c] = <<>>

(* A client that has seen no number yet has its welcome before it. *)
WelcomeFirst(c, seen) ==
    seen = NoSeq => \/ toClient[c] = <<>> /\ connId[c] = NoId
                    \/ toClient[c] # <<>> /\ toClient[c][1].type = "welcome"

ChannelRises(c, seen) ==
    /\ seen # NoSeq => seen <= serverSeq
    /\ WelcomeFirst(c, seen)
    /\ Rising(toClient[c], seen, serverSeq)

ChannelsRise ==
    \A a \in App : link[a] # NoConn => ChannelRises(link[a], client[a].lastSeen)

LostWereOpened == lost \cap fresh = {}

SyncInv ==
    /\ IInv
    /\ SyncTypeOK
    /\ LinksExact
    /\ LostWereOpened
    /\ ChannelsRise
    /\ NoResyncNeeded

LEMMA SyncInitInv ==
    ASSUME SyncInit
    PROVE  SyncInv
<1>1. IInv
  BY InitInv DEF SyncInit
<1>2. SyncTypeOK
  BY <1>1, StartedTyped DEF SyncInit, SyncTypeOK, IInv
<1>3. LinksExact /\ LostWereOpened /\ ChannelsRise /\ NoResyncNeeded
  BY DEF SyncInit, Init, LinksExact, LostWereOpened, ChannelsRise, NoResyncNeeded
<1> QED
  BY <1>1, <1>2, <1>3 DEF SyncInv

(* The room is idle: its own invariant is not concerned. *)
LEMMA IdleRoom ==
    ASSUME IInv, RoomIdle
    PROVE  IInv' /\ connId' = connId /\ serverSeq' = serverSeq
  BY SilenceTyped, RefusalInv DEF RoomIdle, roomState

(* The types of what the steps read and write. *)
LEMMA SyncTypes ==
    ASSUME SyncInv
    PROVE  /\ client \in [App -> ClientState]
           /\ link \in [App -> Conn \cup {NoConn}]
           /\ fresh \subseteq Conn /\ lost \subseteq Conn
           /\ toServer \in [Conn -> Seq(ClientMessage)]
           /\ toClient \in [Conn -> Seq(ServerMessage)]
           /\ serverSeq \in Nat
           /\ \A a \in App : client[a].lastSeen \in Nat \cup {NoSeq}
  BY RoomAssumption DEF SyncInv, SyncTypeOK, TypeOK, ClientState

(* Sending: more on the client's own uplink, and nothing that asks for a   *)
(* snapshot.                                                               *)
LEMMA SendEffect ==
    ASSUME SyncInv, NEW a \in App, NEW frames \in Seq(ClientMessage), Send(a, frames),
           \A i \in DOMAIN frames : frames[i].type # "requestSnapshot"
    PROVE  /\ toServer' \in [Conn -> Seq(ClientMessage)]
           /\ NoResyncNeeded'
           /\ \A c \in fresh : toServer'[c] = toServer[c]
<1>1. toServer \in [Conn -> Seq(ClientMessage)] /\ link[a] \in Conn \cup {NoConn}
      /\ (link[a] # NoConn => link[a] \notin fresh) /\ fresh \subseteq Conn
  BY SyncTypes DEF SyncInv, LinksExact
<1>2. CASE toServer' = toServer
  BY <1>1, <1>2 DEF SyncInv, NoResyncNeeded
<1>3. CASE link[a] # NoConn /\ toServer' = [toServer EXCEPT ![link[a]] = @ \o frames]
  <2>1. link[a] \in Conn
    BY <1>1, <1>3
  <2>2. toServer[link[a]] \o frames \in Seq(ClientMessage)
    BY <1>1, <2>1
  <2>3. \A i \in DOMAIN (toServer[link[a]] \o frames) :
            (toServer[link[a]] \o frames)[i].type # "requestSnapshot"
    <3> DEFINE old == toServer[link[a]]
    <3>1. \A i \in DOMAIN old : old[i].type # "requestSnapshot"
      BY <2>1 DEF SyncInv, NoResyncNeeded
    <3>2. old \in Seq(ClientMessage)
      BY <1>1, <2>1
    <3> HIDE DEF old
    <3>3. \A i \in DOMAIN (old \o frames) :
              \/ i \in DOMAIN old /\ (old \o frames)[i] = old[i]
              \/ i - Len(old) \in DOMAIN frames /\ (old \o frames)[i] = frames[i - Len(old)]
      BY <3>2
    <3> QED
      BY <3>1, <3>3 DEF old
  <2>4. \A c \in Conn : toServer'[c] =
            IF c = link[a] THEN toServer[link[a]] \o frames ELSE toServer[c]
    BY <1>1, <1>3
  <2>5. NoResyncNeeded'
    BY <2>3, <2>4 DEF SyncInv, NoResyncNeeded
  <2>6. toServer' \in [Conn -> Seq(ClientMessage)]
    BY <1>1, <1>3, <2>2
  <2> QED
    BY <1>1, <1>3, <2>4, <2>5, <2>6
<1> QED
  BY <1>2, <1>3 DEF Send

-----------------------------------------------------------------------------
(* The client's steps.                                                     *)

(* A control, a flush, or a click: one client changes, and its uplink.     *)
LEMMA LocalStep ==
    ASSUME SyncInv, NEW a \in App, NEW s \in ClientState,
           client' = [client EXCEPT ![a] = s], s.lastSeen = client[a].lastSeen,
           toServer' \in [Conn -> Seq(ClientMessage)], NoResyncNeeded',
           \A c \in fresh : toServer'[c] = toServer[c],
           RoomIdle, UNCHANGED <<link, fresh, lost, toClient>>
    PROVE  SyncInv'
<1>1. IInv' /\ connId' = connId /\ serverSeq' = serverSeq
  BY IdleRoom DEF SyncInv
<1>2. SyncTypeOK'
  BY <1>1, SyncTypes DEF SyncTypeOK, IInv
<1>3. LinksExact' /\ LostWereOpened'
  BY <1>1 DEF SyncInv, LinksExact, LostWereOpened
<1>4. \A b \in App : client'[b].lastSeen = client[b].lastSeen
  BY SyncTypes
<1>5. ChannelsRise'
  BY <1>1, <1>4 DEF SyncInv, ChannelsRise, ChannelRises, WelcomeFirst
<1> QED
  BY <1>1, <1>2, <1>3, <1>5 DEF SyncInv

LEMMA UserStep ==
    ASSUME SyncInv, NEW a \in App, NEW d \in Deck,
           \/ \E changes \in Changes : UserChange(a, d, changes)
           \/ Flush(a, d)
    PROVE  SyncInv'
<1>1. client[a] \in ClientState
  BY SyncTypes
<1>2. ASSUME NEW s \in ClientState, NEW changes \in Changes, Send(a, <<DeltaFrame(d, changes)>>),
             client' = [client EXCEPT ![a] = Flushed(s, d)],
             s.lastSeen = client[a].lastSeen,
             RoomIdle, UNCHANGED <<link, fresh, lost, toClient>>
      PROVE  SyncInv'
  <2>1. DeltaFrame(d, changes) \in ClientMessage
        /\ DeltaFrame(d, changes).type # "requestSnapshot"
    BY DEF DeltaFrame, ClientMessage
  <2>2. /\ toServer' \in [Conn -> Seq(ClientMessage)] /\ NoResyncNeeded'
        /\ \A c \in fresh : toServer'[c] = toServer[c]
    <3> DEFINE frames == <<DeltaFrame(d, changes)>>
    <3>1. frames \in Seq(ClientMessage) /\ Send(a, frames)
          /\ \A i \in DOMAIN frames : frames[i].type # "requestSnapshot"
      BY <1>2, <2>1
    <3> HIDE DEF frames
    <3> QED
      BY <3>1, SendEffect
  <2> QED
    BY <1>2, <2>2, FlushedTyped, LocalStep
<1>3. ASSUME NEW changes \in Changes, UserChange(a, d, changes)
      PROVE  SyncInv'
  <2> DEFINE changed == LocalChange(client[a], d, changes)
  <2>1. /\ changed \in ClientState /\ changed.lastSeen = client[a].lastSeen
        /\ changed.pending[d] \in Changes
    BY <1>1, LocalChangeTyped DEF ClientState
  <2>2. RoomIdle /\ UNCHANGED <<link, fresh, lost, toClient>>
    BY <1>3 DEF UserChange
  <2>3. \/ client' = [client EXCEPT ![a] = changed] /\ UNCHANGED toServer
        \/ /\ client' = [client EXCEPT ![a] = Flushed(changed, d)]
           /\ Send(a, <<DeltaFrame(d, changed.pending[d])>>)
    BY <1>3 DEF UserChange
  <2> HIDE DEF changed
  <2>4. CASE client' = [client EXCEPT ![a] = changed] /\ UNCHANGED toServer
    <3>1. NoResyncNeeded' /\ toServer' \in [Conn -> Seq(ClientMessage)]
      BY <2>4, SyncTypes DEF SyncInv, NoResyncNeeded
    <3> QED
      BY <2>1, <2>2, <2>4, <3>1, LocalStep
  <2> QED
    BY <1>2, <2>1, <2>2, <2>3, <2>4
<1>4. CASE Flush(a, d)
  <2>1. /\ client' = [client EXCEPT ![a] = Flushed(client[a], d)]
        /\ Send(a, <<DeltaFrame(d, client[a].pending[d])>>)
        /\ RoomIdle /\ UNCHANGED <<link, fresh, lost, toClient>>
    BY <1>4, SyncTypes DEF Flush
  <2>2. client[a].pending[d] \in Changes
    BY <1>1 DEF ClientState
  <2> QED
    BY <1>1, <1>2, <2>1, <2>2
<1> QED
  BY <1>3, <1>4

LEMMA ClickStep ==
    ASSUME SyncInv, NEW a \in App, ClickClaim(a) \/ ClickRelease(a)
    PROVE  SyncInv'
<1>1. PICK type \in {"claimControl", "releaseControl"} : Send(a, <<[type |-> type]>>)
  BY DEF ClickClaim, ClickRelease
<1>2. /\ RoomIdle /\ UNCHANGED <<client, link, fresh, lost, toClient>>
  BY DEF ClickClaim, ClickRelease
<1>3. [type |-> type] \in ClientMessage /\ [type |-> type].type # "requestSnapshot"
  BY DEF ClientMessage
<1>4. /\ toServer' \in [Conn -> Seq(ClientMessage)] /\ NoResyncNeeded'
      /\ \A c \in fresh : toServer'[c] = toServer[c]
  BY <1>1, <1>3, SendEffect
<1>5. client' = [client EXCEPT ![a] = client[a]] /\ client[a] \in ClientState
  BY <1>2, SyncTypes
<1> QED
  BY <1>2, <1>4, <1>5, LocalStep

LEMMA ConnectStep ==
    ASSUME SyncInv, NEW a \in App, Connect(a)
    PROVE  SyncInv'
<1>1. PICK c \in fresh :
        /\ link' = [link EXCEPT ![a] = c]
        /\ fresh' = fresh \ {c}
        /\ toServer' = [toServer EXCEPT ![c] = <<[type |-> "hello", valid |-> TRUE]>>]
  BY DEF Connect
<1>2. /\ client' = [client EXCEPT ![a].lastSeen = NoSeq]
      /\ RoomIdle /\ UNCHANGED <<lost, toClient>>
  BY DEF Connect
<1>3. IInv' /\ connId' = connId /\ serverSeq' = serverSeq
  BY <1>2, IdleRoom DEF SyncInv
<1>4. c \in Conn /\ connId[c] = NoId /\ toServer[c] = <<>> /\ toClient[c] = <<>>
      /\ c # NoConn /\ c \notin lost
  <2>1. c \in Conn /\ connId[c] = NoId /\ toServer[c] = <<>> /\ toClient[c] = <<>>
    BY SyncTypes DEF SyncInv, LinksExact
  <2>2. c \notin lost
    BY <2>1 DEF SyncInv, LostWereOpened
  <2> QED
    BY <2>1, <2>2, RoomAssumption
<1>5. /\ \A b \in App : link'[b] = IF b = a THEN c ELSE link[b]
      /\ \A b \in App : client'[b].lastSeen = IF b = a THEN NoSeq ELSE client[b].lastSeen
      /\ client' \in [App -> ClientState]
  <2> DEFINE s == [client[a] EXCEPT !.lastSeen = NoSeq]
  <2>1. s \in ClientState /\ s.lastSeen = NoSeq
    BY SyncTypes DEF ClientState
  <2>2. client' = [client EXCEPT ![a] = s]
    BY <1>2, SyncTypes
  <2> HIDE DEF s
  <2> QED
    BY <1>1, <2>1, <2>2, SyncTypes
<1>6. SyncTypeOK'
  <2>1. [type |-> "hello", valid |-> TRUE] \in ClientMessage
    BY DEF ClientMessage
  <2>2. toServer' \in [Conn -> Seq(ClientMessage)]
    BY <1>1, <1>4, <2>1, SyncTypes
  <2> QED
    BY <1>1, <1>2, <1>3, <1>4, <1>5, <2>2, SyncTypes DEF SyncTypeOK, IInv
<1>7. LinksExact'
  <2>1. \A x \in fresh' : toServer'[x] = toServer[x]
    BY <1>1, SyncTypes
  <2> QED
    BY <1>1, <1>2, <1>3, <1>4, <1>5, <2>1 DEF SyncInv, LinksExact
<1>8. ChannelsRise' /\ LostWereOpened'
  <2>1. ASSUME NEW b \in App, b # a, link'[b] # NoConn
        PROVE  ChannelRises(link[b], client[b].lastSeen)'
    BY <1>2, <1>3, <1>5, <2>1 DEF SyncInv, ChannelsRise, ChannelRises, WelcomeFirst
  <2>2. ChannelRises(c, NoSeq)'
    BY <1>2, <1>3, <1>4 DEF ChannelRises, WelcomeFirst, Rising
  <2> QED
    BY <1>1, <1>2, <1>5, <2>1, <2>2 DEF SyncInv, ChannelsRise, LostWereOpened
<1>9. NoResyncNeeded'
  <2>1. \A x \in Conn : x # c => toServer'[x] = toServer[x]
    BY <1>1, SyncTypes
  <2>2. toServer'[c] = <<[type |-> "hello", valid |-> TRUE]>>
    BY <1>1, <1>4, SyncTypes
  <2> QED
    BY <2>1, <2>2 DEF SyncInv, NoResyncNeeded
<1> QED
  BY <1>3, <1>6, <1>7, <1>8, <1>9 DEF SyncInv

LEMMA LoseStep ==
    ASSUME SyncInv, NEW a \in App, LoseLink(a)
    PROVE  SyncInv'
<1>1. /\ link[a] # NoConn /\ link[a] \in Conn
      /\ lost' = lost \cup {link[a]}
      /\ link' = [link EXCEPT ![a] = NoConn]
      /\ client' = [client EXCEPT ![a] = AfterConnectionLost(client[a])]
      /\ toClient' = [toClient EXCEPT ![link[a]] = <<>>]
      /\ RoomIdle /\ UNCHANGED <<fresh, toServer>>
  BY SyncTypes DEF LoseLink
<1>2. IInv' /\ connId' = connId /\ serverSeq' = serverSeq
  BY <1>1, IdleRoom DEF SyncInv
<1>3. /\ \A b \in App : link'[b] = IF b = a THEN NoConn ELSE link[b]
      /\ \A b \in App : b # a => client'[b] = client[b]
      /\ client' \in [App -> ClientState]
  BY <1>1, LostTyped, SyncTypes
<1>4. \A x \in Conn : toClient'[x] = IF x = link[a] THEN <<>> ELSE toClient[x]
  BY <1>1, SyncTypes
<1>5. SyncTypeOK'
  <2>1. toClient' \in [Conn -> Seq(ServerMessage)]
    BY <1>1, SyncTypes
  <2>2. link' \in [App -> Conn \cup {NoConn}]
    BY <1>1, SyncTypes
  <2> QED
    BY <1>1, <1>2, <1>3, <2>1, <2>2, SyncTypes DEF SyncTypeOK, IInv
<1>6. LinksExact'
  BY <1>1, <1>2, <1>3, <1>4 DEF SyncInv, LinksExact
<1>7. ChannelsRise'
  <2> SUFFICES ASSUME NEW b \in App, link'[b] # NoConn
               PROVE  ChannelRises(link[b], client[b].lastSeen)'
    BY DEF ChannelsRise
  <2>1. b # a /\ link'[b] = link[b] /\ client'[b] = client[b] /\ link[b] # link[a]
        /\ link[b] \in Conn
    BY <1>1, <1>3, SyncTypes DEF SyncInv, LinksExact
  <2> QED
    BY <1>2, <1>4, <2>1 DEF SyncInv, ChannelsRise, ChannelRises, WelcomeFirst
<1>8. NoResyncNeeded' /\ LostWereOpened'
  BY <1>1 DEF SyncInv, NoResyncNeeded, LostWereOpened, LinksExact
<1> QED
  BY <1>2, <1>5, <1>6, <1>7, <1>8 DEF SyncInv

(* A client handles a frame: the next number is past what it has seen, so  *)
(* it does not ask for a snapshot.                                         *)
LEMMA DeliverStep ==
    ASSUME SyncInv, NEW a \in App, Deliver(a)
    PROVE  SyncInv'
<1> DEFINE c     == link[a]
           frame == Head(toClient[c])
           seen  == client[a].lastSeen
           s     == AfterFrame(client[a], frame)
<1>1. /\ c # NoConn /\ c \in Conn /\ toClient[c] # <<>>
      /\ client' = [client EXCEPT ![a] = s]
      /\ Send(a, Answer(client[a], frame))
      /\ toClient' = [toClient EXCEPT ![c] = Tail(toClient[c])]
      /\ RoomIdle /\ UNCHANGED <<link, fresh, lost>>
  BY SyncTypes DEF Deliver
<1>2. IInv' /\ connId' = connId /\ serverSeq' = serverSeq
  BY <1>1, IdleRoom DEF SyncInv
<1>3. /\ toClient[c] \in Seq(ServerMessage) /\ frame \in ServerMessage
      /\ frame = toClient[c][1] /\ 1 \in DOMAIN toClient[c]
      /\ client[a] \in ClientState /\ serverSeq \in Nat
  BY <1>1, SyncTypes
<1>4. ChannelRises(c, seen)
  BY <1>1 DEF SyncInv, ChannelsRise
<1>5. /\ s \in ClientState
      /\ s.lastSeen = IF Numbered(frame) THEN frame.serverSeq ELSE seen
  BY <1>3, AfterFrameTyped
<1>6. seen = NoSeq => frame.type = "welcome"
  BY <1>1, <1>3, <1>4 DEF ChannelRises, WelcomeFirst
<1>7. ~OutOfSequence(client[a], frame)
  <2>1. frame.type = "delta" => seen # NoSeq
    BY <1>6
  <2>2. frame.type = "delta" /\ seen # NoSeq => frame.serverSeq > seen
    BY <1>3, <1>4 DEF ChannelRises, Rising
  <2> QED
    BY <2>1, <2>2 DEF OutOfSequence
<1>8. /\ toServer' \in [Conn -> Seq(ClientMessage)] /\ NoResyncNeeded'
      /\ \A x \in fresh : toServer'[x] = toServer[x]
  <2> DEFINE frames == Answer(client[a], frame)
  <2>1. /\ frames \in Seq(ClientMessage) /\ Send(a, frames)
        /\ \A i \in DOMAIN frames : frames[i].type # "requestSnapshot"
    BY <1>1, <1>3, <1>7, AnswerTyped
  <2> HIDE DEF frames
  <2> QED
    BY <2>1, SendEffect
<1>9. \A x \in Conn : toClient'[x] = IF x = c THEN Tail(toClient[c]) ELSE toClient[x]
  BY <1>1, SyncTypes
<1>10. SyncTypeOK'
  <2>1. Tail(toClient[c]) \in Seq(ServerMessage)
    BY <1>1, <1>3
  <2>2. toClient' \in [Conn -> Seq(ServerMessage)] /\ client' \in [App -> ClientState]
    BY <1>1, <1>5, <2>1, SyncTypes
  <2> QED
    BY <1>1, <1>2, <1>8, <2>2, SyncTypes DEF SyncTypeOK, IInv
<1>11. LinksExact'
  <2>1. connId[c] # NoId
    BY <1>1 DEF SyncInv, LinksExact
  <2> QED
    BY <1>1, <1>2, <1>8, <1>9, <2>1 DEF SyncInv, LinksExact
<1>12. ChannelsRise'
  <2>1. ASSUME NEW b \in App, b # a, link[b] # NoConn
        PROVE  ChannelRises(link[b], client[b].lastSeen)'
    <3>1. link[b] # c /\ link[b] \in Conn /\ client'[b] = client[b]
      BY <1>1, <2>1, SyncTypes DEF SyncInv, LinksExact
    <3> QED
      BY <1>1, <1>2, <1>9, <2>1, <3>1
      DEF SyncInv, ChannelsRise, ChannelRises, WelcomeFirst
  <2>2. /\ link'[a] = c /\ client'[a] = s /\ toClient'[c] = Tail(toClient[c])
    BY <1>1, <1>9, SyncTypes
  <2>3. Rising(Tail(toClient[c]), s.lastSeen, serverSeq)
    BY <1>1, <1>3, <1>4, <1>5, TailRises DEF ChannelRises
  <2>4. s.lastSeen # NoSeq
    <3>1. CASE Numbered(frame)
      BY <1>3, <1>5, <3>1, MessageFields DEF NoSeq
    <3>2. CASE ~Numbered(frame)
      BY <1>5, <1>6, <3>2 DEF Numbered
    <3> QED
      BY <3>1, <3>2
  <2>5. s.lastSeen <= serverSeq
    BY <1>3, <1>4, <1>5, <1>6 DEF ChannelRises, Rising, Numbered
  <2>6. ChannelRises(link[a], client[a].lastSeen)'
    <3> HIDE DEF s, c
    <3> QED
      BY <1>2, <2>2, <2>3, <2>4, <2>5 DEF ChannelRises, WelcomeFirst
  <2> QED
    BY <1>1, <2>1, <2>6 DEF ChannelsRise
<1>13. LostWereOpened'
  BY <1>1 DEF SyncInv, LostWereOpened
<1> QED
  BY <1>2, <1>8, <1>10, <1>11, <1>12, <1>13 DEF SyncInv

-----------------------------------------------------------------------------
(* The room's steps.                                                       *)

(* Whatever the room says, the channels stay in order. *)
LEMMA TransmitKeeps ==
    ASSUME SyncInv, RoomSpeaks, IInv', Transmit, UNCHANGED <<client, link, fresh, lost>>
    PROVE  /\ toClient' \in [Conn -> Seq(ServerMessage)]
           /\ \A c \in Conn : connId'[c] = NoId => toClient'[c] = <<>>
           /\ ChannelsRise'
<1>1. /\ serverSeq \in Nat /\ serverSeq' \in Nat /\ serverSeq' >= serverSeq
      /\ sent' \in [Conn -> Seq(ServerMessage)]
      /\ toClient \in [Conn -> Seq(ServerMessage)]
  BY RoomAssumption, SyncTypes DEF RoomSpeaks, IInv, TypeOK
<1>2. \A c \in Conn :
        toClient'[c] = IF c \in lost THEN <<>> ELSE toClient[c] \o sent'[c]
  BY DEF Transmit
<1>3. toClient' \in [Conn -> Seq(ServerMessage)]
  <2>1. ASSUME NEW c \in Conn
        PROVE  toClient'[c] \in Seq(ServerMessage)
    <3>1. toClient[c] \in Seq(ServerMessage) /\ sent'[c] \in Seq(ServerMessage)
      BY <1>1
    <3>2. toClient[c] \o sent'[c] \in Seq(ServerMessage) /\ <<>> \in Seq(ServerMessage)
      BY <3>1
    <3> QED
      BY <1>2, <3>2
  <2> QED
    BY <2>1 DEF Transmit
<1>4. ASSUME NEW c \in Conn, connId'[c] = NoId
      PROVE  toClient'[c] = <<>>
  <2>1. connId[c] = NoId
    BY <1>4 DEF RoomSpeaks
  <2>2. sent'[c] = <<>> /\ toClient[c] = <<>>
    BY <1>4, <2>1 DEF RoomSpeaks, Informed, SyncInv, LinksExact
  <2>3. toClient[c] \o sent'[c] = <<>>
    BY <2>2
  <2> QED
    BY <1>2, <2>3
<1>5. ChannelsRise'
  <2> SUFFICES ASSUME NEW a \in App, link'[a] # NoConn
               PROVE  ChannelRises(link[a], client[a].lastSeen)'
    BY DEF ChannelsRise
  <2> DEFINE c      == link[a]
             seen   == client[a].lastSeen
             frames == toClient[c]
             new    == sent'[c]
  <2>1. /\ c \in Conn /\ c \notin lost
        /\ seen \in Nat \cup {NoSeq}
        /\ frames \in Seq(ServerMessage) /\ new \in Seq(ServerMessage)
        /\ ChannelRises(c, seen)
    BY <1>1, SyncTypes DEF SyncInv, LinksExact, ChannelsRise
  <2>2. toClient'[c] = frames \o new
    BY <1>2, <2>1
  <2>3. /\ connId'[c] = connId[c] \/ (Greeted(c) /\ connId'[c] # NoId)
        /\ new = <<>> \/ Informed(c) \/ (Greeted(c) /\ connId'[c] # NoId)
    BY <2>1 DEF RoomSpeaks
  <2>4. \A i \in DOMAIN new :
            /\ Numbered(new[i]) => new[i].serverSeq <= serverSeq'
            /\ new[i].type = "delta" => i = 1 /\ new[i].serverSeq > serverSeq
    <3>1. CASE new = <<>>
      BY <3>1
    <3>2. CASE Informed(c)
      BY <3>2 DEF Informed
    <3>3. CASE Greeted(c)
      <4>1. PICK frame : /\ frame.type = "welcome" /\ frame.serverSeq = serverSeq
                         /\ new = <<frame>>
        BY <3>3 DEF Greeted
      <4> QED
        BY <1>1, <4>1
    <3> QED
      BY <2>3, <3>1, <3>2, <3>3
  <2>5. Rising(frames, seen, serverSeq) /\ (seen # NoSeq => seen <= serverSeq)
    BY <2>1 DEF ChannelRises
  <2>6. Rising(frames \o new, seen, serverSeq')
    <3> HIDE DEF c, seen, frames, new
    <3> QED
      BY <1>1, <2>1, <2>4, <2>5, AppendRises
  <2>7. ASSUME seen = NoSeq
        PROVE  \/ frames \o new = <<>> /\ connId'[c] = NoId
               \/ frames \o new # <<>> /\ (frames \o new)[1].type = "welcome"
    <3>1. CASE frames # <<>> /\ frames[1].type = "welcome"
      <4> HIDE DEF c, seen, frames, new
      <4>1. (frames \o new)[1] = frames[1] /\ frames \o new # <<>>
        BY <2>1, <3>1
      <4> QED
        BY <3>1, <4>1
    <3>2. CASE frames = <<>> /\ connId[c] = NoId
      <4>1. frames \o new = new
        <5> HIDE DEF c, seen, frames, new
        <5> QED
          BY <2>1, <3>2
      <4>2. CASE new = <<>> /\ connId'[c] = NoId
        BY <4>1, <4>2
      <4>3. CASE Greeted(c)
        BY <4>1, <4>3 DEF Greeted
      <4>4. ~Informed(c)
        BY <3>2 DEF Informed
      <4> QED
        BY <2>3, <3>2, <4>2, <4>3, <4>4
    <3> QED
      BY <2>1, <2>7, <3>1, <3>2 DEF ChannelRises, WelcomeFirst
  <2>8. seen # NoSeq => seen <= serverSeq'
    BY <1>1, <2>1, <2>5 DEF NoSeq
  <2>9. link'[a] = c /\ client'[a] = client[a]
    OBVIOUS
  <2> HIDE DEF c
  <2> QED
    BY <2>2, <2>6, <2>7, <2>8, <2>9 DEF ChannelRises, WelcomeFirst
<1> QED
  BY <1>3, <1>4, <1>5

(* A call of the room; a connection nobody has opened has nothing to read. *)
LEMMA RoomStep ==
    ASSUME SyncInv, RoomSpeaks, IInv', Transmit,
           NEW c \in Conn, NEW rest \in Seq(ClientMessage), c \notin fresh \/ rest = <<>>,
           \A i \in DOMAIN rest : rest[i].type # "requestSnapshot",
           toServer' = [toServer EXCEPT ![c] = rest],
           \A x \in fresh : connId'[x] = connId[x],
           UNCHANGED <<client, link, fresh, lost>>
    PROVE  SyncInv'
<1>1. \A x \in Conn : toServer'[x] = IF x = c THEN rest ELSE toServer[x]
  BY SyncTypes
<1>2. /\ toClient' \in [Conn -> Seq(ServerMessage)]
      /\ \A x \in Conn : connId'[x] = NoId => toClient'[x] = <<>>
      /\ ChannelsRise'
  BY TransmitKeeps
<1>3. SyncTypeOK'
  <2>1. toServer' \in [Conn -> Seq(ClientMessage)]
    BY SyncTypes
  <2> QED
    BY <1>2, <2>1, SyncTypes DEF SyncTypeOK, IInv
<1>4. LinksExact'
  <2>1. \A x \in fresh : connId'[x] = NoId /\ toServer'[x] = <<>>
    BY <1>1, SyncTypes DEF SyncInv, LinksExact
  <2> QED
    BY <1>2, <2>1 DEF SyncInv, LinksExact
<1>5. NoResyncNeeded' /\ LostWereOpened'
  BY <1>1 DEF SyncInv, NoResyncNeeded, LostWereOpened
<1> QED
  BY <1>2, <1>3, <1>4, <1>5 DEF SyncInv

LEMMA ReceiveStep ==
    ASSUME SyncInv, NEW c \in Conn, ServerReceives(c)
    PROVE  SyncInv'
<1> DEFINE frames == toServer[c]
           rest   == IF c \in closed' THEN <<>> ELSE Tail(frames)
<1>1. /\ frames \in Seq(ClientMessage) /\ frames # <<>> /\ Head(frames) \in ClientMessage
      /\ HandleMessage(c, Head(frames))
      /\ toServer' = [toServer EXCEPT ![c] = rest]
      /\ Transmit /\ UNCHANGED <<client, link, fresh, lost>>
  BY SyncTypes DEF ServerReceives
<1>2. IInv
  BY DEF SyncInv
<1>3. RoomSpeaks /\ IInv'
  BY <1>1, <1>2, MessageSpeaks, MessageInv
<1>4. c \notin fresh
  BY <1>1 DEF SyncInv, LinksExact
<1>5. \A x \in fresh : connId'[x] = connId[x]
  BY <1>1, <1>2, <1>4, MessageIds, SyncTypes
<1>6. rest \in Seq(ClientMessage) /\ \A i \in DOMAIN rest : rest[i].type # "requestSnapshot"
  <2>1. \A i \in DOMAIN frames : frames[i].type # "requestSnapshot"
    BY DEF SyncInv, NoResyncNeeded
  <2>2. CASE c \in closed'
    BY <2>2
  <2>3. CASE c \notin closed'
    <3> HIDE DEF frames
    <3>1. /\ Tail(frames) \in Seq(ClientMessage)
          /\ \A i \in DOMAIN Tail(frames) :
                i + 1 \in DOMAIN frames /\ Tail(frames)[i] = frames[i + 1]
      BY <1>1
    <3> QED
      BY <2>1, <2>3, <3>1
  <2> QED
    BY <2>2, <2>3
<1> HIDE DEF rest
<1> QED
  BY <1>1, <1>3, <1>4, <1>5, <1>6, RoomStep

LEMMA CloseStep ==
    ASSUME SyncInv, NEW c \in Conn, ServerLoses(c)
    PROVE  SyncInv'
<1> DEFINE left == [toServer EXCEPT ![c] = <<>>]
<1>1. /\ HandleDisconnect(c) /\ Transmit /\ UNCHANGED <<client, link, fresh, lost>>
      /\ toServer' = left /\ connId' = connId
      /\ c \in lost \cup closed
  BY DEF ServerLoses, HandleDisconnect
<1>2. IInv
  BY DEF SyncInv
<1>3. RoomSpeaks /\ IInv'
  BY <1>1, <1>2, DisconnectSpeaks, DisconnectInv
<1>4. <<>> \in Seq(ClientMessage) /\ \A i \in DOMAIN <<>> : <<>>[i].type # "requestSnapshot"
  OBVIOUS
<1> QED
  BY <1>1, <1>3, <1>4, RoomStep

LEMMA SyncStep == SyncInv /\ [SyncNext]_allVars => SyncInv'
<1> SUFFICES ASSUME SyncInv, [SyncNext]_allVars
             PROVE  SyncInv'
  OBVIOUS
<1>1. ASSUME NEW c \in Conn, ServerReceives(c) \/ ServerLoses(c)
      PROVE  SyncInv'
  BY <1>1, ReceiveStep, CloseStep
<1>2. ASSUME NEW a \in App, ClientNext(a)
      PROVE  SyncInv'
  <2>1. CASE Connect(a) \/ LoseLink(a) \/ Deliver(a)
    BY <2>1, ConnectStep, LoseStep, DeliverStep
  <2>2. CASE ClickClaim(a) \/ ClickRelease(a)
    BY <2>2, ClickStep
  <2>3. ASSUME NEW d \in Deck,
               Flush(a, d) \/ \E ch \in Changes \ {NoChanges} : UserChange(a, d, ch)
        PROVE  SyncInv'
    BY <2>3, UserStep
  <2> QED
    BY <1>2, <2>1, <2>2, <2>3 DEF ClientNext
<1>3. CASE UNCHANGED allVars
  BY <1>3 DEF allVars, vars, syncVars, SyncInv, IInv, TypeOK, MembershipExact, IsMember,
              Registered, ControllerIsMember, SyncTypeOK, LinksExact, LostWereOpened,
              ChannelsRise, ChannelRises, WelcomeFirst, NoResyncNeeded
<1> QED
  BY <1>1, <1>2, <1>3 DEF SyncNext

(* Always: the room's invariant, the types, each channel in order. *)
THEOREM SyncInvariant == SyncSpec => []SyncInv
<1> QED
  BY SyncInitInv, SyncStep, PTL DEF SyncSpec

(* The clients, the channels and all that is under way keep their types. *)
THEOREM SyncTypesHold == SyncSpec => []SyncTypeOK
<1>1. SyncInv => SyncTypeOK
  BY DEF SyncInv
<1> QED
  BY <1>1, SyncInvariant, PTL

(* No client ever finds a gap it would have to repair with a snapshot,     *)
(* whatever connections come and go and whoever takes control.             *)
THEOREM NeverAsksAgain == SyncSpec => []NoResyncNeeded
<1>1. SyncInv => NoResyncNeeded
  BY DEF SyncInv
<1> QED
  BY <1>1, SyncInvariant, PTL
-----------------------------------------------------------------------------
(* Handling what is under way.                                             *)

(* The states a client goes through on the way. *)
Passes(f, s, frames) ==
    f = [i \in 0 .. Len(frames) |-> IF i = 0 THEN s ELSE AfterFrame(f[i - 1], frames[i])]

LEMMA ReplayPasses ==
    ASSUME NEW s \in ClientState, NEW frames \in Seq(ServerMessage)
    PROVE  \E f \in [0 .. Len(frames) -> ClientState] :
              Passes(f, s, frames) /\ Replay(s, frames) = f[Len(frames)]
<1> DEFINE n    == Len(frames)
           step == [x \in (1 .. n) \X ClientState |-> AfterFrame(x[2], frames[x[1]])]
           run  == CHOOSE f : Passes(f, s, frames)
<1>1. n \in Nat /\ \A i \in 1 .. n : frames[i] \in ServerMessage
  OBVIOUS
<1>2. step \in [(1 .. n) \X ClientState -> ClientState]
  BY <1>1, AfterFrameTyped
<1>3. PICK f \in [0 .. n -> ClientState] : Follows(f, s, step, n)
  <2> HIDE DEF step, n
  <2> QED
    BY <1>1, <1>2, RecursionTo
<1>4. ASSUME NEW i \in 1 .. n
      PROVE  f[i] = AfterFrame(f[i - 1], frames[i])
  <2>1. f[i] = step[<<i, f[i - 1]>>]
    BY <1>3 DEF Follows
  <2>2. <<i, f[i - 1]>> \in (1 .. n) \X ClientState
    BY <1>1
  <2> QED
    BY <2>1, <2>2
<1>5. Passes(f, s, frames)
  BY <1>1, <1>3, <1>4 DEF Passes, Follows
<1>6. Passes(run, s, frames)
  BY <1>5
<1>7. Replay(s, frames) = run[n]
  BY DEF Replay, Passes
<1> HIDE DEF run
<1>8. /\ DOMAIN run = 0 .. n /\ run = [i \in 0 .. n |-> run[i]] /\ run[0] = s
      /\ \A i \in 1 .. n : run[i] = AfterFrame(run[i - 1], frames[i])
  BY <1>1, <1>6 DEF Passes
<1>9. 0 .. n \subseteq {i \in 0 .. n : run[i] \in ClientState}
  <2> DEFINE S == {i \in 0 .. n : run[i] \in ClientState}
  <2>1. 0 \in S
    BY <1>1, <1>8
  <2>2. ASSUME NEW i \in 0 .. n - 1, i \in S
        PROVE  i + 1 \in S
    <3>1. i + 1 \in 1 .. n /\ (i + 1) - 1 = i /\ run[i] \in ClientState
      BY <1>1, <2>2
    <3>2. run[i + 1] = AfterFrame(run[i], frames[i + 1])
      BY <1>8, <3>1
    <3>3. run[i + 1] \in ClientState
      BY <1>1, <3>1, <3>2, AfterFrameTyped
    <3> QED
      BY <1>1, <3>1, <3>3
  <2> HIDE DEF S, n
  <2> QED
    BY <1>1, <2>1, <2>2, InductionTo DEF S
<1>10. run \in [0 .. n -> ClientState]
  BY <1>8, <1>9
<1> QED
  BY <1>6, <1>7, <1>10

(* There is only one way. *)
LEMMA ReplayIs ==
    ASSUME NEW s \in ClientState, NEW frames \in Seq(ServerMessage), NEW f, f[0] = s,
           \A i \in 1 .. Len(frames) : f[i] = AfterFrame(f[i - 1], frames[i])
    PROVE  Replay(s, frames) = f[Len(frames)]
<1> DEFINE n == Len(frames)
<1>1. PICK g \in [0 .. n -> ClientState] :
        Passes(g, s, frames) /\ Replay(s, frames) = g[n]
  BY ReplayPasses
<1>2. n \in Nat
  OBVIOUS
<1>3. g[0] = s /\ \A i \in 1 .. n : g[i] = AfterFrame(g[i - 1], frames[i])
  BY <1>1, <1>2 DEF Passes
<1> DEFINE S == {i \in 0 .. n : g[i] = f[i]}
<1>4. 0 \in S
  BY <1>2, <1>3
<1>5. ASSUME NEW i \in 0 .. n - 1, i \in S
      PROVE  i + 1 \in S
  <2>1. i + 1 \in 1 .. n /\ (i + 1) - 1 = i /\ g[i] = f[i]
    BY <1>2, <1>5
  <2> QED
    BY <1>2, <1>3, <2>1
<1>6. 0 .. n \subseteq S
  <2> HIDE DEF S, n
  <2> QED
    BY <1>2, <1>4, <1>5, InductionTo
<1> QED
  BY <1>1, <1>2, <1>6

LEMMA ReplayTyped ==
    ASSUME NEW s \in ClientState, NEW frames \in Seq(ServerMessage)
    PROVE  Replay(s, frames) \in ClientState
<1>1. Len(frames) \in 0 .. Len(frames)
  OBVIOUS
<1> QED
  BY <1>1, ReplayPasses

LEMMA ReplayNothing ==
    ASSUME NEW s \in ClientState
    PROVE  Replay(s, <<>>) = s
<1> DEFINE f == [i \in {0} |-> s]
<1>1. f[0] = s /\ <<>> \in Seq(ServerMessage) /\ Len(<<>>) = 0
  OBVIOUS
<1>2. \A i \in 1 .. Len(<<>>) : f[i] = AfterFrame(f[i - 1], <<>>[i])
  BY <1>1
<1> HIDE DEF f
<1> QED
  BY <1>1, <1>2, ReplayIs

(* One more frame, handled last. *)
LEMMA ReplayAppend ==
    ASSUME NEW s \in ClientState, NEW frames \in Seq(ServerMessage), NEW msg \in ServerMessage
    PROVE  Replay(s, Append(frames, msg)) = AfterFrame(Replay(s, frames), msg)
<1> DEFINE all == Append(frames, msg)
           n   == Len(frames)
<1>1. /\ n \in Nat /\ all \in Seq(ServerMessage) /\ Len(all) = n + 1 /\ all[n + 1] = msg
      /\ \A i \in 1 .. n : all[i] = frames[i]
  OBVIOUS
<1> HIDE DEF all
<1>2. PICK f \in [0 .. n + 1 -> ClientState] :
        Passes(f, s, all) /\ Replay(s, all) = f[n + 1]
  BY <1>1, ReplayPasses
<1>3. f[0] = s /\ \A i \in 1 .. n + 1 : f[i] = AfterFrame(f[i - 1], all[i])
  BY <1>1, <1>2 DEF Passes
<1>4. \A i \in 1 .. n : f[i] = AfterFrame(f[i - 1], frames[i])
  BY <1>1, <1>3
<1>5. Replay(s, frames) = f[n]
  BY <1>3, <1>4, ReplayIs
<1>6. f[n + 1] = AfterFrame(f[n], msg)
  BY <1>1, <1>3
<1> QED
  BY <1>2, <1>5, <1>6 DEF all

(* The first frame, handled first. *)
LEMMA ReplayHead ==
    ASSUME NEW s \in ClientState, NEW frames \in Seq(ServerMessage), frames # <<>>
    PROVE  Replay(s, frames) = Replay(AfterFrame(s, Head(frames)), Tail(frames))
<1> DEFINE rest == Tail(frames)
           n    == Len(rest)
<1>1. /\ n \in Nat /\ rest \in Seq(ServerMessage) /\ Len(frames) = n + 1
      /\ Head(frames) = frames[1] /\ Head(frames) \in ServerMessage
      /\ \A i \in 1 .. n : rest[i] = frames[i + 1]
  OBVIOUS
<1> HIDE DEF rest, n
<1>2. PICK f \in [0 .. n + 1 -> ClientState] :
        Passes(f, s, frames) /\ Replay(s, frames) = f[n + 1]
  <2>1. PICK f \in [0 .. Len(frames) -> ClientState] :
          Passes(f, s, frames) /\ Replay(s, frames) = f[Len(frames)]
    BY ReplayPasses
  <2> QED
    BY <1>1, <2>1
<1>3. f[0] = s /\ \A i \in 1 .. n + 1 : f[i] = AfterFrame(f[i - 1], frames[i])
  BY <1>1, <1>2 DEF Passes
<1> DEFINE g == [i \in 0 .. n |-> f[i + 1]]
<1>4. /\ g[0] = AfterFrame(s, Head(frames)) /\ g[n] = f[n + 1]
      /\ \A i \in 1 .. n : g[i] = f[i + 1] /\ g[i - 1] = f[i]
  BY <1>1, <1>3
<1>5. \A i \in 1 .. n : g[i] = AfterFrame(g[i - 1], rest[i])
  <2> TAKE i \in 1 .. n
  <2>1. i + 1 \in 1 .. n + 1 /\ (i + 1) - 1 = i
    BY <1>1
  <2> HIDE DEF g
  <2> QED
    BY <1>1, <1>3, <1>4, <2>1
<1>6. AfterFrame(s, Head(frames)) \in ClientState
  BY <1>1, AfterFrameTyped
<1> HIDE DEF g
<1>7. Replay(AfterFrame(s, Head(frames)), rest) = g[n]
  BY <1>1, <1>4, <1>5, <1>6, ReplayIs DEF n
<1> QED
  BY <1>2, <1>4, <1>7 DEF rest

LEMMA ReplayConcat ==
    ASSUME NEW s \in ClientState, NEW frames \in Seq(ServerMessage), NEW new \in Seq(ServerMessage)
    PROVE  Replay(s, frames \o new) = Replay(Replay(s, frames), new)
<1> DEFINE all == frames \o new
           n   == Len(frames)
           m   == Len(new)
<1>1. /\ n \in Nat /\ m \in Nat /\ all \in Seq(ServerMessage) /\ Len(all) = n + m
      /\ \A i \in 1 .. n : all[i] = frames[i]
      /\ \A i \in 1 .. m : all[n + i] = new[i]
  OBVIOUS
<1> HIDE DEF all, n, m
<1>2. PICK f \in [0 .. n + m -> ClientState] :
        Passes(f, s, all) /\ Replay(s, all) = f[n + m]
  <2>1. PICK f \in [0 .. Len(all) -> ClientState] :
          Passes(f, s, all) /\ Replay(s, all) = f[Len(all)]
    BY <1>1, ReplayPasses
  <2> QED
    BY <1>1, <2>1
<1>3. f[0] = s /\ \A i \in 1 .. n + m : f[i] = AfterFrame(f[i - 1], all[i])
  BY <1>1, <1>2 DEF Passes
<1>4. \A i \in 1 .. n : f[i] = AfterFrame(f[i - 1], frames[i])
  BY <1>1, <1>3
<1>5. Replay(s, frames) = f[n] /\ f[n] \in ClientState
  <2>1. n \in 0 .. n + m
    BY <1>1
  <2>2. Replay(s, frames) = f[Len(frames)]
    BY <1>3, <1>4, ReplayIs DEF n
  <2> QED
    BY <2>1, <2>2 DEF n
<1> DEFINE g == [i \in 0 .. m |-> f[n + i]]
<1>6. /\ g[0] = f[n] /\ g[m] = f[n + m]
      /\ \A i \in 1 .. m : g[i] = f[n + i] /\ g[i - 1] = f[n + i - 1]
  BY <1>1
<1>7. \A i \in 1 .. m : g[i] = AfterFrame(g[i - 1], new[i])
  <2> TAKE i \in 1 .. m
  <2>1. n + i \in 1 .. n + m
    BY <1>1
  <2> HIDE DEF g
  <2> QED
    BY <1>1, <1>3, <1>6, <2>1
<1> HIDE DEF g
<1>8. Replay(f[n], new) = g[m]
  BY <1>5, <1>6, <1>7, ReplayIs DEF m
<1> QED
  BY <1>2, <1>5, <1>6, <1>8 DEF all

-----------------------------------------------------------------------------
(* The roster.                                                             *)

(* What a client knows of who is in the room and in which role. *)
Roster(s) == <<s.connected, s.role, s.ownId, s.peers>>

SameRole(peers, id, role) ==
    {IF p.clientId = id THEN [p EXCEPT !.role = role] ELSE p : p \in peers}

(* Frames that say nothing of it. *)
SaysNothing(msg) == msg.type \in {"snapshot", "delta", "error"}

LEMMA RosterAfterFrame ==
    ASSUME NEW s \in ClientState, NEW msg \in ServerMessage
    PROVE  LET t == AfterFrame(s, msg) IN
           /\ SaysNothing(msg) => Roster(t) = Roster(s)
           /\ msg.type = "welcome" =>
                Roster(t) = <<TRUE, msg.role, msg.clientId, msg.peers>>
           /\ msg.type = "roleChanged" =>
                Roster(t) = IF msg.clientId = s.ownId
                            THEN <<s.connected, msg.role, s.ownId, s.peers>>
                            ELSE <<s.connected, s.role, s.ownId,
                                   SameRole(s.peers, msg.clientId, msg.role)>>
           /\ msg.type = "peerJoined" =>
                Roster(t) = <<s.connected, s.role, s.ownId,
                              PutPeer(s.peers, [clientId |-> msg.clientId, role |-> msg.role])>>
           /\ msg.type = "peerLeft" =>
                Roster(t) = <<s.connected, s.role, s.ownId, DropPeer(s.peers, msg.clientId)>>
<1> DEFINE t == AfterFrame(s, msg)
<1>1. CASE msg.type = "welcome"
  <2> DEFINE applied == ApplySnapshot(s, msg.decks)
  <2>1. applied \in ClientState
    BY <1>1, MessageFields, ApplySnapshotTyped
  <2>2. t = [applied EXCEPT !.connected = TRUE, !.role = msg.role, !.ownId = msg.clientId,
                            !.lastSeen = msg.serverSeq, !.peers = msg.peers]
    BY <1>1 DEF AfterFrame, HandleWelcome
  <2> HIDE DEF applied, t
  <2>3. t.connected = TRUE /\ t.role = msg.role /\ t.ownId = msg.clientId /\ t.peers = msg.peers
    BY <2>1, <2>2 DEF ClientState
  <2> QED
    BY <1>1, <2>3 DEF Roster, SaysNothing, t
<1>2. CASE msg.type = "snapshot"
  <2>1. t = [[s EXCEPT !.local = [d \in Deck |-> IF msg.decks[d] = NoDeck THEN s.local[d]
                                                  ELSE msg.decks[d]]]
               EXCEPT !.lastSeen = msg.serverSeq]
    BY <1>2 DEF AfterFrame, ApplySnapshot
  <2> HIDE DEF t
  <2>2. Roster(t) = Roster(s)
    BY <2>1 DEF ClientState, Roster
  <2> QED
    BY <1>2, <2>2 DEF SaysNothing, t
<1>3. CASE msg.type = "delta"
  <2>1. t = [ApplyDelta(s, msg.deck, msg.changes) EXCEPT !.lastSeen = msg.serverSeq]
    BY <1>3 DEF AfterFrame
  <2> HIDE DEF t
  <2>2. Roster(t) = Roster(s)
    BY <2>1 DEF ClientState, Roster, ApplyDelta
  <2> QED
    BY <1>3, <2>2 DEF SaysNothing, t
<1>4. CASE msg.type = "roleChanged"
  <2>1. t = IF msg.clientId = s.ownId THEN [s EXCEPT !.role = msg.role]
            ELSE [s EXCEPT !.peers = SameRole(s.peers, msg.clientId, msg.role)]
    BY <1>4 DEF AfterFrame, HandleRoleChanged, SameRole
  <2> HIDE DEF t
  <2> QED
    BY <1>4, <2>1 DEF ClientState, Roster, SaysNothing, t
<1>5. CASE msg.type = "peerJoined"
  <2>1. t = [s EXCEPT !.peers = PutPeer(s.peers, [clientId |-> msg.clientId, role |-> msg.role])]
    BY <1>5 DEF AfterFrame, ClientState
  <2> HIDE DEF t
  <2> QED
    BY <1>5, <2>1 DEF ClientState, Roster, SaysNothing, t
<1>6. CASE msg.type = "peerLeft"
  <2>1. t = [s EXCEPT !.peers = DropPeer(s.peers, msg.clientId)]
    BY <1>6 DEF AfterFrame, ClientState
  <2> HIDE DEF t
  <2> QED
    BY <1>6, <2>1 DEF ClientState, Roster, SaysNothing, t
<1>7. CASE msg.type = "error"
  BY <1>7 DEF AfterFrame, Quiet
<1> QED
  BY <1>1, <1>2, <1>3, <1>4, <1>5, <1>6, <1>7, MessageFields

(* What a client comes to know does not depend on its decks. *)
LEMMA RosterAfterWelcome ==
    ASSUME NEW s \in ClientState, NEW msg \in ServerMessage, msg.type = "welcome"
    PROVE  Roster(AfterFrame(s, msg)) = <<TRUE, msg.role, msg.clientId, msg.peers>>
  BY RosterAfterFrame

LEMMA SameRosterAfterFrame ==
    ASSUME NEW s \in ClientState, NEW t \in ClientState, Roster(s) = Roster(t),
           NEW msg \in ServerMessage
    PROVE  Roster(AfterFrame(s, msg)) = Roster(AfterFrame(t, msg))
<1>1. /\ s.connected = t.connected /\ s.role = t.role
      /\ s.ownId = t.ownId /\ s.peers = t.peers
  BY DEF Roster
<1>2. CASE SaysNothing(msg)
  BY <1>2, RosterAfterFrame
<1>3. CASE msg.type = "welcome"
  BY <1>3, RosterAfterWelcome
<1>4. CASE msg.type = "roleChanged"
  <2>1. Roster(AfterFrame(s, msg)) = 
            IF msg.clientId = s.ownId
            THEN <<s.connected, msg.role, s.ownId, s.peers>>
            ELSE <<s.connected, s.role, s.ownId,
                   SameRole(s.peers, msg.clientId, msg.role)>>
    BY <1>4, RosterAfterFrame
  <2>2. Roster(AfterFrame(t, msg)) = 
            IF msg.clientId = t.ownId
            THEN <<t.connected, msg.role, t.ownId, t.peers>>
            ELSE <<t.connected, t.role, t.ownId,
                   SameRole(t.peers, msg.clientId, msg.role)>>
    BY <1>4, RosterAfterFrame
  <2> QED
    BY <1>1, <2>1, <2>2
<1>5. CASE msg.type = "peerJoined"
  <2>1. Roster(AfterFrame(s, msg)) = 
            <<s.connected, s.role, s.ownId,
              PutPeer(s.peers, [clientId |-> msg.clientId, role |-> msg.role])>>
    BY <1>5, RosterAfterFrame
  <2>2. Roster(AfterFrame(t, msg)) = 
            <<t.connected, t.role, t.ownId,
              PutPeer(t.peers, [clientId |-> msg.clientId, role |-> msg.role])>>
    BY <1>5, RosterAfterFrame
  <2> QED
    BY <1>1, <2>1, <2>2
<1>6. CASE msg.type = "peerLeft"
  <2>1. Roster(AfterFrame(s, msg)) = 
            <<s.connected, s.role, s.ownId, DropPeer(s.peers, msg.clientId)>>
    BY <1>6, RosterAfterFrame
  <2>2. Roster(AfterFrame(t, msg)) = 
            <<t.connected, t.role, t.ownId, DropPeer(t.peers, msg.clientId)>>
    BY <1>6, RosterAfterFrame
  <2> QED
    BY <1>1, <2>1, <2>2
<1> QED
  BY <1>2, <1>3, <1>4, <1>5, <1>6, MessageFields DEF SaysNothing

LEMMA ReplaySameRoster ==
    ASSUME NEW s \in ClientState, NEW t \in ClientState, Roster(s) = Roster(t),
           NEW frames \in Seq(ServerMessage)
    PROVE  Roster(Replay(s, frames)) = Roster(Replay(t, frames))
<1> DEFINE n == Len(frames)
<1>1. n \in Nat /\ \A i \in 1 .. n : frames[i] \in ServerMessage
  OBVIOUS
<1>2. PICK f \in [0 .. n -> ClientState] :
        Passes(f, s, frames) /\ Replay(s, frames) = f[n]
  BY ReplayPasses
<1>3. PICK g \in [0 .. n -> ClientState] :
        Passes(g, t, frames) /\ Replay(t, frames) = g[n]
  BY ReplayPasses
<1>4. /\ f[0] = s /\ \A i \in 1 .. n : f[i] = AfterFrame(f[i - 1], frames[i])
      /\ g[0] = t /\ \A i \in 1 .. n : g[i] = AfterFrame(g[i - 1], frames[i])
  <2>1. f[0] = s /\ \A i \in 1 .. n : f[i] = AfterFrame(f[i - 1], frames[i])
    BY <1>1, <1>2 DEF Passes
  <2>2. g[0] = t /\ \A i \in 1 .. n : g[i] = AfterFrame(g[i - 1], frames[i])
    BY <1>1, <1>3 DEF Passes
  <2> QED
    BY <2>1, <2>2
<1> DEFINE S == {i \in 0 .. n : Roster(f[i]) = Roster(g[i])}
<1>5. 0 \in S
  BY <1>1, <1>4
<1>6. ASSUME NEW i \in 0 .. n - 1, i \in S
      PROVE  i + 1 \in S
  <2>1. /\ i + 1 \in 1 .. n /\ i + 1 \in 0 .. n /\ (i + 1) - 1 = i
        /\ Roster(f[i]) = Roster(g[i]) /\ i \in 0 .. n
    BY <1>1, <1>6
  <2>2. f[i + 1] = AfterFrame(f[i], frames[i + 1]) /\ g[i + 1] = AfterFrame(g[i], frames[i + 1])
    BY <1>4, <2>1
  <2> HIDE DEF n
  <2>3. frames[i + 1] \in ServerMessage /\ f[i] \in ClientState /\ g[i] \in ClientState
    BY <1>1, <2>1
  <2>4. Roster(AfterFrame(f[i], frames[i + 1])) = Roster(AfterFrame(g[i], frames[i + 1]))
    BY <2>1, <2>3, SameRosterAfterFrame
  <2> QED
    BY <2>1, <2>2, <2>4
<1>7. 0 .. n \subseteq S
  <2> HIDE DEF S, n
  <2> QED
    BY <1>1, <1>5, <1>6, InductionTo
<1> QED
  BY <1>1, <1>2, <1>3, <1>7

LEMMA ReplayQuiet ==
    ASSUME NEW s \in ClientState, NEW frames \in Seq(ServerMessage),
           \A i \in DOMAIN frames : SaysNothing(frames[i])
    PROVE  Roster(Replay(s, frames)) = Roster(s)
<1> DEFINE n == Len(frames)
<1>1. n \in Nat /\ \A i \in 1 .. n : frames[i] \in ServerMessage /\ SaysNothing(frames[i])
  OBVIOUS
<1>2. PICK f \in [0 .. n -> ClientState] :
        Passes(f, s, frames) /\ Replay(s, frames) = f[n]
  BY ReplayPasses
<1>3. f[0] = s /\ \A i \in 1 .. n : f[i] = AfterFrame(f[i - 1], frames[i])
  BY <1>1, <1>2 DEF Passes
<1> DEFINE S == {i \in 0 .. n : Roster(f[i]) = Roster(s)}
<1>4. 0 \in S
  BY <1>1, <1>3
<1>5. ASSUME NEW i \in 0 .. n - 1, i \in S
      PROVE  i + 1 \in S
  <2>1. /\ i + 1 \in 1 .. n /\ i + 1 \in 0 .. n /\ (i + 1) - 1 = i
        /\ Roster(f[i]) = Roster(s) /\ i \in 0 .. n
    BY <1>1, <1>5
  <2>2. f[i + 1] = AfterFrame(f[i], frames[i + 1])
    BY <1>3, <2>1
  <2> HIDE DEF n
  <2>3. Roster(f[i + 1]) = Roster(f[i])
    BY <1>1, <2>1, <2>2, RosterAfterFrame
  <2> QED
    BY <2>1, <2>3
<1>6. 0 .. n \subseteq S
  <2> HIDE DEF S, n
  <2> QED
    BY <1>1, <1>4, <1>5, InductionTo
<1> QED
  BY <1>1, <1>2, <1>6

(* The client at a member's end knows its id, its role, and the others.    *)
Knows(s, id) ==
    /\ s.connected /\ s.ownId = id
    /\ s.role = RoleOf(id)
    /\ s.peers = PeersOf(id)

(* What a call of the room hands to a member brings a client that knew the *)
(* members before the call to know them after it.                          *)
RostersKept ==
    \A c \in Conn : IsMember(c)' =>
        \A s \in ClientState :
            (IsMember(c) => Knows(s, connId[c])) => Knows(Replay(s, sent[c]), connId[c])'

(* One frame, handled. *)
LEMMA ReplayOne ==
    ASSUME NEW s \in ClientState, NEW msg \in ServerMessage
    PROVE  Replay(s, <<msg>>) = AfterFrame(s, msg)
<1>1. <<>> \in Seq(ServerMessage) /\ Append(<<>>, msg) = <<msg>>
  OBVIOUS
<1> QED
  BY <1>1, ReplayNothing, ReplayAppend

(* The registry in a state of the invariant. *)
LEMMA Registry ==
    ASSUME IInv
    PROVE  /\ connId \in [Conn -> ClientId \cup {NoId}] /\ NoId \notin ClientId
           /\ clients \in [ClientId -> Conn \cup {NoConn}] /\ NoConn \notin Conn
           /\ controllerId \in ClientId \cup {NoId}
           /\ controllerId # NoId => controllerId \in Registered(clients)
           /\ \A c \in Conn : IsMember(c) =>
                /\ connId[c] \in ClientId /\ clients[connId[c]] = c
                /\ connId[c] \in Registered(clients) /\ c \in Recipients(clients)
<1>1. /\ connId \in [Conn -> ClientId \cup {NoId}] /\ NoId \notin ClientId
      /\ clients \in [ClientId -> Conn \cup {NoConn}] /\ NoConn \notin Conn
      /\ controllerId \in ClientId \cup {NoId}
      /\ controllerId # NoId => controllerId \in Registered(clients)
  BY RoomAssumption, ProtocolAssumption DEF IInv, TypeOK, ControllerIsMember
<1>2. ASSUME NEW c \in Conn, IsMember(c)
      PROVE  /\ connId[c] \in ClientId /\ clients[connId[c]] = c
             /\ connId[c] \in Registered(clients) /\ c \in Recipients(clients)
  <2>1. connId[c] \in ClientId /\ clients[connId[c]] = c
    BY <1>1, <1>2 DEF IsMember
  <2>2. connId[c] \in Registered(clients)
    BY <1>1, <2>1 DEF Registered
  <2> QED
    BY <2>1, <2>2 DEF Recipients
<1> QED
  BY <1>1, <1>2

(* Nobody joins, leaves or changes role, and nothing is said of it. *)
LEMMA RosterUntouched ==
    ASSUME IInv, IInv', UNCHANGED <<connId, clients, controllerId>>,
           \A x \in Conn : \A i \in DOMAIN sent'[x] : SaysNothing(sent'[x][i])
    PROVE  RostersKept
<1> SUFFICES ASSUME NEW c \in Conn, IsMember(c)', NEW s \in ClientState,
                    IsMember(c) => Knows(s, connId[c])
             PROVE  Knows(Replay(s, sent[c]), connId[c])'
  BY DEF RostersKept
<1>1. Knows(s, connId[c])
  BY DEF IsMember
<1>2. sent'[c] \in Seq(ServerMessage)
  BY DEF IInv, TypeOK
<1>3. Roster(Replay(s, sent'[c])) = Roster(s)
  BY <1>2, ReplayQuiet
<1>4. RoleOf(connId[c])' = RoleOf(connId[c]) /\ PeersOf(connId[c])' = PeersOf(connId[c])
  BY DEF RoleOf, PeersOf, Registered
<1> QED
  BY <1>1, <1>3, <1>4 DEF Knows, Roster

LEMMA RefusalRoster ==
    ASSUME IInv, IInv', NEW c \in Conn, NEW code, Refuse(c, code)
    PROVE  RostersKept
<1>1. \A x \in Conn : sent'[x] = IF x = c THEN <<ErrorMessage(code)>> ELSE <<>>
  BY DEF Refuse, Reply
<1>2. \A x \in Conn : \A i \in DOMAIN sent'[x] : SaysNothing(sent'[x][i])
  BY <1>1 DEF ErrorMessage, SaysNothing
<1> QED
  BY <1>2, RosterUntouched DEF Refuse, roomState

LEMMA SilenceRoster ==
    ASSUME IInv, IInv', sent' = Silence, UNCHANGED <<connId, clients, controllerId>>
    PROVE  RostersKept
<1>1. \A x \in Conn : \A i \in DOMAIN sent'[x] : SaysNothing(sent'[x][i])
  BY DEF Silence
<1> QED
  BY <1>1, RosterUntouched

(* A newcomer is told of everybody, and everybody of the newcomer. *)
LEMMA RegisterRoster ==
    ASSUME IInv, IInv', NEW c \in Conn, connId[c] = NoId, NEW id \in ClientId, Register(c, id)
    PROVE  RostersKept
<1> DEFINE others == Recipients(clients)
           joined == [type |-> "peerJoined", clientId |-> id, role |-> RoleOf(id)]
           peer   == [clientId |-> id, role |-> RoleOf(id)]
<1>1. /\ connId' = [connId EXCEPT ![c] = id] /\ controllerId' = controllerId
      /\ clients' = [clients EXCEPT ![id] = c] /\ clients[id] = NoConn
      /\ sent' = [x \in Conn |-> IF x = c THEN <<Welcome(id)>>
                                 ELSE IF x \in others THEN <<joined>>
                                 ELSE <<>>]
  BY DEF Register, FreeId
<1>2. /\ \A x \in Conn : connId'[x] = IF x = c THEN id ELSE connId[x]
      /\ id \notin Registered(clients)
      /\ Registered(clients') = Registered(clients) \cup {id}
  BY <1>1, Registry DEF Registered
<1>3. \A p : RoleOf(p)' = RoleOf(p)
  BY <1>1 DEF RoleOf
<1> SUFFICES ASSUME NEW x \in Conn, IsMember(x)', NEW s \in ClientState,
                    IsMember(x) => Knows(s, connId[x])
             PROVE  Knows(Replay(s, sent[x]), connId[x])'
  BY DEF RostersKept
<1>4. sent'[x] \in Seq(ServerMessage)
  BY DEF IInv, TypeOK
<1>5. CASE x = c
  <2>1. sent'[x] = <<Welcome(id)>> /\ Welcome(id) \in ServerMessage /\ connId'[x] = id
    <3>1. sent'[x] = <<Welcome(id)>>
      BY <1>1, <1>5
    <3> HIDE DEF Welcome
    <3>2. <<Welcome(id)>>[1] \in ServerMessage
      BY <1>4, <3>1
    <3> QED
      BY <1>2, <1>5, <3>1, <3>2
  <2>2. Roster(AfterFrame(s, Welcome(id))) = <<TRUE, RoleOf(id), id, PeersOf(id)>>
    <3>1. /\ Welcome(id).type = "welcome" /\ Welcome(id).role = RoleOf(id)
          /\ Welcome(id).clientId = id /\ Welcome(id).peers = PeersOf(id)
      BY DEF Welcome
    <3> HIDE DEF Welcome
    <3> QED
      BY <2>1, <3>1, RosterAfterWelcome
  <2>3. PeersOf(id)' = PeersOf(id)
    BY <1>2, <1>3 DEF PeersOf
  <2>4. Replay(s, sent'[x]) = AfterFrame(s, Welcome(id))
    BY <2>1, ReplayOne
  <2> QED
    BY <1>3, <2>1, <2>2, <2>3, <2>4 DEF Knows, Roster
<1>6. CASE x # c
  <2>1. connId'[x] = connId[x]
    BY <1>2, <1>6
  <2>2. /\ connId[x] # id /\ IsMember(x)
    BY <1>1, <1>2, <1>6, <2>1, Registry DEF IsMember
  <2>3. sent'[x] = <<joined>> /\ joined \in ServerMessage
    <3>1. sent'[x] = <<joined>>
      BY <1>1, <1>6, <2>2, Registry
    <3> HIDE DEF joined
    <3>2. <<joined>>[1] \in ServerMessage
      BY <1>4, <3>1
    <3> QED
      BY <3>1, <3>2
  <2>4. Knows(s, connId[x])
    BY <2>2
  <2>5. Roster(AfterFrame(s, joined)) = <<s.connected, s.role, s.ownId, PutPeer(s.peers, peer)>>
    BY <2>3, RosterAfterFrame
  <2>6. PutPeer(PeersOf(connId[x]), peer) = PeersOf(connId[x])'
    BY <1>2, <1>3, <2>1, <2>2 DEF PutPeer, PeersOf
  <2>7. Replay(s, sent'[x]) = AfterFrame(s, joined)
    BY <2>3, ReplayOne
  <2> HIDE DEF joined, peer
  <2> QED
    BY <1>3, <2>1, <2>4, <2>5, <2>6, <2>7 DEF Knows, Roster
<1> QED
  BY <1>5, <1>6

(* A member's role changes, and every member is told. *)
LEMMA RoleRoster ==
    ASSUME IInv, IInv', NEW id \in ClientId, NEW role \in Role,
           \A p \in ClientId : RoleOf(p)' = IF p = id THEN role ELSE RoleOf(p),
           sent' = Broadcast(Recipients(clients),
                             [type |-> "roleChanged", clientId |-> id, role |-> role]),
           UNCHANGED <<connId, clients>>
    PROVE  RostersKept
<1> DEFINE msg == [type |-> "roleChanged", clientId |-> id, role |-> role]
<1> SUFFICES ASSUME NEW x \in Conn, IsMember(x)', NEW s \in ClientState,
                    IsMember(x) => Knows(s, connId[x])
             PROVE  Knows(Replay(s, sent[x]), connId[x])'
  BY DEF RostersKept
<1>1. /\ IsMember(x) /\ Knows(s, connId[x]) /\ connId'[x] = connId[x]
      /\ connId[x] \in ClientId /\ x \in Recipients(clients)
  BY Registry DEF IsMember
<1>2. sent'[x] = <<msg>> /\ msg \in ServerMessage
  <2>1. sent'[x] = <<msg>>
    BY <1>1 DEF Broadcast
  <2>2. sent'[x] \in Seq(ServerMessage)
    BY DEF IInv, TypeOK
  <2> HIDE DEF msg
  <2>3. <<msg>>[1] \in ServerMessage
    BY <2>1, <2>2
  <2> QED
    BY <2>1, <2>3
<1>3. Replay(s, sent'[x]) = AfterFrame(s, msg)
  BY <1>2, ReplayOne
<1>4. Roster(AfterFrame(s, msg)) =
        IF id = connId[x] THEN <<s.connected, role, s.ownId, s.peers>>
        ELSE <<s.connected, s.role, s.ownId, SameRole(s.peers, id, role)>>
  <2>1. msg.type = "roleChanged" /\ msg.clientId = id /\ msg.role = role
    OBVIOUS
  <2>2. s.ownId = connId[x]
    BY <1>1 DEF Knows
  <2> HIDE DEF msg
  <2> QED
    BY <1>2, <2>1, <2>2, RosterAfterFrame
<1>5. Registered(clients)' = Registered(clients) /\ Registered(clients) \subseteq ClientId
  BY DEF Registered
<1>6. CASE id = connId[x]
  <2>1. PeersOf(connId[x])' = PeersOf(connId[x])
    BY <1>5, <1>6 DEF PeersOf
  <2>2. RoleOf(connId[x])' = role
    BY <1>1, <1>6
  <2> HIDE DEF msg
  <2> QED
    BY <1>1, <1>3, <1>4, <1>6, <2>1, <2>2 DEF Knows, Roster
<1>7. CASE id # connId[x]
  <2>1. SameRole(PeersOf(connId[x]), id, role) = PeersOf(connId[x])'
    <3> DEFINE others  == Registered(clients) \ {connId[x]}
               entry(p) == [clientId |-> p, role |-> RoleOf(p)]
               after(q) == IF q.clientId = id THEN [q EXCEPT !.role = role] ELSE q
    <3>1. \A p \in others : after(entry(p)) = [clientId |-> p, role |-> RoleOf(p)']
      BY <1>5
    <3>2. PeersOf(connId[x])' = {[clientId |-> p, role |-> RoleOf(p)'] : p \in others}
      BY <1>1, <1>5 DEF PeersOf
    <3>3. SameRole(PeersOf(connId[x]), id, role) = {after(q) : q \in {entry(p) : p \in others}}
      BY DEF SameRole, PeersOf
    <3> HIDE DEF after, entry, others
    <3> QED
      BY <3>1, <3>2, <3>3
  <2>2. RoleOf(connId[x])' = RoleOf(connId[x])
    BY <1>1, <1>7
  <2> HIDE DEF msg
  <2> QED
    BY <1>1, <1>3, <1>4, <1>7, <2>1, <2>2 DEF Knows, Roster
<1> QED
  BY <1>6, <1>7

(* A member leaves, the others are told; control, if it had it, is free. *)
LEMMA LeaveRoster ==
    ASSUME IInv, IInv', NEW c \in Conn, HandleDisconnect(c)
    PROVE  RostersKept
<1>1. CASE ~Evictable(c)
  BY <1>1, SilenceRoster DEF HandleDisconnect
<1>2. CASE Evictable(c)
  <2> DEFINE id   == connId[c]
             left == [clients EXCEPT ![id] = NoConn]
             msg  == [type |-> "peerLeft", clientId |-> id]
  <2>1. /\ clients' = left /\ sent' = Broadcast(Recipients(left), msg)
        /\ controllerId' = ControlAfter(id) /\ connId' = connId
    BY <1>2 DEF HandleDisconnect
  <2>2. id \in ClientId /\ clients[id] = c
    BY <1>2, Registry DEF Evictable
  <2>3. Registered(clients') = Registered(clients) \ {id}
    BY <2>1, <2>2, Registry DEF Registered
  <2>4. \A p \in ClientId \ {id} : RoleOf(p)' = RoleOf(p)
    BY <2>1, Registry DEF RoleOf, ControlAfter
  <2> SUFFICES ASSUME NEW x \in Conn, IsMember(x)', NEW s \in ClientState,
                      IsMember(x) => Knows(s, connId[x])
               PROVE  Knows(Replay(s, sent[x]), connId[x])'
    BY DEF RostersKept
  <2> HIDE DEF left
  <2>5. /\ IsMember(x) /\ Knows(s, connId[x]) /\ connId'[x] = connId[x]
        /\ connId[x] \in ClientId \ {id}
    BY <2>1, <2>2, Registry DEF IsMember, left
  <2>6. x \in Recipients(left)
    <3>1. IInv'
      OBVIOUS
    <3>2. x \in Recipients(clients')
      BY <2>1, <2>2, <2>5, Registry DEF Recipients, Registered, IsMember, left
    <3> QED
      BY <2>1, <3>2
  <2>7. sent'[x] = <<msg>> /\ msg \in ServerMessage
    <3>1. sent'[x] = <<msg>>
      BY <2>1, <2>6 DEF Broadcast
    <3>2. msg \in ServerMessage
      BY <2>2 DEF ServerMessage
    <3> QED
      BY <3>1, <3>2
  <2>8. Replay(s, sent'[x]) = AfterFrame(s, msg)
    BY <2>7, ReplayOne
  <2>9. Roster(AfterFrame(s, msg)) =
          <<s.connected, s.role, s.ownId, DropPeer(s.peers, id)>>
    BY <2>7, RosterAfterFrame
  <2>10. DropPeer(PeersOf(connId[x]), id) = PeersOf(connId[x])'
    <3>1. Registered(clients) \subseteq ClientId
      BY DEF Registered
    <3> HIDE DEF id
    <3> QED
      BY <2>1, <2>3, <2>4, <3>1 DEF DropPeer, PeersOf
  <2> HIDE DEF msg
  <2> QED
    BY <2>4, <2>5, <2>8, <2>9, <2>10 DEF Knows, Roster
<1> QED
  BY <1>1, <1>2

LEMMA MessageRoster ==
    ASSUME IInv, IInv', NEW c \in Conn, NEW msg, HandleMessage(c, msg)
    PROVE  RostersKept
<1>1. CASE connId[c] = NoId /\ HandleHello(c, msg)
  <2>1. CASE CloseHandshake(c)
    BY <2>1, SilenceRoster DEF CloseHandshake
  <2>2. CASE \E id \in ClientId : Register(c, id)
    BY <1>1, <2>2, RegisterRoster
  <2> QED
    BY <1>1, <2>1, <2>2 DEF HandleHello
<1>2. CASE \E code : Refuse(c, code)
  BY <1>2, RefusalRoster
<1>3. ASSUME IsMember(c), controllerId \in {NoId, connId[c]}, NEW role \in Role,
             controllerId' = IF role = "controller" THEN connId[c] ELSE NoId,
             sent' = Broadcast(Recipients(clients),
                               [type |-> "roleChanged", clientId |-> connId[c],
                                role |-> role]),
             UNCHANGED <<connId, clients>>
      PROVE  RostersKept
  <2>1. connId[c] \in ClientId /\ NoId \notin ClientId
    BY <1>3, Registry
  <2>2. \A p \in ClientId : RoleOf(p)' = IF p = connId[c] THEN role ELSE RoleOf(p)
    BY <1>3, <2>1 DEF RoleOf, Role
  <2> QED
    BY <1>3, <2>1, <2>2, RoleRoster
<1>4. CASE HandleClaimControl(c)
  <2>1. CASE \E code : Refuse(c, code)
    BY <1>2, <2>1
  <2>2. CASE IsMember(c) /\ ControlFree
    <3>1. "controller" \in Role
      BY DEF Role
    <3>2. /\ controllerId' = connId[c] /\ UNCHANGED <<connId, clients>>
          /\ sent' = Broadcast(Recipients(clients),
                               [type |-> "roleChanged", clientId |-> connId[c],
                                role |-> "controller"])
          \/ Refuse(c, "bad-message") \/ Refuse(c, "control-taken")
      BY <1>4 DEF HandleClaimControl
    <3> QED
      BY <1>3, <2>1, <2>2, <3>1, <3>2 DEF ControlFree
  <2> QED
    BY <1>4, <2>1, <2>2 DEF HandleClaimControl
<1>5. CASE HandleReleaseControl(c)
  <2>1. CASE \E code : Refuse(c, code)
    BY <1>2, <2>1
  <2>2. CASE IsMember(c) /\ controllerId = connId[c]
    <3>1. "observer" \in Role /\ "observer" # "controller"
      BY DEF Role
    <3>2. /\ controllerId' = NoId /\ UNCHANGED <<connId, clients>>
          /\ sent' = Broadcast(Recipients(clients),
                               [type |-> "roleChanged", clientId |-> connId[c],
                                role |-> "observer"])
          \/ Refuse(c, "bad-message") \/ Refuse(c, "not-controller")
      BY <1>5 DEF HandleReleaseControl
    <3> QED
      BY <1>3, <2>1, <2>2, <3>1, <3>2
  <2> QED
    BY <1>5, <2>1, <2>2 DEF HandleReleaseControl
<1>6. CASE \E d, changes : HandleDelta(c, d, changes)
  <2>1. PICK d, changes : HandleDelta(c, d, changes)
    BY <1>6
  <2>2. CASE \E code : Refuse(c, code)
    BY <1>2, <2>2
  <2>3. CASE sent' = Reply(c, <<ErrorMessage("not-controller"), SnapshotMessage>>)
             /\ UNCHANGED roomState
    <3>1. \A x \in Conn : sent'[x] = IF x = c
                THEN <<ErrorMessage("not-controller"), SnapshotMessage>> ELSE <<>>
      BY <2>3 DEF Reply
    <3>2. \A x \in Conn : \A i \in DOMAIN sent'[x] : SaysNothing(sent'[x][i])
      BY <3>1 DEF ErrorMessage, SnapshotMessage, SaysNothing
    <3> QED
      BY <2>3, <3>2, RosterUntouched DEF roomState
  <2>4. CASE /\ sent' = Broadcast(Recipients(clients) \ {c},
                                  [type |-> "delta", serverSeq |-> serverSeq',
                                   sourceClientId |-> connId[c], deck |-> d,
                                   changes |-> changes])
             /\ UNCHANGED <<connId, clients, controllerId, closed, gone>>
    <3> DEFINE delta == [type |-> "delta", serverSeq |-> serverSeq',
                         sourceClientId |-> connId[c], deck |-> d, changes |-> changes]
    <3>1. SaysNothing(delta)
      BY DEF SaysNothing
    <3>2. \A x \in Conn : sent'[x] = <<delta>> \/ sent'[x] = <<>>
      BY <2>4 DEF Broadcast
    <3> HIDE DEF delta
    <3>3. \A x \in Conn : \A i \in DOMAIN sent'[x] : SaysNothing(sent'[x][i])
      BY <3>1, <3>2
    <3> QED
      BY <2>4, <3>3, RosterUntouched
  <2> QED
    BY <2>1, <2>2, <2>3, <2>4 DEF HandleDelta
<1>7. CASE HandleRequestSnapshot(c)
  <2>1. \A x \in Conn : sent'[x] = IF x = c THEN <<SnapshotMessage>> ELSE <<>>
    BY <1>7 DEF HandleRequestSnapshot, Reply
  <2>2. \A x \in Conn : \A i \in DOMAIN sent'[x] : SaysNothing(sent'[x][i])
    BY <2>1 DEF SnapshotMessage, SaysNothing
  <2> QED
    BY <1>7, <2>2, RosterUntouched DEF HandleRequestSnapshot, roomState
<1> QED
  BY <1>1, <1>2, <1>4, <1>5, <1>6, <1>7 DEF HandleMessage

-----------------------------------------------------------------------------
(* The roster, as an invariant.                                            *)

LEMMA RosterMeans ==
    RosterConverges <=> \A a \in App : Online(a) => Knows(CaughtUp(a), connId[link[a]])
  BY DEF RosterConverges, Knows

LEMMA RosterInit == SyncInit => RosterConverges
  BY DEF SyncInit, RosterConverges, Online

(* A step of the room: what it says is handled after all that was under    *)
(* way.                                                                    *)
LEMMA RosterRoomStep ==
    ASSUME SyncInv, SyncInv', RosterConverges, RostersKept, Transmit, UNCHANGED <<client, link, lost>>
    PROVE  RosterConverges'
<1> SUFFICES ASSUME NEW a \in App, Online(a)'
             PROVE  Knows(CaughtUp(a), connId[link[a]])'
  BY RosterMeans DEF RosterConverges, Knows
<1>0. link[a] \in Conn /\ link[a] # NoConn /\ link'[a] = link[a]
  BY SyncTypes DEF Online
<1>1. PICK c \in Conn :
        /\ c = link[a] /\ c # NoConn /\ IsMember(c)' /\ c \notin lost /\ link'[a] = c
        /\ client'[a] = client[a] /\ client[a] \in ClientState
        /\ toClient[c] \in Seq(ServerMessage) /\ sent'[c] \in Seq(ServerMessage)
  BY <1>0, SyncTypes DEF Online, SyncInv, LinksExact, IInv, TypeOK
<1>2. toClient'[c] = toClient[c] \o sent'[c]
  BY <1>1 DEF Transmit
<1>3. PICK s \in ClientState : s = CaughtUp(a)
  BY <1>1, ReplayTyped DEF CaughtUp
<1>4. CaughtUp(a)' = Replay(s, sent'[c])
  BY <1>1, <1>2, <1>3, ReplayConcat DEF CaughtUp
<1>5. IsMember(c) => Knows(s, connId[c])
  BY <1>1, <1>3, RosterMeans DEF Online
<1>6. Knows(Replay(s, sent[c]), connId[c])'
  BY <1>1, <1>3, <1>5 DEF RostersKept
<1> QED
  BY <1>1, <1>4, <1>6 DEF Knows

(* A step of a client that leaves alone what the others have under way.    *)
LEMMA RosterClientStep ==
    ASSUME SyncInv, SyncInv', RosterConverges, RoomIdle, NEW a \in App,
           \A b \in App : b # a /\ link[b] # NoConn =>
              /\ link'[b] = link[b] /\ client'[b] = client[b]
              /\ toClient'[link[b]] = toClient[link[b]],
           \A b \in App : b # a /\ link[b] = NoConn => link'[b] = NoConn,
           Online(a)' => /\ Online(a) /\ link'[a] = link[a]
                         /\ Roster(CaughtUp(a)') = Roster(CaughtUp(a))
    PROVE  RosterConverges'
<1> SUFFICES ASSUME NEW b \in App, Online(b)'
             PROVE  Knows(CaughtUp(b), connId[link[b]])'
  BY RosterMeans DEF RosterConverges, Knows
<1>1. UNCHANGED <<connId, clients, controllerId>>
  BY DEF RoomIdle, roomState
<1>2. \A id : RoleOf(id)' = RoleOf(id) /\ PeersOf(id)' = PeersOf(id)
  BY <1>1 DEF RoleOf, PeersOf, Registered
<1>3. CASE b = a
  <2>1. Knows(CaughtUp(a), connId[link[a]]) /\ Roster(CaughtUp(a)') = Roster(CaughtUp(a))
        /\ link'[a] = link[a]
    BY <1>3, RosterMeans
  <2> QED
    BY <1>1, <1>2, <1>3, <2>1 DEF Knows, Roster
<1>4. CASE b # a
  <2>1. /\ link[b] # NoConn /\ link'[b] = link[b] /\ client'[b] = client[b]
        /\ toClient'[link[b]] = toClient[link[b]]
    BY <1>4 DEF Online
  <2>2. Online(b) /\ CaughtUp(b)' = CaughtUp(b)
    BY <1>1, <2>1 DEF Online, IsMember, CaughtUp
  <2>3. Knows(CaughtUp(b), connId[link[b]])
    BY <2>2, RosterMeans
  <2> QED
    BY <1>1, <1>2, <2>1, <2>2, <2>3 DEF Knows
<1> QED
  BY <1>3, <1>4

(* A client that changes only its decks. *)
LEMMA RosterLocalStep ==
    ASSUME SyncInv, SyncInv', RosterConverges, RoomIdle, NEW a \in App, NEW s \in ClientState,
           client' = [client EXCEPT ![a] = s], Roster(s) = Roster(client[a]),
           UNCHANGED <<link, toClient>>
    PROVE  RosterConverges'
<1>1. \A b \in App : client'[b] = IF b = a THEN s ELSE client[b]
  BY SyncTypes
<1>2. ASSUME Online(a)'
      PROVE  Online(a) /\ Roster(CaughtUp(a)') = Roster(CaughtUp(a))
  <2>1. Online(a) /\ link[a] \in Conn
    BY <1>2, SyncTypes DEF Online, IsMember, RoomIdle, roomState
  <2>2. toClient[link[a]] \in Seq(ServerMessage) /\ client[a] \in ClientState
    BY <2>1, SyncTypes
  <2>3. CaughtUp(a)' = Replay(s, toClient[link[a]])
    BY <1>1 DEF CaughtUp
  <2> QED
    BY <2>1, <2>2, <2>3, ReplaySameRoster DEF CaughtUp
<1> QED
  BY <1>1, <1>2, RosterClientStep

LEMMA RosterConnect ==
    ASSUME SyncInv, SyncInv', RosterConverges, NEW a \in App, Connect(a)
    PROVE  RosterConverges'
<1>1. PICK c \in fresh : link' = [link EXCEPT ![a] = c]
  BY DEF Connect
<1>2. /\ RoomIdle /\ UNCHANGED toClient
      /\ client' = [client EXCEPT ![a].lastSeen = NoSeq]
  BY DEF Connect
<1>3. \A b \in App : b # a => link'[b] = link[b] /\ client'[b] = client[b]
  BY <1>1, <1>2, SyncTypes
<1>4. ~Online(a)'
  <2>1. link'[a] = c /\ connId'[c] = NoId
    BY <1>1, <1>2, SyncTypes DEF SyncInv, LinksExact, RoomIdle, roomState
  <2> QED
    BY <2>1 DEF Online, IsMember
<1> QED
  BY <1>2, <1>3, <1>4, RosterClientStep

LEMMA RosterLose ==
    ASSUME SyncInv, SyncInv', RosterConverges, NEW a \in App, LoseLink(a)
    PROVE  RosterConverges'
<1>1. /\ link' = [link EXCEPT ![a] = NoConn] /\ RoomIdle
      /\ client' = [client EXCEPT ![a] = AfterConnectionLost(@)]
      /\ toClient' = [toClient EXCEPT ![link[a]] = <<>>] /\ link[a] \in Conn
  BY SyncTypes DEF LoseLink
<1>2. ASSUME NEW b \in App, b # a, link[b] # NoConn
      PROVE  /\ link'[b] = link[b] /\ client'[b] = client[b]
             /\ toClient'[link[b]] = toClient[link[b]]
  <2>1. link[b] # link[a] /\ link[b] \in Conn
    BY <1>2, SyncTypes DEF SyncInv, LinksExact
  <2> QED
    BY <1>1, <1>2, <2>1, SyncTypes
<1>3. ~Online(a)'
  BY <1>1, SyncTypes DEF Online
<1>4. \A b \in App : b # a /\ link[b] = NoConn => link'[b] = NoConn
  BY <1>1, SyncTypes
<1> QED
  BY <1>1, <1>2, <1>3, <1>4, RosterClientStep

LEMMA RosterDeliver ==
    ASSUME SyncInv, SyncInv', RosterConverges, NEW a \in App, Deliver(a)
    PROVE  RosterConverges'
<1> DEFINE c == link[a]
<1>1. /\ c # NoConn /\ c \in Conn /\ toClient[c] # <<>> /\ RoomIdle /\ UNCHANGED link
      /\ client' = [client EXCEPT ![a] = AfterFrame(client[a], Head(toClient[c]))]
      /\ toClient' = [toClient EXCEPT ![c] = Tail(toClient[c])]
      /\ toClient[c] \in Seq(ServerMessage) /\ client[a] \in ClientState
  BY SyncTypes DEF Deliver
<1>2. ASSUME NEW b \in App, b # a, link[b] # NoConn
      PROVE  client'[b] = client[b] /\ toClient'[link[b]] = toClient[link[b]]
  <2>1. link[b] # c /\ link[b] \in Conn
    BY <1>1, <1>2, SyncTypes DEF SyncInv, LinksExact
  <2> QED
    BY <1>1, <1>2, <2>1, SyncTypes
<1>3. Online(a)' => Online(a)
  BY <1>1 DEF Online, IsMember, RoomIdle, roomState
<1>4. CaughtUp(a)' = CaughtUp(a)
  <2>1. /\ client'[a] = AfterFrame(client[a], Head(toClient[c]))
        /\ toClient'[c] = Tail(toClient[c]) /\ link'[a] = c
    BY <1>1, SyncTypes
  <2>2. CaughtUp(a)' = Replay(AfterFrame(client[a], Head(toClient[c])), Tail(toClient[c]))
    BY <2>1 DEF CaughtUp
  <2> QED
    BY <1>1, <2>2, ReplayHead DEF CaughtUp
<1> QED
  BY <1>1, <1>2, <1>3, <1>4, RosterClientStep

LEMMA RosterUser ==
    ASSUME SyncInv, SyncInv', RosterConverges, NEW a \in App, NEW d \in Deck,
           \/ \E changes \in Changes : UserChange(a, d, changes)
           \/ Flush(a, d)
    PROVE  RosterConverges'
<1>1. client[a] \in ClientState
  BY SyncTypes
<1>2. \A s \in ClientState : Roster(Flushed(s, d)) = Roster(s) /\ Flushed(s, d) \in ClientState
  BY FlushedTyped DEF Flushed, Roster, ClientState
<1>3. ASSUME NEW changes \in Changes, UserChange(a, d, changes)
      PROVE  RosterConverges'
  <2> DEFINE changed == LocalChange(client[a], d, changes)
  <2>1. changed \in ClientState /\ Roster(changed) = Roster(client[a])
    BY <1>1, LocalChangeTyped DEF LocalChange, ApplyDelta, Roster, ClientState
  <2>2. /\ RoomIdle /\ UNCHANGED <<link, toClient>>
        /\ \/ client' = [client EXCEPT ![a] = changed]
           \/ client' = [client EXCEPT ![a] = Flushed(changed, d)]
    BY <1>3 DEF UserChange
  <2> HIDE DEF changed
  <2> QED
    BY <1>2, <2>1, <2>2, RosterLocalStep
<1>4. CASE Flush(a, d)
  <2>1. /\ client' = [client EXCEPT ![a] = Flushed(client[a], d)]
        /\ RoomIdle /\ UNCHANGED <<link, toClient>>
    BY <1>4, SyncTypes DEF Flush
  <2> QED
    BY <1>1, <1>2, <2>1, RosterLocalStep
<1> QED
  BY <1>3, <1>4

LEMMA RosterStep == SyncInv /\ SyncInv' /\ RosterConverges /\ [SyncNext]_allVars => RosterConverges'
<1> SUFFICES ASSUME SyncInv, SyncInv', RosterConverges, [SyncNext]_allVars
             PROVE  RosterConverges'
  OBVIOUS
<1>1. ASSUME NEW c \in Conn, ServerReceives(c) \/ ServerLoses(c)
      PROVE  RosterConverges'
  <2>1. Transmit /\ UNCHANGED <<client, link, lost>>
        /\ ((\E msg : HandleMessage(c, msg)) \/ HandleDisconnect(c))
    BY <1>1 DEF ServerReceives, ServerLoses
  <2>2. RostersKept
    BY <2>1, MessageRoster, LeaveRoster DEF SyncInv
  <2> QED
    BY <2>1, <2>2, RosterRoomStep
<1>2. ASSUME NEW a \in App, ClientNext(a)
      PROVE  RosterConverges'
  <2>1. CASE Connect(a) \/ LoseLink(a) \/ Deliver(a)
    BY <2>1, RosterConnect, RosterLose, RosterDeliver
  <2>2. CASE ClickClaim(a) \/ ClickRelease(a)
    <3>1. RoomIdle /\ UNCHANGED <<client, link, toClient>> /\ client[a] \in ClientState
          /\ client' = [client EXCEPT ![a] = client[a]]
      BY <2>2, SyncTypes DEF ClickClaim, ClickRelease
    <3> QED
      BY <3>1, RosterLocalStep
  <2>3. ASSUME NEW d \in Deck,
               Flush(a, d) \/ \E ch \in Changes \ {NoChanges} : UserChange(a, d, ch)
        PROVE  RosterConverges'
    BY <2>3, RosterUser
  <2> QED
    BY <1>2, <2>1, <2>2, <2>3 DEF ClientNext
<1>3. CASE UNCHANGED allVars
  BY <1>3 DEF allVars, vars, syncVars, RosterConverges, Online, IsMember, CaughtUp, RoleOf,
              PeersOf, Registered
<1> QED
  BY <1>1, <1>2, <1>3 DEF SyncNext

(* Whatever crosses on the wire, a client that has handled what is under   *)
(* way to it knows its id, its role, and exactly the other members.        *)
THEOREM RostersConverge == SyncSpec => []RosterConverges
<1> QED
  BY RosterInit, RosterStep, SyncInvariant, PTL DEF SyncSpec

(* Caught up, the deck controls are open to the controller alone, or to    *)
(* everybody while nobody has control.                                     *)
THEOREM ControlsFollowControl == SyncSpec => []ControlsOpenToHolder
<1>1. ASSUME SyncInv, RosterConverges
      PROVE  ControlsOpenToHolder
  <2> SUFFICES ASSUME NEW a \in App, Online(a)
               PROVE  CanControlLocally(CaughtUp(a)) <=> controllerId \in {NoId, connId[link[a]]}
    BY DEF ControlsOpenToHolder
  <2> DEFINE id == connId[link[a]]
             s  == CaughtUp(a)
  <2>1. Knows(s, id)
    BY <1>1, RosterMeans
  <2>2. /\ id \in ClientId /\ NoId \notin ClientId
        /\ controllerId # NoId => controllerId \in Registered(clients)
    BY <1>1, Registry, SyncTypes DEF SyncInv, Online
  <2> HIDE DEF s, id
  <2>3. CASE controllerId = id
    BY <2>1, <2>3 DEF Knows, CanControlLocally, RoleOf, s, id
  <2>4. CASE controllerId = NoId
    <3>1. \A p \in PeersOf(id) : p.role # "controller"
      BY <2>2, <2>4 DEF PeersOf, RoleOf, Registered
    <3> QED
      BY <2>1, <2>4, <3>1 DEF Knows, CanControlLocally, AnyPeerControls, s, id
  <2>5. CASE controllerId \notin {NoId, id}
    <3>1. [clientId |-> controllerId, role |-> "controller"] \in PeersOf(id)
      BY <2>2, <2>5 DEF PeersOf, RoleOf
    <3>2. AnyPeerControls(s)
      BY <2>1, <3>1 DEF Knows, AnyPeerControls
    <3>3. s.connected /\ s.role # "controller"
      BY <2>1, <2>5 DEF Knows, RoleOf
    <3> QED
      BY <2>5, <3>2, <3>3 DEF CanControlLocally, s, id
  <2> QED
    BY <2>3, <2>4, <2>5 DEF s, id
<1> QED
  BY <1>1, SyncInvariant, RostersConverge, PTL

-----------------------------------------------------------------------------
(* Control, as it looks from a client's end: what it believes of itself,   *)
(* what it has asked for (up), and what is on its way to it (down), while  *)
(* its id is in control or not (holds).                                    *)

OwnRole(msg, id) == msg.type = "roleChanged" /\ msg.clientId = id

CarriesDecks(msg) == msg.type \in {"welcome", "snapshot", "delta"}

NothingWaits(s) == \A d \in Deck : ~ValidDelta(s.pending[d])

Asks(up, i, type) == i \in DOMAIN up /\ up[i].type = type

(* In control, and it knows: it asked for control before it gave it up.    *)
HoldsIt(s, up, down, id) ==
    /\ s.role = "controller"
    /\ \A i \in DOMAIN down : ~OwnRole(down[i], id) /\ ~CarriesDecks(down[i])
    /\ \A i, j \in DOMAIN up : Asks(up, i, "claimControl") /\ Asks(up, j, "releaseControl") => i < j

(* In control, and about to hear of it: nothing of its own waits to be     *)
(* sent, and no deck comes after the news.                                 *)
WillHear(s, up, down, id) ==
    /\ s.role # "controller"
    /\ NothingWaits(s)
    /\ \A i \in DOMAIN up : ~Asks(up, i, "releaseControl")
    /\ \E i \in DOMAIN down :
          /\ OwnRole(down[i], id) /\ down[i].role = "controller"
          /\ \A j \in DOMAIN down : /\ j # i => ~OwnRole(down[j], id)
                                    /\ j > i => ~CarriesDecks(down[j])

(* Not in control, and it knows: it gave up control before it asked again. *)
Observes(s, up, down, id) ==
    /\ s.role # "controller"
    /\ \A i \in DOMAIN down : ~OwnRole(down[i], id)
    /\ \A i, j \in DOMAIN up : Asks(up, i, "claimControl") /\ Asks(up, j, "releaseControl") => j < i
    /\ (\E i \in DOMAIN up : Asks(up, i, "claimControl")) => NothingWaits(s)

(* No longer in control, and about to hear of it. *)
GaveUp(s, up, down, id) ==
    /\ s.role = "controller"
    /\ \A i \in DOMAIN up : ~Asks(up, i, "claimControl")
    /\ \E i \in DOMAIN down :
          /\ OwnRole(down[i], id) /\ down[i].role = "observer"
          /\ \A j \in DOMAIN down : j # i => ~OwnRole(down[j], id)

Standing(s, up, down, id, holds) ==
    IF holds THEN HoldsIt(s, up, down, id) \/ WillHear(s, up, down, id)
             ELSE Observes(s, up, down, id) \/ GaveUp(s, up, down, id)

(* The frames of two channels one after the other. *)
LEMMA Joined ==
    ASSUME NEW M, NEW q \in Seq(M), NEW new \in Seq(M)
    PROVE  /\ q \o new \in Seq(M) /\ DOMAIN q \subseteq DOMAIN (q \o new)
           /\ \A i \in DOMAIN q : (q \o new)[i] = q[i] /\ i \in Nat /\ i <= Len(q)
           /\ \A i \in DOMAIN (q \o new) : i \in Nat /\ (i \in DOMAIN q \/
                  (i > Len(q) /\ i - Len(q) \in DOMAIN new /\ (q \o new)[i] = new[i - Len(q)]))
           /\ \A i \in DOMAIN new : Len(q) + i \in DOMAIN (q \o new)
                                    /\ (q \o new)[Len(q) + i] = new[i]
  OBVIOUS

(* The frames of a channel but the first. *)
LEMMA Rest ==
    ASSUME NEW M, NEW q \in Seq(M), q # <<>>
    PROVE  /\ Tail(q) \in Seq(M) /\ 1 \in DOMAIN q /\ Head(q) = q[1] /\ Head(q) \in M
           /\ \A i \in DOMAIN Tail(q) : i \in Nat /\ i + 1 \in DOMAIN q /\ Tail(q)[i] = q[i + 1]
           /\ \A i \in DOMAIN q : i \in Nat /\ (i # 1 => i > 1 /\ i - 1 \in DOMAIN Tail(q)
                                                         /\ Tail(q)[i - 1] = q[i])
  OBVIOUS

LEMMA RestIsOf ==
    ASSUME NEW M, NEW q \in Seq(M), q # <<>>, NEW i \in DOMAIN Tail(q)
    PROVE  \E j \in DOMAIN q : Tail(q)[i] = q[j]
  BY Rest

(* More is said to the client, nothing of its own role; nothing of the     *)
(* decks while it is in control.                                           *)
LEMMA StandingTold ==
    ASSUME NEW s, NEW up \in Seq(ClientMessage), NEW down \in Seq(ServerMessage),
           NEW new \in Seq(ServerMessage), NEW id, NEW holds \in BOOLEAN,
           Standing(s, up, down, id, holds),
           \A i \in DOMAIN new : ~OwnRole(new[i], id) /\ (holds => ~CarriesDecks(new[i]))
    PROVE  Standing(s, up, down \o new, id, holds)
<1> DEFINE all == down \o new
<1>1. /\ DOMAIN down \subseteq DOMAIN all
      /\ \A i \in DOMAIN down : all[i] = down[i] /\ i \in Nat /\ i <= Len(down)
      /\ \A i \in DOMAIN all : i \in Nat /\ (i \in DOMAIN down \/
             (i > Len(down) /\ i - Len(down) \in DOMAIN new /\ all[i] = new[i - Len(down)]))
  BY Joined
<1> HIDE DEF all
<1>2. \A i \in DOMAIN all \ DOMAIN down : ~OwnRole(all[i], id) /\ (holds => ~CarriesDecks(all[i]))
  BY <1>1
<1>3. CASE holds /\ HoldsIt(s, up, down, id)
  BY <1>1, <1>2, <1>3 DEF Standing, HoldsIt, all
<1>4. CASE holds /\ WillHear(s, up, down, id)
  <2>1. PICK i \in DOMAIN down :
          /\ OwnRole(down[i], id) /\ down[i].role = "controller"
          /\ \A j \in DOMAIN down : /\ j # i => ~OwnRole(down[j], id)
                                    /\ j > i => ~CarriesDecks(down[j])
    BY <1>4 DEF WillHear
  <2>2. /\ i \in DOMAIN all /\ OwnRole(all[i], id) /\ all[i].role = "controller"
        /\ \A j \in DOMAIN all : /\ j # i => ~OwnRole(all[j], id)
                                 /\ j > i => ~CarriesDecks(all[j])
    BY <1>1, <1>2, <1>4, <2>1
  <2> QED
    BY <1>4, <2>2 DEF Standing, WillHear, all
<1>5. CASE ~holds /\ Observes(s, up, down, id)
  BY <1>1, <1>2, <1>5 DEF Standing, Observes, all
<1>6. CASE ~holds /\ GaveUp(s, up, down, id)
  <2>1. PICK i \in DOMAIN down :
          /\ OwnRole(down[i], id) /\ down[i].role = "observer"
          /\ \A j \in DOMAIN down : j # i => ~OwnRole(down[j], id)
    BY <1>6 DEF GaveUp
  <2>2. /\ i \in DOMAIN all /\ OwnRole(all[i], id) /\ all[i].role = "observer"
        /\ \A j \in DOMAIN all : j # i => ~OwnRole(all[j], id)
    BY <1>1, <1>2, <2>1
  <2> QED
    BY <1>6, <2>2 DEF Standing, GaveUp, all
<1> QED
  BY <1>3, <1>4, <1>5, <1>6 DEF Standing

(* The client sends changes of decks. *)
LEMMA StandingSends ==
    ASSUME NEW s, NEW up \in Seq(ClientMessage), NEW new \in Seq(ClientMessage),
           NEW down, NEW id, NEW holds \in BOOLEAN, Standing(s, up, down, id, holds),
           \A i \in DOMAIN new : new[i].type \notin {"claimControl", "releaseControl"}
    PROVE  Standing(s, up \o new, down, id, holds)
<1> DEFINE all == up \o new
<1>1. \A i \in DOMAIN all : (i \in DOMAIN up /\ all[i] = up[i])
                             \/ all[i].type \notin {"claimControl", "releaseControl"}
  BY Joined
<1> HIDE DEF all
<1>2. \A i \in DOMAIN all : \A type \in {"claimControl", "releaseControl"} :
          Asks(all, i, type) => i \in DOMAIN up /\ Asks(up, i, type)
  BY <1>1 DEF Asks
<1>3. ASSUME HoldsIt(s, up, down, id) PROVE HoldsIt(s, all, down, id)
  BY <1>2, <1>3 DEF HoldsIt
<1>4. ASSUME WillHear(s, up, down, id) PROVE WillHear(s, all, down, id)
  BY <1>2, <1>4 DEF WillHear
<1>5. ASSUME Observes(s, up, down, id) PROVE Observes(s, all, down, id)
  BY <1>2, <1>5 DEF Observes
<1>6. ASSUME GaveUp(s, up, down, id) PROVE GaveUp(s, all, down, id)
  BY <1>2, <1>6 DEF GaveUp
<1> QED
  BY <1>3, <1>4, <1>5, <1>6 DEF Standing, all

(* The client's first request is read, and changes nothing. *)
LEMMA StandingHeard ==
    ASSUME NEW s, NEW up \in Seq(ClientMessage), up # <<>>,
           NEW down, NEW id, NEW holds \in BOOLEAN, Standing(s, up, down, id, holds)
    PROVE  Standing(s, Tail(up), down, id, holds)
<1> DEFINE rest == Tail(up)
<1>1. \A i \in DOMAIN rest : i \in Nat /\ i + 1 \in DOMAIN up /\ rest[i] = up[i + 1]
  BY Rest
<1> HIDE DEF rest
<1>2. \A i \in DOMAIN rest : \A type : Asks(rest, i, type) => Asks(up, i + 1, type)
  BY <1>1 DEF Asks
<1>3. ASSUME HoldsIt(s, up, down, id) PROVE HoldsIt(s, rest, down, id)
  <2>1. \A i, j \in DOMAIN rest :
            Asks(rest, i, "claimControl") /\ Asks(rest, j, "releaseControl") => i + 1 < j + 1
    BY <1>1, <1>2, <1>3 DEF HoldsIt
  <2>2. \A i, j \in DOMAIN rest : i + 1 < j + 1 => i < j
    BY <1>1
  <2> QED
    BY <1>3, <2>1, <2>2 DEF HoldsIt
<1>4. ASSUME WillHear(s, up, down, id) PROVE WillHear(s, rest, down, id)
  BY <1>1, <1>2, <1>4 DEF WillHear
<1>5. ASSUME Observes(s, up, down, id) PROVE Observes(s, rest, down, id)
  <2>1. \A i, j \in DOMAIN rest :
            Asks(rest, i, "claimControl") /\ Asks(rest, j, "releaseControl") => j + 1 < i + 1
    BY <1>1, <1>2, <1>5 DEF Observes
  <2>2. \A i, j \in DOMAIN rest : j + 1 < i + 1 => j < i
    BY <1>1
  <2>3. (\E i \in DOMAIN rest : Asks(rest, i, "claimControl")) => NothingWaits(s)
    BY <1>1, <1>2, <1>5 DEF Observes
  <2> QED
    BY <1>5, <2>1, <2>2, <2>3 DEF Observes
<1>6. ASSUME GaveUp(s, up, down, id) PROVE GaveUp(s, rest, down, id)
  BY <1>1, <1>2, <1>6 DEF GaveUp
<1> QED
  BY <1>3, <1>4, <1>5, <1>6 DEF Standing, rest

(* A claim is granted: the client did not hold control, nor wait to hear   *)
(* that it lost it, and whatever it gave up before is behind.              *)
LEMMA StandingGranted ==
    ASSUME NEW s, NEW up \in Seq(ClientMessage), up # <<>>, Head(up).type = "claimControl",
           NEW down \in Seq(ServerMessage), NEW id, NEW msg \in ServerMessage,
           OwnRole(msg, id), msg.role = "controller",
           Standing(s, up, down, id, FALSE)
    PROVE  Standing(s, Tail(up), down \o <<msg>>, id, TRUE)
<1> DEFINE rest == Tail(up)
           all  == down \o <<msg>>
           n    == Len(down) + 1
<1>1. /\ 1 \in DOMAIN up /\ up[1].type = "claimControl"
      /\ \A i \in DOMAIN rest : i \in Nat /\ i + 1 \in DOMAIN up /\ rest[i] = up[i + 1]
  BY Rest
<1>2. /\ n \in DOMAIN all /\ all[n] = msg /\ n \in Nat
      /\ \A i \in DOMAIN all : i \in Nat /\ i <= n /\ (i # n => i \in DOMAIN down /\ all[i] = down[i])
  OBVIOUS
<1> HIDE DEF rest, all, n
<1>3. Observes(s, up, down, id)
  BY <1>1 DEF Standing, GaveUp, Asks
<1>4. \A i \in DOMAIN rest : ~Asks(rest, i, "releaseControl")
  <2> SUFFICES ASSUME NEW i \in DOMAIN rest, rest[i].type = "releaseControl"
               PROVE  FALSE
    BY DEF Asks
  <2>1. i + 1 \in DOMAIN up /\ up[i + 1].type = "releaseControl" /\ i \in Nat /\ i > 0
    <3>1. i > 0
      BY Rest DEF rest
    <3> QED
      BY <1>1, <3>1
  <2>2. i + 1 < 1
    BY <1>1, <1>3, <2>1 DEF Observes, Asks
  <2> QED
    BY <2>1, <2>2
<1>5. s.role # "controller" /\ NothingWaits(s)
  BY <1>1, <1>3 DEF Observes, Asks
<1>6. \A j \in DOMAIN all : /\ j # n => ~OwnRole(all[j], id)
                            /\ ~(j > n)
  BY <1>2, <1>3 DEF Observes
<1>7. WillHear(s, rest, all, id)
  BY <1>2, <1>4, <1>5, <1>6 DEF WillHear
<1> QED
  BY <1>7 DEF Standing, rest, all

(* Control is given up: its holder asks for nothing behind that. *)
LEMMA StandingReleased ==
    ASSUME NEW s, NEW up \in Seq(ClientMessage), up # <<>>, Head(up).type = "releaseControl",
           NEW down \in Seq(ServerMessage), NEW id, NEW msg \in ServerMessage,
           OwnRole(msg, id), msg.role = "observer",
           Standing(s, up, down, id, TRUE)
    PROVE  Standing(s, Tail(up), down \o <<msg>>, id, FALSE)
<1> DEFINE rest == Tail(up)
           all  == down \o <<msg>>
           n    == Len(down) + 1
<1>1. /\ 1 \in DOMAIN up /\ up[1].type = "releaseControl"
      /\ \A i \in DOMAIN rest : i \in Nat /\ i > 0 /\ i + 1 \in DOMAIN up /\ rest[i] = up[i + 1]
  BY Rest
<1>2. /\ n \in DOMAIN all /\ all[n] = msg /\ n \in Nat
      /\ \A i \in DOMAIN all : i \in Nat /\ i <= n /\ (i # n => i \in DOMAIN down /\ all[i] = down[i])
  OBVIOUS
<1> HIDE DEF rest, all, n
<1>3. HoldsIt(s, up, down, id)
  BY <1>1 DEF Standing, WillHear, Asks
<1>4. \A i \in DOMAIN rest : ~Asks(rest, i, "claimControl")
  <2> SUFFICES ASSUME NEW i \in DOMAIN rest, rest[i].type = "claimControl"
               PROVE  FALSE
    BY DEF Asks
  <2>1. i + 1 \in DOMAIN up /\ up[i + 1].type = "claimControl" /\ i \in Nat /\ i > 0
    BY <1>1
  <2>2. i + 1 < 1
    BY <1>1, <1>3, <2>1 DEF HoldsIt, Asks
  <2> QED
    BY <2>1, <2>2
<1>5. \A j \in DOMAIN all : j # n => ~OwnRole(all[j], id)
  BY <1>2, <1>3 DEF HoldsIt
<1>6. GaveUp(s, rest, all, id)
  BY <1>2, <1>3, <1>4, <1>5 DEF GaveUp, HoldsIt
<1> QED
  BY <1>6 DEF Standing, rest, all

(* No frame touches what waits to be sent; one that says nothing of the    *)
(* client's role does not change it.                                       *)
LEMMA RoleAfterFrame ==
    ASSUME NEW s \in ClientState, NEW msg \in ServerMessage
    PROVE  /\ AfterFrame(s, msg).pending = s.pending
           /\ msg.type = "roleChanged" /\ msg.clientId = s.ownId =>
                AfterFrame(s, msg).role = msg.role
           /\ msg.type = "roleChanged" /\ msg.clientId # s.ownId =>
                AfterFrame(s, msg).role = s.role
           /\ msg.type = "welcome" => AfterFrame(s, msg).role = msg.role
           /\ msg.type \notin {"roleChanged", "welcome"} => AfterFrame(s, msg).role = s.role
<1> DEFINE t == AfterFrame(s, msg)
<1>1. CASE msg.type = "welcome"
  <2> DEFINE applied == ApplySnapshot(s, msg.decks)
  <2>1. t = [applied EXCEPT !.connected = TRUE, !.role = msg.role, !.ownId = msg.clientId,
                            !.lastSeen = msg.serverSeq, !.peers = msg.peers]
    BY <1>1 DEF AfterFrame, HandleWelcome
  <2>2. applied \in ClientState /\ applied.pending = s.pending
    BY <1>1, MessageFields, ApplySnapshotTyped DEF ApplySnapshot, ClientState
  <2> HIDE DEF t, applied
  <2>3. t.pending = s.pending /\ t.role = msg.role
    BY <2>1, <2>2 DEF ClientState
  <2> QED
    BY <1>1, <2>3 DEF t
<1>2. CASE msg.type = "snapshot"
  BY <1>2 DEF AfterFrame, ApplySnapshot, ClientState
<1>3. CASE msg.type = "delta"
  BY <1>3 DEF AfterFrame, ApplyDelta, ClientState
<1>4. CASE msg.type = "roleChanged"
  BY <1>4 DEF AfterFrame, HandleRoleChanged, ClientState
<1>5. CASE msg.type \in {"peerJoined", "peerLeft", "error"}
  BY <1>5 DEF AfterFrame, ClientState
<1> QED
  BY <1>1, <1>2, <1>3, <1>4, <1>5, MessageFields

(* The client handles the next frame. *)
LEMMA StandingDelivered ==
    ASSUME NEW s \in ClientState, NEW up, NEW down \in Seq(ServerMessage), down # <<>>,
           NEW id, NEW holds \in BOOLEAN, Standing(s, up, down, id, holds),
           Head(down).type = "roleChanged" => s.ownId = id,
           Head(down).type = "welcome" => s.role = "observer" /\ Head(down).role = "observer"
    PROVE  /\ Standing(AfterFrame(s, Head(down)), up, Tail(down), id, holds)
           /\ BecomesController(s, Head(down)) =>
                /\ holds /\ NothingWaits(s)
                /\ \A i \in DOMAIN Tail(down) : ~CarriesDecks(Tail(down)[i])
<1> DEFINE msg  == Head(down)
           rest == Tail(down)
           t    == AfterFrame(s, msg)
<1>1. /\ 1 \in DOMAIN down /\ msg = down[1] /\ msg \in ServerMessage
      /\ \A i \in DOMAIN rest : i \in Nat /\ i > 0 /\ i + 1 \in DOMAIN down /\ rest[i] = down[i + 1]
      /\ \A i \in DOMAIN down : i \in Nat /\ (i # 1 => i > 1 /\ i - 1 \in DOMAIN rest
                                                        /\ rest[i - 1] = down[i])
  BY Rest
<1>2. /\ t.pending = s.pending
      /\ t.role = IF OwnRole(msg, id) THEN msg.role ELSE s.role
  BY <1>1, RoleAfterFrame DEF OwnRole
<1>3. BecomesController(s, msg) => OwnRole(msg, id) /\ msg.role = "controller" /\ s.role # "controller"
  BY DEF BecomesController, OwnRole
<1> HIDE DEF msg, rest, t
<1>4. NothingWaits(t) <=> NothingWaits(s)
  BY <1>2 DEF NothingWaits
<1>5. CASE HoldsIt(s, up, down, id) /\ holds
  <2>1. ~OwnRole(msg, id)
    BY <1>1, <1>5 DEF HoldsIt
  <2>2. HoldsIt(t, up, rest, id)
    BY <1>1, <1>2, <1>5, <2>1 DEF HoldsIt
  <2> QED
    BY <1>3, <1>5, <2>1, <2>2 DEF Standing, msg, rest, t
<1>6. CASE WillHear(s, up, down, id) /\ holds
  <2>1. PICK i \in DOMAIN down :
          /\ OwnRole(down[i], id) /\ down[i].role = "controller"
          /\ \A j \in DOMAIN down : /\ j # i => ~OwnRole(down[j], id)
                                    /\ j > i => ~CarriesDecks(down[j])
    BY <1>6 DEF WillHear
  <2>2. CASE i = 1
    <3>1. t.role = "controller"
      BY <1>1, <1>2, <2>1, <2>2
    <3>2. \A j \in DOMAIN rest : ~OwnRole(rest[j], id) /\ ~CarriesDecks(rest[j])
      <4> TAKE j \in DOMAIN rest
      <4>1. j + 1 \in DOMAIN down /\ j + 1 # i /\ j + 1 > i /\ rest[j] = down[j + 1]
        BY <1>1, <2>2
      <4> QED
        BY <2>1, <4>1
    <3>3. HoldsIt(t, up, rest, id)
      BY <1>6, <3>1, <3>2 DEF HoldsIt, WillHear
    <3> QED
      BY <1>6, <3>2, <3>3 DEF Standing, WillHear, msg, rest, t
  <2>3. CASE i # 1
    <3>1. ~OwnRole(msg, id)
      BY <1>1, <2>1, <2>3
    <3>2. /\ i - 1 \in DOMAIN rest /\ OwnRole(rest[i - 1], id) /\ rest[i - 1].role = "controller"
          /\ \A j \in DOMAIN rest : /\ j # i - 1 => ~OwnRole(rest[j], id)
                                    /\ j > i - 1 => ~CarriesDecks(rest[j])
      <4>1. i - 1 \in DOMAIN rest /\ rest[i - 1] = down[i]
        BY <1>1, <2>3
      <4>2. ASSUME NEW j \in DOMAIN rest
            PROVE  /\ j # i - 1 => ~OwnRole(rest[j], id)
                   /\ j > i - 1 => ~CarriesDecks(rest[j])
        <5>1. j + 1 \in DOMAIN down /\ rest[j] = down[j + 1] /\ j \in Nat /\ i \in Nat
          BY <1>1
        <5>2. (j # i - 1 => j + 1 # i) /\ (j > i - 1 => j + 1 > i)
          BY <5>1
        <5> QED
          BY <2>1, <5>1, <5>2
      <4> QED
        BY <2>1, <4>1, <4>2
    <3>3. WillHear(t, up, rest, id)
      BY <1>2, <1>4, <1>6, <3>1, <3>2 DEF WillHear
    <3> QED
      BY <1>3, <1>6, <3>1, <3>3 DEF Standing, msg, rest, t
  <2> QED
    BY <2>2, <2>3
<1>7. CASE Observes(s, up, down, id) /\ ~holds
  <2>1. ~OwnRole(msg, id)
    BY <1>1, <1>7 DEF Observes
  <2>2. Observes(t, up, rest, id)
    BY <1>1, <1>2, <1>4, <1>7, <2>1 DEF Observes
  <2> QED
    BY <1>3, <1>7, <2>1, <2>2 DEF Standing, msg, rest, t
<1>8. CASE GaveUp(s, up, down, id) /\ ~holds
  <2>1. PICK i \in DOMAIN down :
          /\ OwnRole(down[i], id) /\ down[i].role = "observer"
          /\ \A j \in DOMAIN down : j # i => ~OwnRole(down[j], id)
    BY <1>8 DEF GaveUp
  <2>2. s.role = "controller"
    BY <1>8 DEF GaveUp
  <2>3. CASE i = 1
    <3>1. t.role # "controller"
      BY <1>1, <1>2, <2>1, <2>3
    <3>2. \A j \in DOMAIN rest : ~OwnRole(rest[j], id)
      <4> TAKE j \in DOMAIN rest
      <4>1. j + 1 \in DOMAIN down /\ j + 1 # i /\ rest[j] = down[j + 1]
        BY <1>1, <2>3
      <4> QED
        BY <2>1, <4>1
    <3>3. Observes(t, up, rest, id)
      BY <1>8, <3>1, <3>2 DEF Observes, GaveUp
    <3> QED
      BY <1>3, <1>8, <2>2, <3>3 DEF Standing, msg, rest, t
  <2>4. CASE i # 1
    <3>1. ~OwnRole(msg, id)
      BY <1>1, <2>1, <2>4
    <3>2. /\ i - 1 \in DOMAIN rest /\ OwnRole(rest[i - 1], id) /\ rest[i - 1].role = "observer"
          /\ \A j \in DOMAIN rest : j # i - 1 => ~OwnRole(rest[j], id)
      <4>1. i - 1 \in DOMAIN rest /\ rest[i - 1] = down[i]
        BY <1>1, <2>4
      <4>2. ASSUME NEW j \in DOMAIN rest, j # i - 1
            PROVE  ~OwnRole(rest[j], id)
        <5>1. j + 1 \in DOMAIN down /\ rest[j] = down[j + 1] /\ j + 1 # i
          BY <1>1, <4>2
        <5> QED
          BY <2>1, <5>1
      <4> QED
        BY <2>1, <4>1, <4>2
    <3>3. GaveUp(t, up, rest, id)
      BY <1>2, <1>8, <3>1, <3>2 DEF GaveUp
    <3> QED
      BY <1>3, <1>8, <2>2, <3>3 DEF Standing, msg, rest, t
  <2> QED
    BY <2>3, <2>4
<1> QED
  BY <1>5, <1>6, <1>7, <1>8 DEF Standing

(* The claim button: nothing waits, and what was given up was given up     *)
(* before.                                                                 *)
LEMMA StandingClaims ==
    ASSUME NEW s, s.role # "controller", NothingWaits(s), NEW up \in Seq(ClientMessage),
           NEW down, NEW id, NEW holds \in BOOLEAN, Standing(s, up, down, id, holds)
    PROVE  Standing(s, up \o <<[type |-> "claimControl"]>>, down, id, holds)
<1> DEFINE new == <<[type |-> "claimControl"]>>
           all == up \o new
           n   == Len(up) + 1
<1>1. /\ n \in Nat /\ all[n].type = "claimControl"
      /\ \A i \in DOMAIN all : i \in Nat /\ i <= n /\ (i # n => i \in DOMAIN up /\ all[i] = up[i])
  OBVIOUS
<1> HIDE DEF all, n
<1>2. \A i \in DOMAIN all : Asks(all, i, "releaseControl") =>
          i \in DOMAIN up /\ Asks(up, i, "releaseControl") /\ i < n
  BY <1>1 DEF Asks
<1>3. \A i \in DOMAIN all : Asks(all, i, "claimControl") =>
          i = n \/ (i \in DOMAIN up /\ Asks(up, i, "claimControl"))
  BY <1>1 DEF Asks
<1>4. ASSUME WillHear(s, up, down, id) PROVE WillHear(s, all, down, id)
  BY <1>2, <1>4 DEF WillHear
<1>5. ASSUME Observes(s, up, down, id) PROVE Observes(s, all, down, id)
  BY <1>2, <1>3, <1>5 DEF Observes
<1> QED
  BY <1>4, <1>5 DEF Standing, HoldsIt, GaveUp, all

(* The release button. *)
LEMMA StandingReleases ==
    ASSUME NEW s, s.role = "controller", NEW up \in Seq(ClientMessage),
           NEW down, NEW id, NEW holds \in BOOLEAN, Standing(s, up, down, id, holds)
    PROVE  Standing(s, up \o <<[type |-> "releaseControl"]>>, down, id, holds)
<1> DEFINE new == <<[type |-> "releaseControl"]>>
           all == up \o new
           n   == Len(up) + 1
<1>1. /\ n \in Nat /\ all[n].type = "releaseControl"
      /\ \A i \in DOMAIN all : i \in Nat /\ i <= n /\ (i # n => i \in DOMAIN up /\ all[i] = up[i])
  OBVIOUS
<1> HIDE DEF all, n
<1>2. \A i \in DOMAIN all : Asks(all, i, "claimControl") =>
          i \in DOMAIN up /\ Asks(up, i, "claimControl") /\ i < n
  BY <1>1 DEF Asks
<1>3. \A i \in DOMAIN all : Asks(all, i, "releaseControl") =>
          i = n \/ (i \in DOMAIN up /\ Asks(up, i, "releaseControl"))
  BY <1>1 DEF Asks
<1>4. ASSUME HoldsIt(s, up, down, id) PROVE HoldsIt(s, all, down, id)
  BY <1>2, <1>3, <1>4 DEF HoldsIt
<1>5. ASSUME GaveUp(s, up, down, id) PROVE GaveUp(s, all, down, id)
  BY <1>2, <1>5 DEF GaveUp
<1> QED
  BY <1>4, <1>5 DEF Standing, WillHear, Observes, all

(* The client's state changes, its role and what waits for it do not;      *)
(* while it does not control, nothing begins to wait.                      *)
LEMMA StandingChanges ==
    ASSUME NEW s, NEW t, t.role = s.role, s.role # "controller" /\ NothingWaits(s) => NothingWaits(t),
           NEW up, NEW down, NEW id, NEW holds \in BOOLEAN, Standing(s, up, down, id, holds)
    PROVE  Standing(t, up, down, id, holds)
  BY DEF Standing, HoldsIt, WillHear, Observes, GaveUp

-----------------------------------------------------------------------------
(* What a call of the room says to a member about its own role, and to the *)
(* one in control about the decks.                                         *)

InControl(c) == controllerId = connId[c]

(* Nothing. *)
SaysNoneOfIt(x) ==
    /\ connId'[x] = connId[x] /\ InControl(x)' = InControl(x)
    /\ \A i \in DOMAIN sent'[x] : /\ ~OwnRole(sent'[x][i], connId[x])
                                  /\ sent'[x][i].type # "welcome"
                                  /\ InControl(x) => ~CarriesDecks(sent'[x][i])

(* Its role, and nothing else. *)
TellsRole(x, role) ==
    /\ connId'[x] = connId[x] /\ UNCHANGED decks
    /\ \E msg \in ServerMessage :
          sent'[x] = <<msg>> /\ OwnRole(msg, connId[x]) /\ msg.role = role

Grants(c, msg) ==
    msg.type = "claimControl" /\ ~InControl(c) /\ InControl(c)' /\ TellsRole(c, "controller")

Takes(c, msg) ==
    msg.type = "releaseControl" /\ InControl(c) /\ ~InControl(c)' /\ TellsRole(c, "observer")

(* Members have ids of their own. *)
LEMMA MembersDiffer ==
    ASSUME IInv, NEW x \in Conn, NEW y \in Conn, IsMember(x), IsMember(y), x # y
    PROVE  connId[x] # connId[y]
  BY DEF IsMember

LEMMA RefusalTells ==
    ASSUME IInv, NEW c, NEW code, Refuse(c, code), NEW x \in Conn
    PROVE  SaysNoneOfIt(x)
<1>1. sent'[x] = <<ErrorMessage(code)>> \/ sent'[x] = <<>>
  BY DEF Refuse, Reply
<1>2. ErrorMessage(code).type = "error"
  BY DEF ErrorMessage
<1> QED
  BY <1>1, <1>2 DEF SaysNoneOfIt, OwnRole, CarriesDecks, InControl, Refuse, roomState

LEMMA MessageTells ==
    ASSUME IInv, IInv', NEW c \in Conn, NEW msg, msg.type # "requestSnapshot",
           HandleMessage(c, msg), NEW x \in Conn, IsMember(x)
    PROVE  SaysNoneOfIt(x) \/ (x = c /\ (Grants(c, msg) \/ Takes(c, msg)))
<1>1. /\ connId[x] \in ClientId /\ NoId \notin ClientId /\ x \in Recipients(clients)
      /\ connId[x] \in Registered(clients) /\ clients[connId[x]] = x
      /\ sent'[x] \in Seq(ServerMessage)
  BY Registry DEF IInv, TypeOK
<1>2. CASE \E code : Refuse(c, code)
  BY <1>2, RefusalTells
<1>3. CASE connId[c] = NoId /\ HandleHello(c, msg)
  <2>1. CASE CloseHandshake(c)
    BY <2>1 DEF CloseHandshake, SaysNoneOfIt, Silence, InControl
  <2>2. ASSUME NEW id \in ClientId, Register(c, id)
        PROVE  SaysNoneOfIt(x)
    <3> DEFINE joined == [type |-> "peerJoined", clientId |-> id, role |-> RoleOf(id)]
    <3>1. x # c
      BY <1>1, <1>3
    <3>2. sent'[x] = <<joined>> /\ connId'[x] = connId[x] /\ controllerId' = controllerId
      BY <1>1, <2>2, <3>1, Registry DEF Register
    <3> QED
      BY <3>2 DEF SaysNoneOfIt, OwnRole, CarriesDecks, InControl
  <2> QED
    BY <1>3, <2>1, <2>2 DEF HandleHello
<1>4. ASSUME IsMember(c), NEW role \in Role,
             sent' = Broadcast(Recipients(clients),
                               [type |-> "roleChanged", clientId |-> connId[c], role |-> role]),
             UNCHANGED <<connId, decks>>
      PROVE  /\ x = c => TellsRole(c, role)
             /\ x # c => \A i \in DOMAIN sent'[x] :
                            /\ ~OwnRole(sent'[x][i], connId[x]) /\ sent'[x][i].type # "welcome"
                            /\ ~CarriesDecks(sent'[x][i])
  <2> DEFINE news == [type |-> "roleChanged", clientId |-> connId[c], role |-> role]
  <2>1. sent'[x] = <<news>>
    BY <1>1, <1>4 DEF Broadcast
  <2>2. news \in ServerMessage
    <3> HIDE DEF news
    <3>1. <<news>>[1] \in ServerMessage
      BY <1>1, <2>1
    <3> QED
      BY <3>1
  <2>3. CASE x = c
    BY <1>4, <2>1, <2>2, <2>3 DEF TellsRole, OwnRole
  <2>4. CASE x # c
    <3>1. connId[x] # connId[c]
      BY <1>4, <2>4, MembersDiffer
    <3> QED
      BY <2>1, <2>4, <3>1 DEF OwnRole, CarriesDecks
  <2> QED
    BY <2>3, <2>4
<1>5. CASE msg.type = "claimControl" /\ HandleClaimControl(c)
  <2>1. CASE \E code : Refuse(c, code)
    BY <1>2, <2>1
  <2>2. CASE /\ IsMember(c) /\ ControlFree /\ controllerId' = connId[c]
             /\ sent' = Broadcast(Recipients(clients),
                                  [type |-> "roleChanged", clientId |-> connId[c],
                                   role |-> "controller"])
             /\ UNCHANGED <<connId, clients, decks, serverSeq, closed, gone>>
    <3>1. "controller" \in Role
      BY DEF Role
    <3>2. CASE x = c
      <4>1. TellsRole(c, "controller")
        BY <1>4, <2>2, <3>1, <3>2
      <4> QED
        BY <1>1, <1>5, <2>2, <3>2, <4>1 DEF Grants, InControl, ControlFree
    <3>3. CASE x # c
      <4>1. connId[x] # connId[c]
        BY <2>2, <3>3, MembersDiffer
      <4>2. InControl(x)' = InControl(x) /\ connId'[x] = connId[x]
        BY <1>1, <2>2, <4>1 DEF InControl, ControlFree
      <4> QED
        BY <1>4, <2>2, <3>1, <3>3, <4>2 DEF SaysNoneOfIt
    <3> QED
      BY <3>2, <3>3
  <2> QED
    BY <1>5, <2>1, <2>2 DEF HandleClaimControl
<1>6. CASE msg.type = "releaseControl" /\ HandleReleaseControl(c)
  <2>1. CASE \E code : Refuse(c, code)
    BY <1>2, <2>1
  <2>2. CASE /\ IsMember(c) /\ controllerId = connId[c] /\ controllerId' = NoId
             /\ sent' = Broadcast(Recipients(clients),
                                  [type |-> "roleChanged", clientId |-> connId[c],
                                   role |-> "observer"])
             /\ UNCHANGED <<connId, clients, decks, serverSeq, closed, gone>>
    <3>1. "observer" \in Role
      BY DEF Role
    <3>2. CASE x = c
      <4>1. TellsRole(c, "observer")
        BY <1>4, <2>2, <3>1, <3>2
      <4> QED
        BY <1>1, <1>6, <2>2, <3>2, <4>1 DEF Takes, InControl
    <3>3. CASE x # c
      <4>1. connId[x] # connId[c]
        BY <2>2, <3>3, MembersDiffer
      <4>2. InControl(x)' = InControl(x) /\ connId'[x] = connId[x]
        BY <1>1, <2>2, <4>1 DEF InControl
      <4> QED
        BY <1>4, <2>2, <3>1, <3>3, <4>2 DEF SaysNoneOfIt
    <3> QED
      BY <3>2, <3>3
  <2> QED
    BY <1>6, <2>1, <2>2 DEF HandleReleaseControl
<1>7. CASE connId[c] # NoId /\ msg.type = "delta" /\ HandleDelta(c, msg.deck, msg.changes)
  <2>1. CASE \E code : Refuse(c, code)
    BY <1>2, <2>1
  <2>2. CASE /\ IsMember(c) /\ ~MayWrite(c)
             /\ sent' = Reply(c, <<ErrorMessage("not-controller"), SnapshotMessage>>)
             /\ UNCHANGED roomState
    <3>1. ErrorMessage("not-controller").type = "error" /\ SnapshotMessage.type = "snapshot"
      BY DEF ErrorMessage, SnapshotMessage
    <3>2. sent'[x] = <<>> \/ (x = c /\ sent'[x] = <<ErrorMessage("not-controller"), SnapshotMessage>>)
      BY <2>2 DEF Reply
    <3>3. x = c => ~InControl(x)
      BY <2>2 DEF MayWrite, InControl
    <3> QED
      BY <2>2, <3>1, <3>2, <3>3 DEF SaysNoneOfIt, OwnRole, CarriesDecks, InControl, roomState
  <2>3. CASE /\ IsMember(c) /\ MayWrite(c)
             /\ sent' = Broadcast(Recipients(clients) \ {c},
                                  [type |-> "delta", serverSeq |-> serverSeq',
                                   sourceClientId |-> connId[c], deck |-> msg.deck,
                                   changes |-> msg.changes])
             /\ UNCHANGED <<connId, clients, controllerId, closed, gone>>
    <3> DEFINE delta == [type |-> "delta", serverSeq |-> serverSeq', sourceClientId |-> connId[c],
                         deck |-> msg.deck, changes |-> msg.changes]
    <3>1. delta.type = "delta"
      OBVIOUS
    <3>2. sent'[x] = <<>> \/ (x # c /\ sent'[x] = <<delta>>)
      BY <2>3 DEF Broadcast
    <3>3. x # c => ~InControl(x)
      BY <2>3, MembersDiffer DEF MayWrite, InControl
    <3> HIDE DEF delta
    <3>4. \A i \in DOMAIN sent'[x] : sent'[x][i] = delta /\ ~InControl(x)
      BY <3>2, <3>3
    <3>5. connId'[x] = connId[x] /\ InControl(x)' = InControl(x)
      BY <2>3 DEF InControl
    <3> QED
      BY <3>1, <3>4, <3>5 DEF SaysNoneOfIt, OwnRole
  <2> QED
    BY <1>7, <2>1, <2>2, <2>3 DEF HandleDelta
<1> QED
  BY <1>2, <1>3, <1>5, <1>6, <1>7 DEF HandleMessage

(* A departure says nothing of it to those who stay. *)
LEMMA DisconnectTells ==
    ASSUME IInv, NEW c \in Conn, HandleDisconnect(c), NEW x \in Conn, IsMember(x), x # c
    PROVE  SaysNoneOfIt(x)
<1>1. connId' = connId
  BY DEF HandleDisconnect
<1>2. CASE sent' = Silence /\ UNCHANGED controllerId
  BY <1>1, <1>2 DEF SaysNoneOfIt, Silence, InControl
<1>3. CASE Evictable(c)
  <2> DEFINE gone_ == [type |-> "peerLeft", clientId |-> connId[c]]
  <2>1. sent'[x] = <<>> \/ sent'[x] = <<gone_>>
    BY <1>3 DEF HandleDisconnect, Broadcast
  <2>2. InControl(x)' = InControl(x)
    <3>1. connId[x] # connId[c] /\ connId[x] \in ClientId /\ NoId \notin ClientId
      BY <1>3, MembersDiffer, Registry DEF Evictable, IsMember
    <3>2. controllerId' = ControlAfter(connId[c])
      BY <1>3 DEF HandleDisconnect
    <3> QED
      BY <1>1, <3>1, <3>2 DEF ControlAfter, InControl
  <2> QED
    BY <1>1, <2>1, <2>2 DEF SaysNoneOfIt, OwnRole, CarriesDecks
<1> QED
  BY <1>2, <1>3 DEF HandleDisconnect

(* A newcomer hears its welcome, as an observer, whoever is in control. *)
LEMMA NewcomerTold ==
    ASSUME IInv, IInv', NEW c \in Conn, NEW msg, HandleMessage(c, msg),
           NEW x \in Conn, connId[x] = NoId, connId'[x] # NoId
    PROVE  /\ x = c /\ ~InControl(x)' /\ controllerId' = controllerId
           /\ \E frame \in ServerMessage :
                 /\ sent'[x] = <<frame>> /\ frame.type = "welcome" /\ frame.role = "observer"
                 /\ frame.clientId = connId'[x] /\ frame.decks = decks'
<1>1. x = c
  BY MessageIds
<1>2. PICK id \in ClientId : Register(c, id)
  BY <1>1 DEF HandleMessage, HandleHello, CloseHandshake
<1>3. /\ sent'[x] = <<Welcome(id)>> /\ connId'[x] = id /\ UNCHANGED <<controllerId, decks>>
      /\ clients[id] = NoConn
  BY <1>1, <1>2, Registry DEF Register, FreeId
<1>4. controllerId # id /\ RoleOf(id) = "observer"
  BY <1>2, <1>3, Registry DEF Registered, RoleOf
<1>5. Welcome(id) \in ServerMessage
  <2>1. sent'[x] \in Seq(ServerMessage)
    BY DEF IInv, TypeOK
  <2> HIDE DEF Welcome
  <2>2. <<Welcome(id)>>[1] \in ServerMessage
    BY <1>3, <2>1
  <2> QED
    BY <2>2
<1>6. /\ Welcome(id).type = "welcome" /\ Welcome(id).role = "observer"
      /\ Welcome(id).clientId = id /\ Welcome(id).decks = decks
  BY <1>4 DEF Welcome, SnapshotOf
<1> QED
  BY <1>1, <1>3, <1>4, <1>5, <1>6 DEF InControl

-----------------------------------------------------------------------------
(* Control, as an invariant.                                               *)

(* Every connection is unopened, abandoned, or some client's; the room has *)
(* closed only connections it never registered, and has seen only the end  *)
(* of closed or abandoned ones.                                            *)
ConnsKnown ==
    /\ \A c \in Conn : c \in fresh \cup lost \/ \E a \in App : link[a] = c
    /\ \A c \in closed : connId[c] = NoId
    /\ gone \subseteq lost \cup closed

(* A client is connected once it has handled its welcome, the first frame; *)
(* before, it is an observer that has asked for nothing.                   *)
Greeting(a) ==
    LET s == client[a]
        c == link[a]
    IN  /\ s.connected => c # NoConn
        /\ ~s.connected => s.role = "observer"
        /\ c # NoConn =>
              /\ s.connected <=> s.lastSeen # NoSeq
              /\ s.connected => s.ownId = connId[c] /\ connId[c] # NoId
              /\ ~s.connected => \A i \in DOMAIN toServer[c] :
                    toServer[c][i].type \notin {"claimControl", "releaseControl"}
              /\ \A i \in DOMAIN toClient[c] : toClient[c][i].type = "welcome" =>
                    /\ i = 1 /\ ~s.connected
                    /\ toClient[c][i].role = "observer" /\ toClient[c][i].clientId = connId[c]

StandingOf(a) ==
    link[a] # NoConn /\ connId[link[a]] # NoId =>
        Standing(client[a], toServer[link[a]], toClient[link[a]], connId[link[a]],
                 InControl(link[a]))

ControlInv == ConnsKnown /\ \A a \in App : Greeting(a) /\ StandingOf(a)

LEMMA ControlInit ==
    ASSUME SyncInit
    PROVE  ControlInv
<1>1. \A a \in App : /\ client[a] = StartedClient /\ link[a] = NoConn
  BY DEF SyncInit
<1>2. /\ fresh = Conn /\ closed = {} /\ gone = {}
  BY DEF SyncInit, Init
<1> QED
  BY <1>1, <1>2 DEF ControlInv, ConnsKnown, Greeting, StandingOf, StartedClient

(* A registered connection that its client still uses is a member's. *)
LEMMA LinkMember ==
    ASSUME SyncInv, ConnsKnown, NEW a \in App, link[a] # NoConn, connId[link[a]] # NoId
    PROVE  IsMember(link[a]) /\ link[a] \notin closed /\ link[a] \notin lost /\ link[a] \in Conn
<1>1. link[a] \in Conn /\ link[a] \notin lost
  BY SyncTypes DEF SyncInv, LinksExact
<1>2. link[a] \notin closed /\ link[a] \notin gone
  BY <1>1 DEF ConnsKnown
<1> QED
  BY <1>1, <1>2 DEF SyncInv, IInv, MembershipExact

-----------------------------------------------------------------------------
(* The room's steps.                                                       *)

LEMMA MessageCloses ==
    ASSUME IInv, NEW c \in Conn, NEW msg, HandleMessage(c, msg), \A x \in closed : connId[x] = NoId
    PROVE  gone' = gone /\ \A x \in closed' : connId'[x] = NoId
<1>1. CASE CloseHandshake(c) /\ connId[c] = NoId
  BY <1>1 DEF CloseHandshake
<1>2. CASE \E id \in ClientId : Register(c, id)
  <2>1. connId \in [Conn -> ClientId \cup {NoId}] /\ closed \subseteq Conn
    BY DEF IInv, TypeOK
  <2>2. c \notin closed
    BY DEF HandleMessage
  <2> QED
    BY <1>2, <2>1, <2>2 DEF Register
<1>3. CASE UNCHANGED <<connId, closed, gone>>
  BY <1>3
<1> QED
  BY <1>1, <1>2, <1>3 DEF HandleMessage, HandleHello, Refuse, HandleClaimControl,
              HandleReleaseControl, HandleDelta, HandleRequestSnapshot, roomState

LEMMA ConnsRoom ==
    ASSUME SyncInv, ConnsKnown, NEW c \in Conn, ServerReceives(c) \/ ServerLoses(c)
    PROVE  ConnsKnown'
<1>1. UNCHANGED <<link, fresh, lost>>
  BY DEF ServerReceives, ServerLoses
<1>2. CASE ServerReceives(c)
  <2>1. HandleMessage(c, Head(toServer[c]))
    BY <1>2 DEF ServerReceives
  <2>2. gone' = gone /\ \A x \in closed' : connId'[x] = NoId
    BY <2>1, MessageCloses DEF SyncInv, ConnsKnown
  <2>3. closed \subseteq closed'
    BY <2>1 DEF HandleMessage, HandleHello, CloseHandshake, Register, Refuse, HandleClaimControl,
                HandleReleaseControl, HandleDelta, HandleRequestSnapshot, roomState
  <2> QED
    BY <1>1, <2>2, <2>3 DEF ConnsKnown
<1>3. CASE ServerLoses(c)
  <2>1. c \in lost \cup closed /\ gone' = gone \cup {c} /\ UNCHANGED <<connId, closed>>
    BY <1>3 DEF ServerLoses, HandleDisconnect
  <2> QED
    BY <1>1, <2>1 DEF ConnsKnown
<1> QED
  BY <1>2, <1>3

(* What a call of the room does to the channels of a member. *)
LEMMA RoomMoves ==
    ASSUME SyncInv, SyncInv', ConnsKnown, NEW c \in Conn, ServerReceives(c) \/ ServerLoses(c),
           NEW a \in App, NEW x \in Conn, link[a] = x, connId[x] # NoId
    PROVE  /\ IsMember(x) /\ connId'[x] = connId[x]
           /\ sent'[x] \in Seq(ServerMessage) /\ toClient'[x] = toClient[x] \o sent'[x]
           /\ UNCHANGED <<client, link, lost>>
           /\ \/ toServer'[x] = toServer[x] /\ SaysNoneOfIt(x)
              \/ /\ x = c /\ ServerReceives(c) /\ toServer[x] # <<>>
                 /\ toServer'[x] = Tail(toServer[x])
                 /\ \/ SaysNoneOfIt(x)
                    \/ Grants(x, Head(toServer[x])) \/ Takes(x, Head(toServer[x]))
<1>1. IsMember(x) /\ x \notin closed /\ x \notin lost /\ x \in Conn /\ IInv /\ IInv'
  BY LinkMember, RoomAssumption DEF SyncInv
<1>2. /\ Transmit /\ UNCHANGED <<client, link, lost>>
      /\ sent'[x] \in Seq(ServerMessage)
      /\ toServer \in [Conn -> Seq(ClientMessage)]
  BY <1>1, SyncTypes DEF ServerReceives, ServerLoses, IInv, TypeOK
<1>3. toClient'[x] = toClient[x] \o sent'[x]
  BY <1>1, <1>2 DEF Transmit
<1>4. CASE ServerReceives(c)
  <2> DEFINE msg == Head(toServer[c])
  <2>1. /\ HandleMessage(c, msg) /\ toServer[c] # <<>> /\ msg = toServer[c][1]
        /\ 1 \in DOMAIN toServer[c]
        /\ toServer' = [toServer EXCEPT ![c] = IF c \in closed' THEN <<>> ELSE Tail(toServer[c])]
    BY <1>2, <1>4, Rest DEF ServerReceives
  <2>2. msg.type # "requestSnapshot"
    BY <2>1 DEF SyncInv, NoResyncNeeded
  <2>3. SaysNoneOfIt(x) \/ (x = c /\ (Grants(c, msg) \/ Takes(c, msg)))
    <3> HIDE DEF msg
    <3> QED
      BY <1>1, <2>1, <2>2, MessageTells
  <2>4. x \notin closed'
    <3>1. \A y \in closed' : connId'[y] = NoId
      BY <2>1, MessageCloses DEF SyncInv, ConnsKnown
    <3>2. connId'[x] = connId[x]
      BY <2>3 DEF SaysNoneOfIt, Grants, Takes, TellsRole
    <3> QED
      BY <3>1, <3>2
  <2>5. connId'[x] = connId[x]
    BY <2>3 DEF SaysNoneOfIt, Grants, Takes, TellsRole
  <2>6. CASE x = c
    BY <1>1, <1>2, <1>3, <1>4, <2>1, <2>3, <2>4, <2>5, <2>6
  <2>7. CASE x # c
    BY <1>1, <1>2, <1>3, <2>1, <2>3, <2>5, <2>7
  <2> QED
    BY <2>6, <2>7
<1>5. CASE ServerLoses(c)
  <2>1. /\ HandleDisconnect(c) /\ c \in lost \cup closed
        /\ toServer' = [toServer EXCEPT ![c] = <<>>]
    BY <1>5 DEF ServerLoses
  <2>2. x # c
    BY <1>1, <2>1
  <2>3. SaysNoneOfIt(x)
    BY <1>1, <2>1, <2>2, DisconnectTells
  <2> QED
    BY <1>1, <1>2, <1>3, <2>1, <2>2, <2>3 DEF SaysNoneOfIt
<1> QED
  BY <1>4, <1>5

(* What it does to a client that is not registered yet. *)
LEMMA RoomGreets ==
    ASSUME SyncInv, SyncInv', ConnsKnown, NEW c \in Conn, ServerReceives(c) \/ ServerLoses(c),
           NEW a \in App, NEW x \in Conn, link[a] = x, connId[x] = NoId
    PROVE  /\ UNCHANGED <<client, link>>
           /\ toServer'[x] \in {toServer[x], <<>>} \/ (toServer[x] # <<>> /\ toServer'[x] = Tail(toServer[x]))
           /\ connId'[x] = NoId => toClient'[x] = <<>>
           /\ connId'[x] # NoId =>
                /\ ~InControl(x)' /\ controllerId' = controllerId
                /\ \E frame \in ServerMessage :
                     /\ toClient'[x] = <<frame>> /\ frame.type = "welcome" /\ frame.role = "observer"
                     /\ frame.clientId = connId'[x] /\ frame.decks = decks'
<1>1. /\ x \in Conn /\ x \notin lost /\ toClient[x] = <<>> /\ IInv /\ IInv'
      /\ connId'[x] = NoId => toClient'[x] = <<>>
  <2>1. x \in Conn /\ x \notin lost /\ toClient[x] = <<>>
    BY SyncTypes, RoomAssumption DEF SyncInv, LinksExact
  <2>2. connId'[x] = NoId => toClient'[x] = <<>>
    BY <2>1 DEF SyncInv, LinksExact
  <2> QED
    BY <2>1, <2>2 DEF SyncInv
<1>2. Transmit /\ UNCHANGED <<client, link, lost>>
  BY DEF ServerReceives, ServerLoses
<1>3. toServer'[x] \in {toServer[x], <<>>} \/ (toServer[x] # <<>> /\ toServer'[x] = Tail(toServer[x]))
  BY <1>1, SyncTypes DEF ServerReceives, ServerLoses
<1>4. ASSUME connId'[x] # NoId
      PROVE  /\ ~InControl(x)' /\ controllerId' = controllerId
             /\ \E frame \in ServerMessage :
                  /\ toClient'[x] = <<frame>> /\ frame.type = "welcome" /\ frame.role = "observer"
                  /\ frame.clientId = connId'[x] /\ frame.decks = decks'
  <2>1. ServerReceives(c)
    BY <1>4 DEF ServerLoses, HandleDisconnect
  <2>2. HandleMessage(c, Head(toServer[c]))
    BY <2>1 DEF ServerReceives
  <2>3. /\ ~InControl(x)' /\ controllerId' = controllerId
        /\ \E frame \in ServerMessage :
              /\ sent'[x] = <<frame>> /\ frame.type = "welcome" /\ frame.role = "observer"
              /\ frame.clientId = connId'[x] /\ frame.decks = decks'
    <3> DEFINE msg == Head(toServer[c])
    <3>1. HandleMessage(c, msg) /\ connId[x] = NoId
      BY <2>2
    <3> HIDE DEF msg
    <3> QED
      BY <1>1, <1>4, <3>1, NewcomerTold
  <2>4. toClient'[x] = <<>> \o sent'[x]
    BY <1>1, <1>2 DEF Transmit
  <2> QED
    BY <2>3, <2>4
<1> QED
  BY <1>1, <1>2, <1>3, <1>4

(* What they do to a member's end. *)
LEMMA ControlMember ==
    ASSUME SyncInv, SyncInv', ControlInv, NEW c \in Conn, ServerReceives(c) \/ ServerLoses(c),
           NEW a \in App, NEW x \in Conn, link[a] = x, connId[x] # NoId
    PROVE  (Greeting(a) /\ StandingOf(a))'
<1>1. /\ IsMember(x) /\ connId'[x] = connId[x]
      /\ sent'[x] \in Seq(ServerMessage) /\ toClient'[x] = toClient[x] \o sent'[x]
      /\ UNCHANGED <<client, link, lost>>
      /\ \/ toServer'[x] = toServer[x] /\ SaysNoneOfIt(x)
         \/ /\ toServer[x] # <<>> /\ toServer'[x] = Tail(toServer[x])
            /\ \/ SaysNoneOfIt(x)
               \/ Grants(x, Head(toServer[x])) \/ Takes(x, Head(toServer[x]))
  BY RoomMoves DEF ControlInv
<1>2. PICK s \in ClientState : s = client[a]
  BY SyncTypes
<1>3. PICK up \in Seq(ClientMessage) : up = toServer[x]
  BY SyncTypes
<1>4. PICK down \in Seq(ServerMessage) : down = toClient[x]
  BY SyncTypes
<1>5. PICK new \in Seq(ServerMessage) : new = sent'[x]
  BY <1>1
<1>6. PICK id : id = connId[x]
  OBVIOUS
<1>7. /\ x # NoConn /\ link'[a] = x /\ client'[a] = s /\ toClient'[x] = down \o new
      /\ connId'[x] = id
  BY <1>1, <1>2, <1>4, <1>5, <1>6, RoomAssumption
<1>8. PICK holds \in BOOLEAN : holds = InControl(x)
  BY DEF InControl
<1>9. PICK held \in BOOLEAN : held = InControl(x)'
  BY DEF InControl
<1>10. Standing(s, up, down, id, holds)
  BY <1>2, <1>3, <1>4, <1>6, <1>7, <1>8 DEF ControlInv, StandingOf
<1>11. \A i \in DOMAIN new : new[i].type # "welcome"
  BY <1>1, <1>5 DEF SaysNoneOfIt, Grants, Takes, TellsRole, OwnRole
<1>12. PICK left \in Seq(ClientMessage) :
         /\ left = toServer'[x] /\ (left = up \/ (up # <<>> /\ left = Tail(up)))
  BY <1>1, <1>3, Rest
<1>13. Greeting(a)'
  <2>1. /\ s.connected <=> s.lastSeen # NoSeq
        /\ ~s.connected => s.role = "observer"
        /\ s.connected => s.ownId = id /\ id # NoId
        /\ ~s.connected => \A i \in DOMAIN up :
              up[i].type \notin {"claimControl", "releaseControl"}
        /\ \A i \in DOMAIN down : down[i].type = "welcome" =>
              /\ i = 1 /\ ~s.connected
              /\ down[i].role = "observer" /\ down[i].clientId = id
    <3>1. Greeting(a)
      BY DEF ControlInv
    <3>2. link[a] = x /\ x # NoConn
      BY <1>7
    <3> QED
      BY <1>2, <1>3, <1>4, <1>6, <3>1, <3>2 DEF Greeting
  <2>2. ~s.connected => \A i \in DOMAIN left :
            left[i].type \notin {"claimControl", "releaseControl"}
    <3>1. CASE left = up
      BY <2>1, <3>1
    <3>2. CASE up # <<>> /\ left = Tail(up)
      <4>1. \A i \in DOMAIN left : \E j \in DOMAIN up : left[i] = up[j]
        BY <3>2, RestIsOf
      <4> QED
        BY <2>1, <4>1
    <3> QED
      BY <1>12, <3>1, <3>2
  <2>3. \A i \in DOMAIN (down \o new) : (down \o new)[i].type = "welcome" =>
            /\ i = 1 /\ ~s.connected
            /\ (down \o new)[i].role = "observer" /\ (down \o new)[i].clientId = id
    <3> DEFINE all == down \o new
    <3>1. \A i \in DOMAIN all : (i \in DOMAIN down /\ all[i] = down[i]) \/ all[i].type # "welcome"
      BY <1>11, Joined
    <3> HIDE DEF all
    <3> QED
      BY <2>1, <3>1 DEF all
  <2> QED
    BY <1>7, <1>12, <2>1, <2>2, <2>3 DEF Greeting
<1>14. Standing(s, left, down \o new, id, held)
  <2>1. CASE SaysNoneOfIt(x)
    <3>1. /\ held = holds
          /\ \A i \in DOMAIN new : ~OwnRole(new[i], id) /\ (holds => ~CarriesDecks(new[i]))
      BY <1>5, <1>6, <1>8, <1>9, <2>1 DEF SaysNoneOfIt
    <3>2. Standing(s, left, down, id, holds)
      BY <1>10, <1>12, StandingHeard
    <3> QED
      BY <3>1, <3>2, StandingTold
  <2>2. CASE Grants(x, Head(up)) /\ up # <<>> /\ left = Tail(up)
    <3>1. PICK msg \in ServerMessage : new = <<msg>> /\ OwnRole(msg, id) /\ msg.role = "controller"
      BY <1>5, <1>6, <2>2 DEF Grants, TellsRole
    <3>2. holds = FALSE /\ held = TRUE /\ Head(up).type = "claimControl"
      BY <1>8, <1>9, <2>2 DEF Grants
    <3> QED
      BY <1>10, <2>2, <3>1, <3>2, StandingGranted
  <2>3. CASE Takes(x, Head(up)) /\ up # <<>> /\ left = Tail(up)
    <3>1. PICK msg \in ServerMessage : new = <<msg>> /\ OwnRole(msg, id) /\ msg.role = "observer"
      BY <1>5, <1>6, <2>3 DEF Takes, TellsRole
    <3>2. holds = TRUE /\ held = FALSE /\ Head(up).type = "releaseControl"
      BY <1>8, <1>9, <2>3 DEF Takes
    <3> QED
      BY <1>10, <2>3, <3>1, <3>2, StandingReleased
  <2> QED
    BY <1>1, <1>3, <1>12, <2>1, <2>2, <2>3
<1>15. StandingOf(a)'
  BY <1>7, <1>9, <1>12, <1>14 DEF StandingOf, InControl
<1> QED
  BY <1>13, <1>15

(* The room's steps keep the standings. *)
LEMMA ControlRoom ==
    ASSUME SyncInv, SyncInv', ControlInv, NEW c \in Conn, ServerReceives(c) \/ ServerLoses(c)
    PROVE  ControlInv'
<1>1. ConnsKnown' /\ UNCHANGED <<client, link>>
  BY ConnsRoom DEF ControlInv, ServerReceives, ServerLoses
<1>2. ASSUME NEW a \in App
      PROVE  (Greeting(a) /\ StandingOf(a))'
  <2>1. CASE link[a] = NoConn
    BY <1>1, <2>1 DEF ControlInv, Greeting, StandingOf
  <2>2. CASE link[a] # NoConn
    <3>1. PICK x \in Conn : x = link[a] /\ x # NoConn
      BY <2>2, SyncTypes
    <3>2. PICK s \in ClientState : s = client[a]
      BY SyncTypes
    <3>3. /\ toServer[x] \in Seq(ClientMessage) /\ toClient[x] \in Seq(ServerMessage)
          /\ link'[a] = x /\ client'[a] = s
      BY <1>1, <3>1, <3>2, SyncTypes
    <3>4. /\ ~s.connected => s.role = "observer"
          /\ s.connected <=> s.lastSeen # NoSeq
          /\ s.connected => s.ownId = connId[x] /\ connId[x] # NoId
          /\ ~s.connected => \A i \in DOMAIN toServer[x] :
                toServer[x][i].type \notin {"claimControl", "releaseControl"}
          /\ \A i \in DOMAIN toClient[x] : toClient[x][i].type = "welcome" =>
                /\ i = 1 /\ ~s.connected
                /\ toClient[x][i].role = "observer" /\ toClient[x][i].clientId = connId[x]
      BY <3>1, <3>2 DEF ControlInv, Greeting
    <3>5. CASE connId[x] # NoId
      BY <1>1, <3>1, <3>2, <3>3, <3>4, <3>5, ControlMember
    <3>6. CASE connId[x] = NoId
      <4>1. /\ toServer'[x] \in {toServer[x], <<>>}
                \/ (toServer[x] # <<>> /\ toServer'[x] = Tail(toServer[x]))
            /\ connId'[x] = NoId => toClient'[x] = <<>>
            /\ connId'[x] # NoId =>
                 /\ ~InControl(x)'
                 /\ \E frame \in ServerMessage :
                      /\ toClient'[x] = <<frame>> /\ frame.type = "welcome"
                      /\ frame.role = "observer" /\ frame.clientId = connId'[x]
        BY <3>1, <3>6, RoomGreets DEF ControlInv
      <4>2. ~s.connected /\ s.role = "observer"
        BY <3>4, <3>6
      <4>3. \A i \in DOMAIN toServer'[x] :
                toServer'[x][i].type \notin {"claimControl", "releaseControl"}
        <5>1. \A i \in DOMAIN toServer[x] :
                  toServer[x][i].type \notin {"claimControl", "releaseControl"}
          BY <3>4, <4>2
        <5>2. CASE toServer'[x] \in {toServer[x], <<>>}
          BY <5>1, <5>2
        <5>3. CASE toServer[x] # <<>> /\ toServer'[x] = Tail(toServer[x])
          <6>1. \A i \in DOMAIN toServer'[x] :
                    \E j \in DOMAIN toServer[x] : toServer'[x][i] = toServer[x][j]
            BY <3>3, <5>3, RestIsOf
          <6> QED
            BY <5>1, <6>1
        <5> QED
          BY <4>1, <5>2, <5>3
      <4>4. \A i \in DOMAIN toClient'[x] : /\ toClient'[x][i].type = "welcome" /\ i = 1
                                           /\ toClient'[x][i].role = "observer"
                                           /\ toClient'[x][i].clientId = connId'[x]
        BY <4>1
      <4>5. Greeting(a)'
        BY <3>1, <3>3, <3>4, <4>2, <4>3, <4>4 DEF Greeting
      <4>6. connId'[x] # NoId => Observes(s, toServer'[x], toClient'[x], connId'[x])
        BY <4>2, <4>3, <4>4 DEF Observes, Asks, OwnRole
      <4>7. StandingOf(a)'
        <5>1. connId'[x] # NoId => Standing(s, toServer'[x], toClient'[x], connId'[x], InControl(x)')
          BY <4>1, <4>6 DEF Standing
        <5> QED
          BY <3>3, <5>1 DEF StandingOf, InControl
      <4> QED
        BY <4>5, <4>7
    <3> QED
      BY <3>5, <3>6
  <2> QED
    BY <2>1, <2>2
<1> QED
  BY <1>1, <1>2 DEF ControlInv

-----------------------------------------------------------------------------
(* The clients' steps.                                                     *)

(* Sending, seen from both ends: a member's frames are appended to what is *)
(* under way, and no other channel is touched.                             *)
LEMMA SendAppends ==
    ASSUME SyncInv, ConnsKnown, NEW a \in App, NEW frames \in Seq(ClientMessage), Send(a, frames)
    PROVE  /\ \A y \in Conn : y # link[a] => toServer'[y] = toServer[y]
           /\ \A x \in Conn : x = link[a] =>
                /\ toServer'[x] \in {toServer[x], toServer[x] \o frames}
                /\ connId[x] # NoId => toServer'[x] = toServer[x] \o frames
<1>1. toServer \in [Conn -> Seq(ClientMessage)] /\ NoConn \notin Conn
  BY SyncTypes, RoomAssumption
<1>2. \A x \in Conn : x = link[a] /\ connId[x] # NoId => link[a] \notin closed
  BY <1>1, LinkMember
<1> QED
  BY <1>1, <1>2 DEF Send

(* A client's step is its own: the room rests, and so do the other clients *)
(* and what is under way between them and the room.                        *)
LEMMA Bystanders ==
    ASSUME SyncInv, ConnsKnown, NEW a \in App, ClientNext(a)
    PROVE  /\ RoomIdle /\ UNCHANGED roomState
           /\ \A b \in App : b # a =>
                /\ link'[b] = link[b] /\ client'[b] = client[b]
                /\ \A y \in Conn : y = link[b] =>
                     toServer'[y] = toServer[y] /\ toClient'[y] = toClient[y]
<1>1. /\ client \in [App -> ClientState] /\ link \in [App -> Conn \cup {NoConn}]
      /\ toServer \in [Conn -> Seq(ClientMessage)] /\ toClient \in [Conn -> Seq(ServerMessage)]
      /\ NoConn \notin Conn /\ fresh \subseteq Conn
  BY SyncTypes, RoomAssumption
<1>2. \A b \in App : b # a /\ link[b] # NoConn => link[b] # link[a] /\ link[b] \notin fresh
  BY DEF SyncInv, LinksExact
<1>3. RoomIdle /\ UNCHANGED roomState
  BY DEF ClientNext, Connect, LoseLink, Deliver, ClickClaim, ClickRelease, Flush, UserChange,
         RoomIdle
<1>4. \A frames : Send(a, frames) => \A b \in App : b # a =>
          \A y \in Conn : y = link[b] => toServer'[y] = toServer[y]
  BY <1>1, <1>2 DEF Send
<1>5. CASE Connect(a)
  BY <1>1, <1>2, <1>3, <1>5 DEF Connect
<1>6. CASE LoseLink(a)
  BY <1>1, <1>2, <1>3, <1>6 DEF LoseLink
<1>7. CASE Deliver(a)
  <2>1. PICK frames : Send(a, frames)
    BY <1>7 DEF Deliver
  <2>2. \A b \in App : b # a => /\ link'[b] = link[b] /\ client'[b] = client[b]
                                /\ \A y \in Conn : y = link[b] => toClient'[y] = toClient[y]
    BY <1>1, <1>2, <1>7 DEF Deliver
  <2> QED
    BY <1>3, <1>4, <2>1, <2>2
<1>8. CASE ClickClaim(a) \/ ClickRelease(a)
  <2>1. PICK frames : Send(a, frames)
    BY <1>8 DEF ClickClaim, ClickRelease
  <2> QED
    BY <1>3, <1>4, <1>8, <2>1 DEF ClickClaim, ClickRelease
<1>9. ASSUME NEW d \in Deck, Flush(a, d) \/ \E ch \in Changes \ {NoChanges} : UserChange(a, d, ch)
      PROVE  /\ UNCHANGED <<link, toClient>>
             /\ \A b \in App : b # a => client'[b] = client[b]
             /\ UNCHANGED toServer \/ \E frames : Send(a, frames)
  BY <1>1, <1>9 DEF Flush, UserChange
<1>10. CASE \E d \in Deck : Flush(a, d) \/ \E ch \in Changes \ {NoChanges} : UserChange(a, d, ch)
  BY <1>3, <1>4, <1>9, <1>10
<1> QED
  BY <1>5, <1>6, <1>7, <1>8, <1>10 DEF ClientNext

(* A client that changes only its decks, and may send changes of them. *)
LEMMA ControlLocal ==
    ASSUME SyncInv, ControlInv, NEW a \in App, NEW t \in ClientState,
           client'[a] = t, Roster(t) = Roster(client[a]), t.lastSeen = client[a].lastSeen,
           client[a].role # "controller" /\ NothingWaits(client[a]) => NothingWaits(t),
           UNCHANGED <<link, toClient>>, UNCHANGED roomState,
           NEW new \in Seq(ClientMessage), \A i \in DOMAIN new : new[i].type = "delta",
           UNCHANGED toServer \/ Send(a, new)
    PROVE  (Greeting(a) /\ StandingOf(a))'
<1>1. PICK s \in ClientState : s = client[a]
  BY SyncTypes
<1>2. t.connected = s.connected /\ t.role = s.role /\ t.ownId = s.ownId /\ t.lastSeen = s.lastSeen
  BY <1>1 DEF Roster
<1>3. CASE link[a] = NoConn
  BY <1>1, <1>2, <1>3 DEF ControlInv, Greeting, StandingOf
<1>4. CASE link[a] # NoConn
  <2>1. PICK x \in Conn : x = link[a] /\ x # NoConn
    BY <1>4, SyncTypes
  <2>2. PICK up \in Seq(ClientMessage) : up = toServer[x]
    BY SyncTypes
  <2>3. PICK sends \in Seq(ClientMessage) :
          /\ toServer'[x] = up \o sends
          /\ \A i \in DOMAIN sends : sends[i].type = "delta"
    <3>1. up \o <<>> = up /\ <<>> \in Seq(ClientMessage) /\ DOMAIN <<>> = {}
      BY <2>2
    <3>2. CASE toServer'[x] = up
      BY <3>1, <3>2
    <3>3. CASE toServer'[x] = up \o new
      BY <3>3
    <3>4. toServer'[x] = up \/ toServer'[x] = up \o new
      BY <2>1, <2>2, SendAppends DEF ControlInv
    <3> QED
      BY <3>2, <3>3, <3>4
  <2>4. \A i \in DOMAIN (up \o sends) :
            (i \in DOMAIN up /\ (up \o sends)[i] = up[i]) \/ (up \o sends)[i].type = "delta"
    BY <2>3, Joined
  <2>5. Greeting(a)'
    <3> DEFINE all == up \o sends
    <3> HIDE DEF all
    <3>1. ~s.connected => \A i \in DOMAIN all : all[i].type \notin {"claimControl", "releaseControl"}
      BY <1>1, <2>1, <2>2, <2>4 DEF ControlInv, Greeting, all
    <3> QED
      BY <1>1, <1>2, <2>1, <2>2, <2>3, <3>1 DEF ControlInv, Greeting, all, roomState
  <2>6. StandingOf(a)'
    <3> SUFFICES ASSUME connId[x] # NoId
                 PROVE  Standing(t, up \o sends, toClient[x], connId[x], InControl(x))
      BY <2>1, <2>3 DEF StandingOf, InControl, roomState
    <3>1. PICK holds \in BOOLEAN : holds = InControl(x)
      BY DEF InControl
    <3>2. Standing(s, up, toClient[x], connId[x], holds)
      BY <1>1, <2>1, <2>2, <3>1 DEF ControlInv, StandingOf
    <3>3. Standing(t, up, toClient[x], connId[x], holds)
      BY <1>1, <1>2, <3>2, StandingChanges
    <3> QED
      BY <2>3, <3>1, <3>3, StandingSends
  <2> QED
    BY <2>5, <2>6
<1> QED
  BY <1>3, <1>4

LEMMA ResyncDeltas ==
    ASSUME NEW s \in ClientState
    PROVE  /\ FullResync(s) \in Seq(ClientMessage)
           /\ \A i \in DOMAIN FullResync(s) : FullResync(s)[i].type = "delta"
<1> DEFINE n == Cardinality(Deck)
<1>1. n \in Nat /\ DeckOrder \in [1 .. n -> Deck]
  BY DeckOrderCovers
<1> HIDE DEF n
<1>2. \A d \in Deck : s.local[d] \in Changes
  BY DEF ClientState, DeckState, Changes
<1>3. \A d \in Deck : /\ DeltaFrame(d, s.local[d]) \in ClientMessage
                      /\ DeltaFrame(d, s.local[d]).type = "delta"
  BY <1>2 DEF DeltaFrame, ClientMessage
<1>4. FullResync(s) = [i \in 1 .. n |-> DeltaFrame(DeckOrder[i], s.local[DeckOrder[i]])]
  BY <1>1 DEF FullResync
<1> QED
  BY <1>1, <1>3, <1>4

(* A control on a deck, or the throttle's timer. *)
LEMMA ControlUser ==
    ASSUME SyncInv, ControlInv, NEW a \in App, NEW d \in Deck, UNCHANGED roomState,
           Flush(a, d) \/ \E ch \in Changes \ {NoChanges} : UserChange(a, d, ch)
    PROVE  (Greeting(a) /\ StandingOf(a))'
<1>1. PICK s \in ClientState : s = client[a]
  BY SyncTypes
<1>2. \A t \in ClientState : /\ Flushed(t, d) \in ClientState
                             /\ Roster(Flushed(t, d)) = Roster(t)
                             /\ Flushed(t, d).lastSeen = t.lastSeen
                             /\ NothingWaits(t) => NothingWaits(Flushed(t, d))
  <2> TAKE t \in ClientState
  <2>1. /\ Flushed(t, d).pending = [t.pending EXCEPT ![d] = NoChanges]
        /\ Flushed(t, d).connected = t.connected /\ Flushed(t, d).role = t.role
        /\ Flushed(t, d).ownId = t.ownId /\ Flushed(t, d).peers = t.peers
        /\ t.pending \in [Deck -> Changes]
    BY DEF Flushed, ClientState
  <2>2. ~ValidDelta(NoChanges)
    BY DEF NoChanges, ValidDelta
  <2>3. NothingWaits(t) => NothingWaits(Flushed(t, d))
    BY <2>1, <2>2 DEF NothingWaits
  <2> QED
    BY <2>1, <2>3, FlushedTyped DEF Roster
<1>3. \A changes \in Changes : /\ <<DeltaFrame(d, changes)>> \in Seq(ClientMessage)
                               /\ DeltaFrame(d, changes).type = "delta"
  BY DEF DeltaFrame, ClientMessage
<1>4. UNCHANGED <<link, toClient>>
  BY DEF Flush, UserChange
<1>5. ASSUME NEW t \in ClientState, NEW changes \in Changes, client'[a] \in {t, Flushed(t, d)},
             Roster(t) = Roster(s), t.lastSeen = s.lastSeen,
             s.role # "controller" /\ NothingWaits(s) => NothingWaits(t),
             UNCHANGED toServer \/ Send(a, <<DeltaFrame(d, changes)>>)
      PROVE  (Greeting(a) /\ StandingOf(a))'
  <2>1. PICK u \in ClientState : u = client'[a]
    BY <1>2, <1>5
  <2>2. /\ Roster(u) = Roster(s) /\ u.lastSeen = s.lastSeen
        /\ s.role # "controller" /\ NothingWaits(s) => NothingWaits(u)
    BY <1>2, <1>5, <2>1
  <2>3. PICK frames \in Seq(ClientMessage) :
          /\ frames = <<DeltaFrame(d, changes)>>
          /\ \A i \in DOMAIN frames : frames[i].type = "delta"
    <3> DEFINE all == <<DeltaFrame(d, changes)>>
    <3>1. all \in Seq(ClientMessage) /\ \A i \in DOMAIN all : all[i] = DeltaFrame(d, changes)
      BY <1>3
    <3> QED
      BY <1>3, <3>1
  <2> QED
    BY <1>1, <1>4, <1>5, <2>1, <2>2, <2>3, ControlLocal
<1>6. CASE Flush(a, d)
  <2>1. client'[a] = Flushed(s, d) /\ Send(a, <<DeltaFrame(d, s.pending[d])>>)
    BY <1>1, <1>6, SyncTypes DEF Flush
  <2>2. s.pending[d] \in Changes
    BY DEF ClientState
  <2> QED
    BY <1>5, <2>1, <2>2
<1>7. ASSUME NEW changes \in Changes, UserChange(a, d, changes)
      PROVE  (Greeting(a) /\ StandingOf(a))'
  <2> DEFINE changed == LocalChange(s, d, changes)
  <2>1. changed \in ClientState /\ changed.lastSeen = s.lastSeen
    BY LocalChangeTyped
  <2>2. /\ Roster(changed) = Roster(s)
        /\ s.role # "controller" /\ NothingWaits(s) => NothingWaits(changed)
    BY DEF LocalChange, ApplyDelta, Roster, ClientState, Forwards, NothingWaits
  <2>3. \/ client'[a] = changed /\ UNCHANGED toServer
        \/ client'[a] = Flushed(changed, d) /\ Send(a, <<DeltaFrame(d, changed.pending[d])>>)
    BY <1>1, <1>7, SyncTypes DEF UserChange
  <2>4. changed.pending[d] \in Changes
    BY <2>1 DEF ClientState
  <2> HIDE DEF changed
  <2> QED
    BY <1>5, <2>1, <2>2, <2>3, <2>4
<1> QED
  BY <1>6, <1>7

(* The two buttons. *)
LEMMA ControlClick ==
    ASSUME SyncInv, ControlInv, NEW a \in App, UNCHANGED roomState, ClickClaim(a) \/ ClickRelease(a)
    PROVE  (Greeting(a) /\ StandingOf(a))'
<1>1. PICK s \in ClientState : s = client[a]
  BY SyncTypes
<1>2. s.connected /\ UNCHANGED <<client, link, toClient>>
  BY <1>1 DEF ClickClaim, ClickRelease
<1>3. PICK x \in Conn : x = link[a] /\ x # NoConn /\ connId[x] # NoId
  BY <1>1, <1>2, SyncTypes DEF ControlInv, Greeting
<1>4. PICK up \in Seq(ClientMessage) : up = toServer[x]
  BY SyncTypes
<1>5. PICK holds \in BOOLEAN : holds = InControl(x)
  BY DEF InControl
<1>6. Standing(s, up, toClient[x], connId[x], holds)
  BY <1>1, <1>3, <1>4, <1>5 DEF ControlInv, StandingOf
<1>7. Greeting(a)'
  BY <1>1, <1>2, <1>3 DEF ControlInv, Greeting, roomState
<1>8. \A type \in {"claimControl", "releaseControl"} : <<[type |-> type]>> \in Seq(ClientMessage)
  BY DEF ClientMessage
<1>9. CASE ClickClaim(a)
  <2>1. /\ s.role # "controller" /\ NothingWaits(s)
        /\ Send(a, <<[type |-> "claimControl"]>>)
    BY <1>1, <1>9 DEF ClickClaim, NothingWaits
  <2>2. toServer'[x] = up \o <<[type |-> "claimControl"]>>
    BY <1>3, <1>4, <1>8, <2>1, SendAppends DEF ControlInv
  <2>3. Standing(s, up \o <<[type |-> "claimControl"]>>, toClient[x], connId[x], holds)
    BY <1>6, <2>1, StandingClaims
  <2> QED
    BY <1>1, <1>2, <1>3, <1>5, <1>7, <2>2, <2>3 DEF StandingOf, InControl, roomState
<1>10. CASE ClickRelease(a)
  <2>1. s.role = "controller" /\ Send(a, <<[type |-> "releaseControl"]>>)
    BY <1>1, <1>10 DEF ClickRelease
  <2>2. toServer'[x] = up \o <<[type |-> "releaseControl"]>>
    BY <1>3, <1>4, <1>8, <2>1, SendAppends DEF ControlInv
  <2>3. Standing(s, up \o <<[type |-> "releaseControl"]>>, toClient[x], connId[x], holds)
    BY <1>6, <2>1, StandingReleases
  <2> QED
    BY <1>1, <1>2, <1>3, <1>5, <1>7, <2>2, <2>3 DEF StandingOf, InControl, roomState
<1> QED
  BY <1>9, <1>10

(* A frame is delivered: what is known of it, and what comes of it. *)
LEMMA Delivery ==
    ASSUME SyncInv, ControlInv, NEW a \in App, Deliver(a), NEW x \in Conn, x = link[a]
    PROVE  LET s   == client[a]
               msg == Head(toClient[x])
           IN  /\ connId[x] # NoId /\ IsMember(x) /\ toClient[x] # <<>> /\ msg \in ServerMessage
               /\ client'[a] = AfterFrame(s, msg) /\ toClient'[x] = Tail(toClient[x])
               /\ toServer'[x] = toServer[x] \o (IF BecomesController(s, msg) THEN FullResync(s)
                                                                              ELSE <<>>)
               /\ msg.type = "welcome" => s.role = "observer" /\ msg.role = "observer"
                                          /\ msg.clientId = connId[x] /\ ~s.connected
               /\ msg.type # "welcome" => s.connected /\ s.ownId = connId[x]
               /\ UNCHANGED link /\ UNCHANGED roomState
<1> DEFINE s   == client[a]
           msg == Head(toClient[x])
<1>1. /\ x # NoConn /\ toClient[x] # <<>> /\ client' = [client EXCEPT ![a] = AfterFrame(s, msg)]
      /\ Send(a, Answer(s, msg)) /\ toClient' = [toClient EXCEPT ![x] = Tail(toClient[x])]
      /\ UNCHANGED link /\ UNCHANGED roomState
  BY RoomAssumption DEF Deliver, RoomIdle
<1>2. connId[x] # NoId
  BY <1>1 DEF SyncInv, LinksExact
<1>3. /\ msg \in ServerMessage /\ msg = toClient[x][1] /\ 1 \in DOMAIN toClient[x]
      /\ s \in ClientState
  BY <1>1, SyncTypes
<1>4. client'[a] = AfterFrame(s, msg) /\ toClient'[x] = Tail(toClient[x])
  BY <1>1, SyncTypes
<1>5. IsMember(x)
  BY <1>1, <1>2, LinkMember DEF ControlInv
<1>6. ChannelRises(x, s.lastSeen)
  BY <1>1 DEF SyncInv, ChannelsRise
<1>7. msg.type # "welcome" => s.connected /\ s.ownId = connId[x]
  BY <1>1, <1>3, <1>6 DEF ChannelRises, WelcomeFirst, ControlInv, Greeting
<1>8. msg.type = "welcome" => s.role = "observer" /\ msg.role = "observer"
                              /\ msg.clientId = connId[x] /\ ~s.connected
  BY <1>1, <1>3 DEF ControlInv, Greeting
<1>9. ~OutOfSequence(s, msg)
  <2>1. msg.type = "delta" => s.lastSeen # NoSeq
    BY <1>1, <1>7 DEF ControlInv, Greeting
  <2>2. msg.type = "delta" /\ s.lastSeen # NoSeq => msg.serverSeq > s.lastSeen
    BY <1>3, <1>6 DEF ChannelRises, Rising
  <2> QED
    BY <2>1, <2>2 DEF OutOfSequence
<1>10. Answer(s, msg) = IF BecomesController(s, msg) THEN FullResync(s) ELSE <<>>
  BY <1>9 DEF Answer
<1>11. Answer(s, msg) \in Seq(ClientMessage)
  BY <1>3, <1>9, AnswerTyped
<1>12. toServer'[x] = toServer[x] \o Answer(s, msg)
  <2> HIDE DEF s, msg
  <2> QED
    BY <1>1, <1>2, <1>11, SendAppends DEF ControlInv
<1> QED
  BY <1>1, <1>2, <1>3, <1>4, <1>5, <1>7, <1>8, <1>10, <1>12

LEMMA ControlDeliver ==
    ASSUME SyncInv, ControlInv, NEW a \in App, Deliver(a)
    PROVE  (Greeting(a) /\ StandingOf(a))'
<1>1. PICK x \in Conn : x = link[a] /\ x # NoConn
  BY SyncTypes DEF Deliver
<1>2. PICK s \in ClientState : s = client[a]
  BY SyncTypes
<1>3. PICK up \in Seq(ClientMessage) : up = toServer[x]
  BY SyncTypes
<1>4. PICK down \in Seq(ServerMessage) : down = toClient[x]
  BY SyncTypes
<1>5. PICK id : id = connId[x]
  OBVIOUS
<1>6. PICK holds \in BOOLEAN : holds = InControl(x)
  BY DEF InControl
<1> DEFINE msg == Head(down)
           new == IF BecomesController(s, msg) THEN FullResync(s) ELSE <<>>
           t   == AfterFrame(s, msg)
<1>7. /\ id # NoId /\ down # <<>> /\ msg \in ServerMessage
      /\ client'[a] = t /\ toClient'[x] = Tail(down) /\ toServer'[x] = up \o new
      /\ msg.type = "welcome" => s.role = "observer" /\ msg.role = "observer"
                                 /\ msg.clientId = id /\ ~s.connected
      /\ msg.type # "welcome" => s.connected /\ s.ownId = id
      /\ link'[a] = x /\ UNCHANGED roomState
  BY <1>1, <1>2, <1>3, <1>4, <1>5, Delivery
<1>8. new \in Seq(ClientMessage) /\ \A i \in DOMAIN new : new[i].type = "delta"
  BY ResyncDeltas
<1>9. t \in ClientState /\ t.lastSeen = IF Numbered(msg) THEN msg.serverSeq ELSE s.lastSeen
  BY <1>7, AfterFrameTyped
<1>10. t.connected = TRUE /\ t.ownId = id
  <2>1. /\ msg.type = "welcome" => t.connected = TRUE /\ t.ownId = id
        /\ msg.type # "welcome" => t.connected = s.connected /\ t.ownId = s.ownId
    BY <1>7, RosterAfterFrame, MessageFields DEF Roster, SaysNothing
  <2>2. s.connected => s.connected = TRUE
    BY DEF ClientState
  <2> QED
    BY <1>7, <2>1, <2>2
<1> HIDE DEF t, msg, new
<1>11. Greeting(a)'
  <2>1. t.lastSeen # NoSeq
    <3>1. Numbered(msg) => msg.serverSeq \in Nat
      BY <1>7, MessageFields DEF Numbered
    <3>2. ~Numbered(msg) => s.lastSeen # NoSeq
      BY <1>1, <1>2, <1>7 DEF Numbered, ControlInv, Greeting
    <3> QED
      BY <1>9, <3>1, <3>2 DEF NoSeq
  <2>2. \A i \in DOMAIN Tail(down) : Tail(down)[i].type # "welcome"
    <3> SUFFICES ASSUME NEW i \in DOMAIN Tail(down), Tail(down)[i].type = "welcome"
                 PROVE  FALSE
      OBVIOUS
    <3>1. i \in Nat /\ i + 1 \in DOMAIN down /\ down[i + 1].type = "welcome" /\ i # 0
      <4>1. i # 0
        BY <1>7, Rest
      <4> QED
        BY <1>7, <4>1, Rest
    <3>2. i + 1 = 1
      BY <1>1, <1>4, <3>1 DEF ControlInv, Greeting
    <3> QED
      BY <3>1, <3>2
  <2> QED
    BY <1>1, <1>5, <1>7, <1>10, <2>1, <2>2 DEF Greeting, roomState
<1>12. StandingOf(a)'
  <2>1. Standing(s, up, down, id, holds)
    BY <1>1, <1>2, <1>3, <1>4, <1>5, <1>6, <1>7 DEF ControlInv, StandingOf
  <2>2. Standing(t, up, Tail(down), id, holds)
    BY <1>7, <2>1, StandingDelivered DEF t, msg
  <2>3. Standing(t, up \o new, Tail(down), id, holds)
    BY <1>8, <2>2, StandingSends
  <2> QED
    BY <1>5, <1>6, <1>7, <2>3 DEF StandingOf, InControl, roomState
<1> QED
  BY <1>11, <1>12

LEMMA ControlClient ==
    ASSUME SyncInv, ControlInv, NEW a \in App, ClientNext(a)
    PROVE  (Greeting(a) /\ StandingOf(a))'
<1>1. PICK s \in ClientState : s = client[a]
  BY SyncTypes
<1>2. RoomIdle /\ UNCHANGED roomState
  BY Bystanders DEF ControlInv
<1>3. CASE Connect(a)
  <2>1. PICK c \in Conn :
          /\ c # NoConn /\ link'[a] = c /\ connId'[c] = NoId /\ toClient'[c] = <<>>
          /\ toServer'[c] = <<[type |-> "hello", valid |-> TRUE]>>
    <3>1. PICK c \in fresh :
            /\ link' = [link EXCEPT ![a] = c] /\ UNCHANGED toClient
            /\ toServer' = [toServer EXCEPT ![c] = <<[type |-> "hello", valid |-> TRUE]>>]
      BY <1>3 DEF Connect
    <3>2. c \in Conn /\ c # NoConn
      BY <3>1, SyncTypes, RoomAssumption
    <3>3. connId[c] = NoId /\ toClient[c] = <<>>
      BY <3>1, <3>2 DEF SyncInv, LinksExact
    <3>4. link'[a] = c /\ toServer'[c] = <<[type |-> "hello", valid |-> TRUE]>>
      BY <3>1, <3>2, SyncTypes
    <3> QED
      BY <1>2, <3>1, <3>2, <3>3, <3>4 DEF roomState
  <2>2. link[a] = NoConn /\ client'[a] = [s EXCEPT !.lastSeen = NoSeq]
    BY <1>1, <1>3, SyncTypes DEF Connect
  <2>3. ~s.connected /\ s.role = "observer"
    BY <1>1, <2>2 DEF ControlInv, Greeting
  <2>4. /\ client'[a].lastSeen = NoSeq /\ ~client'[a].connected
        /\ client'[a].role = "observer"
    BY <2>2, <2>3 DEF ClientState
  <2> QED
    BY <2>1, <2>4 DEF Greeting, StandingOf
<1>4. CASE LoseLink(a)
  <2>1. link'[a] = NoConn /\ client'[a] = AfterConnectionLost(s)
    BY <1>1, <1>4, SyncTypes DEF LoseLink
  <2>2. client'[a].connected = FALSE /\ client'[a].role = "observer"
    BY <2>1 DEF AfterConnectionLost, ClientState
  <2> QED
    BY <2>1, <2>2 DEF Greeting, StandingOf
<1>5. CASE Deliver(a)
  BY <1>5, ControlDeliver
<1>6. CASE ClickClaim(a) \/ ClickRelease(a)
  BY <1>2, <1>6, ControlClick
<1>7. ASSUME NEW d \in Deck, Flush(a, d) \/ \E ch \in Changes \ {NoChanges} : UserChange(a, d, ch)
      PROVE  (Greeting(a) /\ StandingOf(a))'
  BY <1>2, <1>7, ControlUser
<1> QED
  BY <1>3, <1>4, <1>5, <1>6, <1>7 DEF ClientNext

LEMMA ControlStep ==
    SyncInv /\ SyncInv' /\ ControlInv /\ [SyncNext]_allVars => ControlInv'
<1> SUFFICES ASSUME SyncInv, SyncInv', ControlInv, [SyncNext]_allVars
             PROVE  ControlInv'
  OBVIOUS
<1>1. ASSUME NEW c \in Conn, ServerReceives(c) \/ ServerLoses(c)
      PROVE  ControlInv'
  BY <1>1, ControlRoom
<1>2. ASSUME NEW a \in App, ClientNext(a)
      PROVE  ControlInv'
  <2>1. UNCHANGED roomState
    BY <1>2, Bystanders DEF ControlInv
  <2>2. ConnsKnown'
    <3>1. /\ \A c \in Conn : c \in fresh \cup lost \/ \E b \in App : link[b] = c
          /\ UNCHANGED <<connId, closed, gone>>
          /\ link \in [App -> Conn \cup {NoConn}]
      BY <2>1, SyncTypes DEF ControlInv, ConnsKnown, roomState
    <3>2. CASE Connect(a)
      <4>1. PICK c \in fresh : link' = [link EXCEPT ![a] = c] /\ fresh' = fresh \ {c} /\ lost' = lost
                               /\ link[a] = NoConn
        BY <3>2 DEF Connect
      <4>2. \A y \in Conn : y \in fresh' \cup lost' \/ \E b \in App : link'[b] = y
        BY <3>1, <4>1, RoomAssumption
      <4> QED
        BY <3>1, <4>1, <4>2 DEF ControlInv, ConnsKnown
    <3>3. CASE LoseLink(a)
      <4>1. link' = [link EXCEPT ![a] = NoConn] /\ fresh' = fresh /\ lost' = lost \cup {link[a]}
        BY <3>3 DEF LoseLink
      <4>2. \A y \in Conn : y \in fresh' \cup lost' \/ \E b \in App : link'[b] = y
        BY <3>1, <4>1
      <4> QED
        BY <3>1, <4>1, <4>2 DEF ControlInv, ConnsKnown
    <3>4. CASE UNCHANGED <<link, fresh, lost>>
      BY <3>1, <3>4 DEF ControlInv, ConnsKnown
    <3> QED
      BY <1>2, <3>2, <3>3, <3>4 DEF ClientNext, Deliver, ClickClaim, ClickRelease, Flush, UserChange
  <2>3. ASSUME NEW b \in App, b # a
        PROVE  (Greeting(b) /\ StandingOf(b))'
    <3>1. /\ link'[b] = link[b] /\ client'[b] = client[b]
          /\ \A y \in Conn : y = link[b] => toServer'[y] = toServer[y] /\ toClient'[y] = toClient[y]
          /\ link[b] # NoConn => link[b] \in Conn
      BY <1>2, <2>3, Bystanders, SyncTypes DEF ControlInv
    <3>2. Greeting(b) /\ StandingOf(b)
      BY DEF ControlInv
    <3> QED
      BY <2>1, <3>1, <3>2 DEF Greeting, StandingOf, InControl, roomState
  <2> QED
    BY <1>2, <2>2, <2>3, ControlClient DEF ControlInv
<1>3. CASE UNCHANGED allVars
  BY <1>3 DEF allVars, vars, syncVars, ControlInv, ConnsKnown, Greeting, StandingOf, InControl
<1> QED
  BY <1>1, <1>2, <1>3 DEF SyncNext

-----------------------------------------------------------------------------
(* One field of one deck, at a client: which frames set it, and to what.   *)

Carries(msg, d, f) == msg.type = "delta" /\ msg.deck = d /\ f \in DOMAIN msg.changes

Sets(msg, d, f) ==
    Carries(msg, d, f) \/ (msg.type \in {"welcome", "snapshot"} /\ msg.decks[d] # NoDeck)

SetTo(msg, d, f) == IF msg.type = "delta" THEN msg.changes[f] ELSE msg.decks[d][f]

LEMMA FieldAfterFrame ==
    ASSUME NEW s \in ClientState, NEW msg \in ServerMessage, NEW d \in Deck, NEW f \in Field
    PROVE  AfterFrame(s, msg).local[d][f] =
               IF Sets(msg, d, f) THEN SetTo(msg, d, f) ELSE s.local[d][f]
<1>1. s.local \in [Deck -> DeckState] /\ s.local[d] \in DeckState
  BY DEF ClientState
<1>2. CASE msg.type \in {"welcome", "snapshot"}
  <2> DEFINE applied == ApplySnapshot(s, msg.decks)
  <2>1. applied.local[d] = IF msg.decks[d] = NoDeck THEN s.local[d] ELSE msg.decks[d]
    BY DEF ApplySnapshot, ClientState
  <2>2. applied \in ClientState
    BY <1>2, MessageFields, ApplySnapshotTyped
  <2> HIDE DEF applied
  <2>3. AfterFrame(s, msg).local = applied.local
    <3>1. CASE msg.type = "welcome"
      <4>1. AfterFrame(s, msg) =
              [applied EXCEPT !.connected = TRUE, !.role = msg.role, !.ownId = msg.clientId,
                              !.lastSeen = msg.serverSeq, !.peers = msg.peers]
        BY <3>1 DEF AfterFrame, HandleWelcome, applied
      <4> QED
        BY <2>2, <4>1 DEF ClientState
    <3>2. CASE msg.type = "snapshot"
      <4>1. AfterFrame(s, msg) = [applied EXCEPT !.lastSeen = msg.serverSeq]
        BY <3>2 DEF AfterFrame, applied
      <4> QED
        BY <2>2, <4>1 DEF ClientState
    <3> QED
      BY <1>2, <3>1, <3>2
  <2> QED
    BY <1>2, <2>1, <2>3 DEF Sets, SetTo, Carries
<1>3. CASE msg.type = "delta"
  <2> DEFINE applied == ApplyDelta(s, msg.deck, msg.changes)
  <2>1. msg.deck \in Deck /\ msg.changes \in Changes
    BY <1>3, MessageFields
  <2>2. applied \in ClientState
    BY <2>1, ApplyDeltaTyped
  <2>3. applied.local = [s.local EXCEPT ![msg.deck] = Merge(s.local[msg.deck], msg.changes)]
    BY <2>1 DEF ApplyDelta, ClientState
  <2> HIDE DEF applied
  <2>4. AfterFrame(s, msg) = [applied EXCEPT !.lastSeen = msg.serverSeq]
    BY <1>3 DEF AfterFrame, applied
  <2>5. AfterFrame(s, msg).local = applied.local
    BY <2>2, <2>4 DEF ClientState
  <2>6. DOMAIN s.local[msg.deck] = Field
    BY <1>1, <2>1 DEF DeckState, ClientState
  <2>7. Merge(s.local[msg.deck], msg.changes)[f]
          = IF f \in DOMAIN msg.changes THEN msg.changes[f] ELSE s.local[msg.deck][f]
    BY <2>6 DEF Merge
  <2> QED
    BY <1>1, <1>3, <2>1, <2>3, <2>5, <2>7 DEF Sets, SetTo, Carries
<1>4. CASE msg.type \in {"roleChanged", "peerJoined", "peerLeft", "error"}
  <2>1. AfterFrame(s, msg).local = s.local
    BY <1>4 DEF AfterFrame, HandleRoleChanged, ClientState
  <2> QED
    BY <1>4, <2>1 DEF Sets, Carries
<1> QED
  BY <1>2, <1>3, <1>4, MessageFields

(* Two clients that agree on a field agree after the same frames, and do so *)
(* as soon as one of the frames sets it.                                    *)
LEMMA ReplayField ==
    ASSUME NEW s \in ClientState, NEW t \in ClientState, NEW frames \in Seq(ServerMessage),
           NEW d \in Deck, NEW f \in Field,
           \/ s.local[d][f] = t.local[d][f]
           \/ \E i \in DOMAIN frames : Sets(frames[i], d, f)
    PROVE  Replay(s, frames).local[d][f] = Replay(t, frames).local[d][f]
<1> DEFINE n == Len(frames)
<1>1. n \in Nat /\ DOMAIN frames = 1 .. n /\ \A i \in 1 .. n : frames[i] \in ServerMessage
  OBVIOUS
<1>2. PICK p \in [0 .. n -> ClientState] :
        Passes(p, s, frames) /\ Replay(s, frames) = p[n]
  BY ReplayPasses
<1>3. PICK q \in [0 .. n -> ClientState] :
        Passes(q, t, frames) /\ Replay(t, frames) = q[n]
  BY ReplayPasses
<1>4. /\ p[0] = s /\ \A i \in 1 .. n : p[i] = AfterFrame(p[i - 1], frames[i])
      /\ q[0] = t /\ \A i \in 1 .. n : q[i] = AfterFrame(q[i - 1], frames[i])
  <2>1. p[0] = s /\ \A i \in 1 .. n : p[i] = AfterFrame(p[i - 1], frames[i])
    BY <1>1, <1>2 DEF Passes
  <2>2. q[0] = t /\ \A i \in 1 .. n : q[i] = AfterFrame(q[i - 1], frames[i])
    BY <1>1, <1>3 DEF Passes
  <2> QED
    BY <2>1, <2>2
<1> DEFINE Same(i) == p[i].local[d][f] = q[i].local[d][f]
           S == {i \in 0 .. n : Same(i) \/ (~Same(0) /\ \A j \in 1 .. i : ~Sets(frames[j], d, f))}
<1>5. 0 \in S
  BY <1>1
<1>6. ASSUME NEW i \in 0 .. n - 1, i \in S
      PROVE  i + 1 \in S
  <2>1. /\ i + 1 \in 1 .. n /\ i + 1 \in 0 .. n /\ (i + 1) - 1 = i /\ i \in 0 .. n
        /\ \A j \in 1 .. i + 1 : j \in 1 .. i \/ j = i + 1
    BY <1>1
  <2>2. p[i + 1] = AfterFrame(p[i], frames[i + 1]) /\ q[i + 1] = AfterFrame(q[i], frames[i + 1])
    BY <1>4, <2>1
  <2>3. frames[i + 1] \in ServerMessage /\ p[i] \in ClientState /\ q[i] \in ClientState
    BY <1>1, <2>1
  <2>4. Sets(frames[i + 1], d, f) \/ Same(i) => Same(i + 1)
    BY <2>2, <2>3, FieldAfterFrame
  <2> HIDE DEF Same
  <2> QED
    BY <1>6, <2>1, <2>4
<1>7. 0 .. n \subseteq S
  <2> HIDE DEF S, n
  <2> QED
    BY <1>1, <1>5, <1>6, InductionTo
<1>8. n \in S
  BY <1>1, <1>7
<1>9. Same(0) \/ \E j \in 1 .. n : Sets(frames[j], d, f)
  BY <1>1, <1>4
<1> QED
  BY <1>1, <1>2, <1>3, <1>8, <1>9

(* The first frames of a channel. *)
First(q, k) == [i \in 1 .. k |-> q[i]]

LEMMA FirstFrames ==
    ASSUME NEW q \in Seq(ServerMessage), NEW k \in 0 .. Len(q)
    PROVE  /\ First(q, k) \in Seq(ServerMessage) /\ Len(First(q, k)) = k
           /\ First(q, 0) = <<>> /\ First(q, Len(q)) = q
  BY DEF First

LEMMA FirstOfMore ==
    ASSUME NEW q \in Seq(ServerMessage), NEW msg \in ServerMessage, NEW k \in 0 .. Len(q)
    PROVE  First(Append(q, msg), k) = First(q, k)
  BY DEF First

LEMMA FirstOfRest ==
    ASSUME NEW q \in Seq(ServerMessage), q # <<>>, NEW k \in 0 .. Len(Tail(q))
    PROVE  /\ k + 1 \in 0 .. Len(q) /\ Len(q) = Len(Tail(q)) + 1
           /\ First(q, k + 1) # <<>> /\ Head(First(q, k + 1)) = Head(q)
           /\ Tail(First(q, k + 1)) = First(Tail(q), k)
<1>1. k + 1 \in 0 .. Len(q) /\ Len(q) = Len(Tail(q)) + 1 /\ k \in Nat
  OBVIOUS
<1>2. First(q, k + 1) \in Seq(ServerMessage) /\ Len(First(q, k + 1)) = k + 1
  BY <1>1, FirstFrames
<1>3. First(q, k + 1)[1] = q[1]
  BY <1>1 DEF First
<1>4. /\ Tail(First(q, k + 1)) \in Seq(ServerMessage) /\ Len(Tail(First(q, k + 1))) = k
      /\ \A i \in 1 .. k : Tail(First(q, k + 1))[i] = First(q, k + 1)[i + 1]
  BY <1>1, <1>2
<1>5. \A i \in 1 .. k : First(q, k + 1)[i + 1] = q[i + 1] /\ First(Tail(q), k)[i] = q[i + 1]
  BY <1>1 DEF First
<1>6. First(Tail(q), k) \in Seq(ServerMessage) /\ Len(First(Tail(q), k)) = k
  <2>1. Tail(q) \in Seq(ServerMessage)
    OBVIOUS
  <2> QED
    BY <2>1, FirstFrames
<1>7. Tail(First(q, k + 1)) = First(Tail(q), k)
  <2> DEFINE one == Tail(First(q, k + 1))
             two == First(Tail(q), k)
  <2>1. \A i \in 1 .. k : one[i] = two[i]
    BY <1>4, <1>5
  <2> HIDE DEF one, two
  <2> QED
    BY <1>4, <1>6, <2>1 DEF one, two
<1> QED
  BY <1>1, <1>2, <1>3, <1>7

(* The client comes to hold v in the field, and its user cannot change it  *)
(* again: once the last frame that sets it is handled, or already now if   *)
(* none is under way, its controls are closed.                             *)
Pinned(s, q, d, f, v) ==
    /\ Replay(s, q).local[d][f] = v
    /\ \A k \in 0 .. Len(q) :
          \/ \E i \in k + 1 .. Len(q) : Sets(q[i], d, f)
          \/ ~CanControlLocally(Replay(s, First(q, k)))

LEMMA ControlsByRoster ==
    ASSUME NEW s, NEW t, Roster(s) = Roster(t)
    PROVE  CanControlLocally(s) <=> CanControlLocally(t)
  BY DEF Roster, CanControlLocally, AnyPeerControls

(* A frame comes behind the others, after which the controls are closed.   *)
LEMMA PinnedBehind ==
    ASSUME NEW s \in ClientState, NEW q \in Seq(ServerMessage), NEW msg \in ServerMessage,
           NEW d \in Deck, NEW f \in Field, NEW v,
           ~CanControlLocally(Replay(s, Append(q, msg))),
           IF Sets(msg, d, f) THEN SetTo(msg, d, f) = v ELSE Pinned(s, q, d, f, v)
    PROVE  Pinned(s, Append(q, msg), d, f, v)
<1> DEFINE all == Append(q, msg)
           n   == Len(q)
<1>1. /\ n \in Nat /\ all \in Seq(ServerMessage) /\ Len(all) = n + 1 /\ all[n + 1] = msg
      /\ \A i \in 1 .. n : all[i] = q[i]
  OBVIOUS
<1>2. Replay(s, all).local[d][f] = v
  <2>1. Replay(s, q) \in ClientState /\ Replay(s, all) = AfterFrame(Replay(s, q), msg)
    BY ReplayTyped, ReplayAppend
  <2> QED
    BY <2>1, FieldAfterFrame DEF Pinned
<1>3. ASSUME NEW k \in 0 .. n + 1
      PROVE  \/ \E i \in k + 1 .. n + 1 : Sets(all[i], d, f)
             \/ ~CanControlLocally(Replay(s, First(all, k)))
  <2>1. CASE k = n + 1
    BY <1>1, <2>1, FirstFrames
  <2>2. CASE k # n + 1 /\ Sets(msg, d, f)
    <3>1. n + 1 \in k + 1 .. n + 1
      BY <1>1, <2>2
    <3> QED
      BY <1>1, <2>2, <3>1
  <2>3. CASE k # n + 1 /\ Pinned(s, q, d, f, v)
    <3>1. k \in 0 .. n /\ First(all, k) = First(q, k)
      BY <1>1, <2>3, FirstOfMore
    <3>2. CASE ~CanControlLocally(Replay(s, First(q, k)))
      BY <3>1, <3>2
    <3>3. CASE \E i \in k + 1 .. n : Sets(q[i], d, f)
      <4>1. PICK i \in k + 1 .. n : Sets(q[i], d, f)
        BY <3>3
      <4>2. i \in k + 1 .. n + 1 /\ all[i] = q[i]
        BY <1>1, <3>1
      <4> QED
        BY <4>1, <4>2
    <3> QED
      BY <2>3, <3>1, <3>2, <3>3 DEF Pinned
  <2> QED
    BY <2>1, <2>2, <2>3
<1> QED
  BY <1>1, <1>2, <1>3 DEF Pinned

(* Two frames, of which the second says nothing of control. *)
LEMMA PinnedBehindTwo ==
    ASSUME NEW s \in ClientState, NEW q \in Seq(ServerMessage),
           NEW one \in ServerMessage, NEW two \in ServerMessage, SaysNothing(two),
           NEW d \in Deck, NEW f \in Field, NEW v,
           ~CanControlLocally(Replay(s, Append(Append(q, one), two))),
           \A msg \in {one, two} : Sets(msg, d, f) => SetTo(msg, d, f) = v,
           Sets(one, d, f) \/ Sets(two, d, f) \/ Pinned(s, q, d, f, v)
    PROVE  Pinned(s, Append(Append(q, one), two), d, f, v)
<1> DEFINE mid == Append(q, one)
<1>1. mid \in Seq(ServerMessage)
  OBVIOUS
<1> HIDE DEF mid
<1>2. Replay(s, mid) \in ClientState /\ Replay(s, Append(mid, two)) = AfterFrame(Replay(s, mid), two)
  BY <1>1, ReplayTyped, ReplayAppend
<1>3. ~CanControlLocally(Replay(s, mid))
  BY <1>2, RosterAfterFrame, ControlsByRoster DEF mid
<1>4. CASE Sets(two, d, f)
  BY <1>1, <1>4, PinnedBehind DEF mid
<1>5. CASE ~Sets(two, d, f)
  <2>1. Pinned(s, mid, d, f, v)
    BY <1>3, <1>5, PinnedBehind DEF mid
  <2> QED
    BY <1>1, <1>5, <2>1, PinnedBehind DEF mid
<1> QED
  BY <1>4, <1>5

(* The client handles the next frame. *)
LEMMA PinnedDelivered ==
    ASSUME NEW s \in ClientState, NEW q \in Seq(ServerMessage), q # <<>>,
           NEW d \in Deck, NEW f \in Field, NEW v, Pinned(s, q, d, f, v)
    PROVE  Pinned(AfterFrame(s, Head(q)), Tail(q), d, f, v)
<1> DEFINE rest == Tail(q)
           n    == Len(rest)
           t    == AfterFrame(s, Head(q))
<1>1. /\ n \in Nat /\ rest \in Seq(ServerMessage) /\ Len(q) = n + 1 /\ Head(q) \in ServerMessage
      /\ \A i \in 1 .. n : rest[i] = q[i + 1]
  OBVIOUS
<1>2. t \in ClientState
  BY <1>1, AfterFrameTyped
<1>3. Replay(t, rest).local[d][f] = v
  BY ReplayHead DEF Pinned
<1>4. ASSUME NEW k \in 0 .. n
      PROVE  \/ \E i \in k + 1 .. n : Sets(rest[i], d, f)
             \/ ~CanControlLocally(Replay(t, First(rest, k)))
  <2>1. /\ k + 1 \in 0 .. Len(q) /\ First(q, k + 1) # <<>> /\ Head(First(q, k + 1)) = Head(q)
        /\ Tail(First(q, k + 1)) = First(rest, k)
    BY FirstOfRest
  <2>2. First(q, k + 1) \in Seq(ServerMessage)
    BY <2>1, FirstFrames
  <2>3. Replay(s, First(q, k + 1)) = Replay(t, First(rest, k))
    BY <2>1, <2>2, ReplayHead
  <2>4. CASE ~CanControlLocally(Replay(s, First(q, k + 1)))
    BY <2>3, <2>4
  <2>5. CASE \E i \in (k + 1) + 1 .. Len(q) : Sets(q[i], d, f)
    <3>1. PICK i \in (k + 1) + 1 .. Len(q) : Sets(q[i], d, f)
      BY <2>5
    <3>2. i - 1 \in k + 1 .. n /\ rest[i - 1] = q[i]
      BY <1>1, <2>1
    <3> QED
      BY <3>1, <3>2
  <2> QED
    BY <2>1, <2>4, <2>5 DEF Pinned
<1> QED
  BY <1>3, <1>4 DEF Pinned

(* The client's user changes a deck, as long as the controls let it, or    *)
(* nothing at all changes in the field.                                    *)
LEMMA PinnedChanged ==
    ASSUME NEW s \in ClientState, NEW t \in ClientState, Roster(s) = Roster(t),
           NEW q \in Seq(ServerMessage), NEW d \in Deck, NEW f \in Field, NEW v,
           Pinned(s, q, d, f, v),
           CanControlLocally(s) \/ s.local[d][f] = t.local[d][f]
    PROVE  Pinned(t, q, d, f, v)
<1>1. /\ 0 \in 0 .. Len(q) /\ 0 + 1 = 1 /\ DOMAIN q = 1 .. Len(q)
      /\ First(q, 0) = <<>> /\ Replay(s, <<>>) = s
  BY FirstFrames, ReplayNothing
<1>2. s.local[d][f] = t.local[d][f] \/ \E i \in DOMAIN q : Sets(q[i], d, f)
  BY <1>1 DEF Pinned
<1>3. Replay(t, q).local[d][f] = v
  BY <1>2, ReplayField DEF Pinned
<1>4. \A k \in 0 .. Len(q) : CanControlLocally(Replay(s, First(q, k)))
                             <=> CanControlLocally(Replay(t, First(q, k)))
  BY FirstFrames, ReplaySameRoster, ControlsByRoster
<1> QED
  BY <1>3, <1>4 DEF Pinned

-----------------------------------------------------------------------------
(* What the one in control has changed and the room has not heard yet.     *)

Ahead(s, up, d, f) ==
    f \in DOMAIN s.pending[d] \/ \E i \in DOMAIN up : Carries(up[i], d, f)

(* The last word on the field that waits or is under way is what its       *)
(* author holds.                                                           *)
AheadRight(s, up, d, f) ==
    IF f \in DOMAIN s.pending[d]
    THEN s.pending[d][f] = s.local[d][f]
    ELSE \A i \in DOMAIN up :
            /\ Carries(up[i], d, f)
            /\ \A j \in DOMAIN up : Carries(up[j], d, f) => j <= i
            => up[i].changes[f] = s.local[d][f]

(* A control on a deck is used. *)
LEMMA AheadEdited ==
    ASSUME NEW s \in ClientState, Forwards(s), NEW up, NEW e \in Deck, NEW changes \in Changes,
           NEW d \in Deck, NEW f \in Field, AheadRight(s, up, d, f)
    PROVE  LET t == LocalChange(s, e, changes) IN
           /\ AheadRight(t, up, d, f)
           /\ ~Ahead(t, up, d, f) => ~Ahead(s, up, d, f) /\ t.local[d][f] = s.local[d][f]
<1> DEFINE t == LocalChange(s, e, changes)
<1>1. /\ s.local \in [Deck -> DeckState] /\ s.pending \in [Deck -> Changes]
      /\ \A g \in Deck : DOMAIN s.local[g] = Field
  BY DEF ClientState, DeckState
<1>2. /\ t.local = [s.local EXCEPT ![e] = Merge(s.local[e], changes)]
      /\ t.pending = [s.pending EXCEPT ![e] = Merge(s.pending[e], changes)]
  BY DEF LocalChange, ApplyDelta, Coalesce, ClientState
<1> HIDE DEF t
<1>3. CASE d # e
  <2>1. t.local[d] = s.local[d] /\ t.pending[d] = s.pending[d]
    BY <1>1, <1>2, <1>3
  <2> QED
    BY <2>1 DEF Ahead, AheadRight, t
<1>4. CASE d = e
  <2>1. t.local[d] = Merge(s.local[d], changes) /\ t.pending[d] = Merge(s.pending[d], changes)
    BY <1>1, <1>2, <1>4
  <2>2. /\ t.local[d][f] = IF f \in DOMAIN changes THEN changes[f] ELSE s.local[d][f]
        /\ DOMAIN t.pending[d] = DOMAIN s.pending[d] \cup DOMAIN changes
        /\ f \in DOMAIN t.pending[d] =>
             t.pending[d][f] = IF f \in DOMAIN changes THEN changes[f] ELSE s.pending[d][f]
    BY <1>1, <2>1 DEF Merge
  <2>3. CASE f \in DOMAIN changes
    BY <2>2, <2>3 DEF Ahead, AheadRight, t
  <2>4. CASE f \notin DOMAIN changes
    <3>1. /\ t.local[d][f] = s.local[d][f]
          /\ f \in DOMAIN t.pending[d] <=> f \in DOMAIN s.pending[d]
          /\ f \in DOMAIN t.pending[d] => t.pending[d][f] = s.pending[d][f]
      BY <2>2, <2>4
    <3> QED
      BY <3>1 DEF Ahead, AheadRight, t
  <2> QED
    BY <2>3, <2>4
<1> QED
  BY <1>3, <1>4

(* What waits for a deck is sent. *)
LEMMA AheadFlushed ==
    ASSUME NEW s \in ClientState, NEW up \in Seq(ClientMessage), NEW e \in Deck,
           NEW d \in Deck, NEW f \in Field, AheadRight(s, up, d, f)
    PROVE  LET t    == Flushed(s, e)
               more == up \o <<DeltaFrame(e, s.pending[e])>>
           IN  /\ AheadRight(t, more, d, f) /\ t.local = s.local
               /\ ~Ahead(t, more, d, f) => ~Ahead(s, up, d, f)
<1> DEFINE t    == Flushed(s, e)
           msg  == DeltaFrame(e, s.pending[e])
           more == up \o <<msg>>
           n    == Len(up)
<1>1. /\ n \in Nat /\ DOMAIN up = 1 .. n /\ DOMAIN more = 1 .. n + 1 /\ more[n + 1] = msg
      /\ \A i \in 1 .. n : more[i] = up[i]
  OBVIOUS
<1>2. Carries(msg, d, f) <=> e = d /\ f \in DOMAIN s.pending[d]
  BY DEF Carries, DeltaFrame
<1>3. /\ t.local = s.local
      /\ f \in DOMAIN t.pending[d] <=> d # e /\ f \in DOMAIN s.pending[d]
      /\ d # e => t.pending[d] = s.pending[d]
  BY DEF Flushed, ClientState, NoChanges
<1>4. msg.changes = s.pending[e]
  BY DEF DeltaFrame
<1> HIDE DEF t, msg, more, n
<1>5. CASE e = d /\ f \in DOMAIN s.pending[d]
  <2>1. Carries(more[n + 1], d, f) /\ n + 1 \in DOMAIN more
    BY <1>1, <1>2, <1>5
  <2>2. s.pending[d][f] = s.local[d][f]
    BY <1>5 DEF AheadRight
  <2>3. \A i \in DOMAIN more : (\A j \in DOMAIN more : Carries(more[j], d, f) => j <= i) => i = n + 1
    BY <1>1, <2>1
  <2>4. more[n + 1].changes[f] = t.local[d][f]
    BY <1>1, <1>3, <1>4, <1>5, <2>2
  <2>5. AheadRight(t, more, d, f) /\ Ahead(t, more, d, f)
    BY <1>3, <1>5, <2>1, <2>3, <2>4 DEF AheadRight, Ahead
  <2> QED
    BY <1>3, <2>5 DEF t, more, msg
<1>6. CASE ~(e = d /\ f \in DOMAIN s.pending[d])
  <2>1. /\ f \in DOMAIN t.pending[d] <=> f \in DOMAIN s.pending[d]
        /\ f \in DOMAIN t.pending[d] => t.pending[d] = s.pending[d]
    BY <1>3, <1>6
  <2>2. ~Carries(more[n + 1], d, f)
    BY <1>1, <1>2, <1>6
  <2>3. \A i \in DOMAIN more : Carries(more[i], d, f) => i \in DOMAIN up /\ more[i] = up[i]
    BY <1>1, <2>2
  <2>4. \A i \in DOMAIN up : i \in DOMAIN more /\ more[i] = up[i]
    BY <1>1
  <2>5. Ahead(s, up, d, f) => Ahead(t, more, d, f)
    BY <2>1, <2>4 DEF Ahead
  <2>6. AheadRight(t, more, d, f)
    BY <1>3, <2>1, <2>3, <2>4 DEF AheadRight
  <2> QED
    BY <1>3, <2>5, <2>6 DEF t, more, msg
<1> QED
  BY <1>5, <1>6

(* The room reads the next request. *)
LEMMA AheadHeard ==
    ASSUME NEW s, NEW up \in Seq(ClientMessage), up # <<>>, NEW d, NEW f, AheadRight(s, up, d, f)
    PROVE  /\ AheadRight(s, Tail(up), d, f)
           /\ ~Ahead(s, Tail(up), d, f) =>
                IF Carries(Head(up), d, f)
                THEN Head(up).changes[f] = s.local[d][f]
                ELSE ~Ahead(s, up, d, f)
<1> DEFINE rest == Tail(up)
           n    == Len(rest)
<1>1. /\ n \in Nat /\ DOMAIN rest = 1 .. n /\ DOMAIN up = 1 .. n + 1 /\ Head(up) = up[1]
      /\ \A i \in 1 .. n : rest[i] = up[i + 1] /\ i + 1 \in 1 .. n + 1
      /\ \A i \in 1 .. n + 1 : i # 1 => i - 1 \in 1 .. n /\ rest[i - 1] = up[i]
  OBVIOUS
<1> HIDE DEF rest, n
<1>2. AheadRight(s, rest, d, f)
  <2>1. CASE f \in DOMAIN s.pending[d]
    BY <2>1 DEF AheadRight
  <2>2. CASE f \notin DOMAIN s.pending[d]
    <3> SUFFICES ASSUME NEW i \in DOMAIN rest, Carries(rest[i], d, f),
                        \A j \in DOMAIN rest : Carries(rest[j], d, f) => j <= i
                 PROVE  rest[i].changes[f] = s.local[d][f]
      BY <2>2 DEF AheadRight
    <3>1. i + 1 \in DOMAIN up /\ up[i + 1] = rest[i]
      BY <1>1
    <3>2. ASSUME NEW j \in DOMAIN up, Carries(up[j], d, f)
          PROVE  j <= i + 1
      <4>1. CASE j = 1
        BY <1>1, <4>1
      <4>2. CASE j # 1
        <5>1. j - 1 \in DOMAIN rest /\ Carries(rest[j - 1], d, f) /\ j \in Nat /\ i \in Nat
          BY <1>1, <3>2, <4>2
        <5>2. j - 1 <= i
          BY <5>1
        <5> QED
          BY <5>1, <5>2
      <4> QED
        BY <4>1, <4>2
    <3> QED
      BY <2>2, <3>1, <3>2 DEF AheadRight
  <2> QED
    BY <2>1, <2>2
<1>3. ASSUME ~Ahead(s, rest, d, f), Carries(up[1], d, f)
      PROVE  up[1].changes[f] = s.local[d][f]
  <2>1. f \notin DOMAIN s.pending[d] /\ \A i \in DOMAIN rest : ~Carries(rest[i], d, f)
    BY <1>3 DEF Ahead
  <2>2. \A j \in DOMAIN up : Carries(up[j], d, f) => j = 1
    BY <1>1, <2>1
  <2>3. \A j \in DOMAIN up : Carries(up[j], d, f) => j <= 1
    BY <2>2
  <2> QED
    BY <1>1, <1>3, <2>1, <2>3 DEF AheadRight
<1>4. ASSUME ~Ahead(s, rest, d, f), ~Carries(up[1], d, f)
      PROVE  ~Ahead(s, up, d, f)
  <2>1. f \notin DOMAIN s.pending[d] /\ \A i \in DOMAIN rest : ~Carries(rest[i], d, f)
    BY <1>4 DEF Ahead
  <2>2. \A j \in DOMAIN up : ~Carries(up[j], d, f)
    BY <1>1, <1>4, <2>1
  <2> QED
    BY <2>1, <2>2 DEF Ahead
<1> QED
  BY <1>1, <1>2, <1>3, <1>4 DEF rest

(* A new controller announces everything. *)
LEMMA AheadResync ==
    ASSUME NEW s \in ClientState, NEW t \in ClientState, t.local = s.local, NothingWaits(t),
           NEW up \in Seq(ClientMessage), NEW d \in Deck, NEW f \in Field
    PROVE  /\ Ahead(t, up \o FullResync(s), d, f)
           /\ AheadRight(t, up \o FullResync(s), d, f)
<1> DEFINE news == FullResync(s)
           all  == up \o news
<1>1. /\ news \in Seq(ClientMessage)
      /\ \A i \in DOMAIN news : \E e \in Deck : news[i] = DeltaFrame(e, s.local[e])
      /\ \E i \in DOMAIN news : news[i] = DeltaFrame(d, s.local[d])
  <2>1. \E i \in DOMAIN news : news[i] = DeltaFrame(d, s.local[d])
    BY DeckOrderCovers DEF FullResync
  <2>2. \A i \in DOMAIN news : \E e \in Deck : news[i] = DeltaFrame(e, s.local[e])
    BY DeckOrderCovers DEF FullResync
  <2> QED
    BY <2>1, <2>2, ResyncDeltas
<1>2. DOMAIN s.local[d] = Field
  BY DEF ClientState, DeckState
<1>3. \A i \in DOMAIN news : Carries(news[i], d, f) => news[i].changes[f] = s.local[d][f]
  BY <1>1 DEF Carries, DeltaFrame
<1>4. PICK i \in DOMAIN news : Carries(news[i], d, f)
  BY <1>1, <1>2 DEF Carries, DeltaFrame
<1> HIDE DEF news
<1>5. /\ \A j \in DOMAIN all : j \in Nat /\ ((j \in DOMAIN up /\ j <= Len(up)) \/
             (j - Len(up) \in DOMAIN news /\ all[j] = news[j - Len(up)]))
      /\ Len(up) + i \in DOMAIN all /\ all[Len(up) + i] = news[i] /\ Len(up) + i > Len(up)
  <2>1. i \in Nat /\ i > 0 /\ Len(up) \in Nat
    BY <1>1
  <2> QED
    BY <1>1, <2>1
<1> HIDE DEF all
<1>6. Len(up) \in Nat /\ i \in Nat
  BY <1>1
<1>7. f \notin DOMAIN t.pending[d]
  BY DEF NothingWaits, ValidDelta
<1>8. ASSUME NEW j \in DOMAIN all, Carries(all[j], d, f),
             \A k \in DOMAIN all : Carries(all[k], d, f) => k <= j
      PROVE  all[j].changes[f] = s.local[d][f]
  <2>1. Len(up) + i <= j
    BY <1>4, <1>5, <1>8
  <2>2. j - Len(up) \in DOMAIN news /\ all[j] = news[j - Len(up)]
    BY <1>5, <1>6, <2>1
  <2> QED
    BY <1>3, <1>8, <2>2
<1>9. AheadRight(t, all, d, f)
  BY <1>7, <1>8 DEF AheadRight
<1>10. Ahead(t, all, d, f)
  BY <1>4, <1>5 DEF Ahead
<1> QED
  BY <1>9, <1>10 DEF all, news

-----------------------------------------------------------------------------
(* What a call of the room does to the decks, and says of them.            *)

(* It leaves them as they are, and says nothing else of them. *)
Truthful(msg) ==
    msg.type # "delta" /\ (msg.type \in {"welcome", "snapshot"} => msg.decks = decks)

KeepsDecks ==
    /\ UNCHANGED decks
    /\ \A y \in Conn :
          \/ sent'[y] = <<>>
          \/ \E msg \in ServerMessage : sent'[y] = <<msg>> /\ Truthful(msg)
          \/ \E one, two \in ServerMessage :
                /\ sent'[y] = <<one, two>> /\ SaysNothing(two)
                /\ Truthful(one) /\ Truthful(two)

(* It takes the changes of the one in control, and passes them on. *)
WritesDecks(c, msg) ==
    /\ msg.type = "delta" /\ IsMember(c) /\ InControl(c)
    /\ decks' = [decks EXCEPT ![msg.deck] = Merge(Target(msg.deck), msg.changes)]
    /\ UNCHANGED <<connId, clients, controllerId>>
    /\ \A y \in Conn : y # c /\ IsMember(y) =>
          \E told \in ServerMessage :
             /\ sent'[y] = <<told>> /\ told.type = "delta"
             /\ told.deck = msg.deck /\ told.changes = msg.changes

LEMMA OneFrame ==
    ASSUME NEW q \in Seq(ServerMessage), NEW msg, q = <<msg>>
    PROVE  msg \in ServerMessage
<1>1. Len(q) = 1 /\ q[1] = msg
  OBVIOUS
<1> QED
  BY <1>1

LEMMA TwoFrames ==
    ASSUME NEW q \in Seq(ServerMessage), NEW one, NEW two, q = <<one, two>>
    PROVE  one \in ServerMessage /\ two \in ServerMessage
<1>1. Len(q) = 2 /\ q[1] = one /\ q[2] = two
  OBVIOUS
<1> QED
  BY <1>1

(* One frame, to some, that is true of the decks as they stay. *)
LEMMA OneKeepsDecks ==
    ASSUME IInv', UNCHANGED decks,
           \A y \in Conn : sent'[y] = <<>> \/ \E msg : sent'[y] = <<msg>> /\ Truthful(msg)
    PROVE  KeepsDecks
<1>1. \A y \in Conn : sent'[y] \in Seq(ServerMessage)
  BY DEF IInv, TypeOK
<1>2. ASSUME NEW y \in Conn, sent'[y] # <<>>
      PROVE  \E msg \in ServerMessage : sent'[y] = <<msg>> /\ Truthful(msg)
  BY <1>1, <1>2, OneFrame
<1> QED
  BY <1>2 DEF KeepsDecks

LEMMA MessageDecks ==
    ASSUME IInv, IInv', NEW c \in Conn, NEW msg, HandleMessage(c, msg)
    PROVE  \/ WritesDecks(c, msg)
           \/ KeepsDecks /\ ~(msg.type = "delta" /\ IsMember(c) /\ InControl(c)
                              /\ ValidDelta(msg.changes))
<1>0. \A y \in Conn : sent'[y] \in Seq(ServerMessage)
  BY DEF IInv, TypeOK
<1>1. ASSUME NEW code, Refuse(c, code)
      PROVE  KeepsDecks
  <2>1. UNCHANGED decks
    BY <1>1 DEF Refuse, roomState
  <2>2. \A y \in Conn : sent'[y] = <<>> \/ sent'[y] = <<ErrorMessage(code)>>
    BY <1>1 DEF Refuse, Reply
  <2>3. Truthful(ErrorMessage(code))
    BY DEF ErrorMessage, Truthful
  <2> QED
    BY <2>1, <2>2, <2>3, OneKeepsDecks
<1>2. CASE connId[c] = NoId /\ HandleHello(c, msg)
  <2>1. CASE CloseHandshake(c)
    <3>1. UNCHANGED decks /\ \A y \in Conn : sent'[y] = <<>>
      BY <2>1 DEF CloseHandshake, Silence
    <3>2. KeepsDecks
      BY <3>1, OneKeepsDecks
    <3> QED
      BY <1>2, <3>2 DEF IsMember
  <2>2. ASSUME NEW id \in ClientId, Register(c, id)
        PROVE  KeepsDecks
    <3> DEFINE joined == [type |-> "peerJoined", clientId |-> id, role |-> RoleOf(id)]
    <3>1. /\ UNCHANGED decks
          /\ \A y \in Conn : sent'[y] \in {<<>>, <<Welcome(id)>>, <<joined>>}
      BY <2>2 DEF Register
    <3>2. Truthful(Welcome(id)) /\ Truthful(joined)
      BY DEF Truthful, Welcome, SnapshotOf
    <3> HIDE DEF joined
    <3> QED
      BY <3>1, <3>2, OneKeepsDecks
  <2> QED
    BY <1>2, <2>1, <2>2 DEF HandleHello, IsMember
<1>3. CASE msg.type \in {"junk", "hello"} /\ Refuse(c, "bad-message")
  BY <1>1, <1>3
<1>4. ASSUME NEW role, UNCHANGED decks,
             sent' = Broadcast(Recipients(clients),
                               [type |-> "roleChanged", clientId |-> connId[c], role |-> role])
      PROVE  KeepsDecks
  <2> DEFINE news == [type |-> "roleChanged", clientId |-> connId[c], role |-> role]
  <2>1. \A y \in Conn : sent'[y] = <<>> \/ sent'[y] = <<news>>
    BY <1>4 DEF Broadcast
  <2>2. Truthful(news)
    BY DEF Truthful
  <2> HIDE DEF news
  <2> QED
    BY <1>4, <2>1, <2>2, OneKeepsDecks
<1>5. CASE msg.type = "claimControl" /\ HandleClaimControl(c)
  BY <1>1, <1>4, <1>5 DEF HandleClaimControl
<1>6. CASE msg.type = "releaseControl" /\ HandleReleaseControl(c)
  BY <1>1, <1>4, <1>6 DEF HandleReleaseControl
<1>7. CASE msg.type = "delta" /\ HandleDelta(c, msg.deck, msg.changes)
  <2>1. CASE ~IsMember(c) /\ Refuse(c, "bad-message")
    BY <1>1, <2>1
  <2>2. CASE ~ValidDelta(msg.changes) /\ Refuse(c, "bad-message")
    BY <1>1, <2>2
  <2>3. CASE /\ ~MayWrite(c) /\ UNCHANGED roomState
             /\ sent' = Reply(c, <<ErrorMessage("not-controller"), SnapshotMessage>>)
    <3>1. Truthful(ErrorMessage("not-controller")) /\ Truthful(SnapshotMessage)
          /\ SaysNothing(SnapshotMessage)
      BY DEF ErrorMessage, SnapshotMessage, SnapshotOf, Truthful, SaysNothing
    <3>2. \A y \in Conn : sent'[y] \in {<<>>, <<ErrorMessage("not-controller"), SnapshotMessage>>}
      BY <2>3 DEF Reply
    <3>3. KeepsDecks
      <4>1. ASSUME NEW y \in Conn, sent'[y] # <<>>
            PROVE  \E one, two \in ServerMessage :
                     /\ sent'[y] = <<one, two>> /\ SaysNothing(two)
                     /\ Truthful(one) /\ Truthful(two)
        <5>1. sent'[y] = <<ErrorMessage("not-controller"), SnapshotMessage>>
          BY <3>2, <4>1
        <5>2. ErrorMessage("not-controller") \in ServerMessage /\ SnapshotMessage \in ServerMessage
          BY <1>0, <5>1, TwoFrames
        <5> QED
          BY <3>1, <5>1, <5>2
      <4> QED
        BY <2>3, <4>1 DEF KeepsDecks, roomState
    <3>4. ~InControl(c)
      BY <2>3 DEF MayWrite, InControl
    <3> QED
      BY <3>3, <3>4
  <2>4. CASE /\ IsMember(c) /\ MayWrite(c)
             /\ decks' = [decks EXCEPT ![msg.deck] = Merge(Target(msg.deck), msg.changes)]
             /\ sent' = Broadcast(Recipients(clients) \ {c},
                                  [type |-> "delta", serverSeq |-> serverSeq',
                                   sourceClientId |-> connId[c], deck |-> msg.deck,
                                   changes |-> msg.changes])
             /\ UNCHANGED <<connId, clients, controllerId>>
    <3> DEFINE told == [type |-> "delta", serverSeq |-> serverSeq', sourceClientId |-> connId[c],
                        deck |-> msg.deck, changes |-> msg.changes]
    <3>1. told.type = "delta" /\ told.deck = msg.deck /\ told.changes = msg.changes
      OBVIOUS
    <3>2. \A y \in Conn : y # c /\ IsMember(y) => sent'[y] = <<told>>
      BY <2>4, Registry DEF Broadcast
    <3> HIDE DEF told
    <3>3. \A y \in Conn : y # c /\ IsMember(y) => told \in ServerMessage
      BY <1>0, <3>2, OneFrame
    <3>4. InControl(c)
      BY <2>4 DEF MayWrite, InControl
    <3> QED
      BY <1>7, <2>4, <3>1, <3>2, <3>3, <3>4 DEF WritesDecks
  <2> QED
    BY <1>7, <2>1, <2>2, <2>3, <2>4 DEF HandleDelta
<1>8. CASE msg.type = "requestSnapshot" /\ HandleRequestSnapshot(c)
  <2>1. UNCHANGED decks /\ \A y \in Conn : sent'[y] = <<>> \/ sent'[y] = <<SnapshotMessage>>
    BY <1>8 DEF HandleRequestSnapshot, Reply, roomState
  <2>2. Truthful(SnapshotMessage)
    BY DEF SnapshotMessage, SnapshotOf, Truthful
  <2>3. KeepsDecks
    BY <2>1, <2>2, OneKeepsDecks
  <2> QED
    BY <1>8, <2>3
<1> QED
  BY <1>2, <1>3, <1>5, <1>6, <1>7, <1>8 DEF HandleMessage

LEMMA DisconnectDecks ==
    ASSUME IInv', NEW c \in Conn, HandleDisconnect(c)
    PROVE  KeepsDecks
<1>1. UNCHANGED decks
  BY DEF HandleDisconnect
<1> DEFINE left == [type |-> "peerLeft", clientId |-> connId[c]]
<1>2. \A y \in Conn : sent'[y] = <<>> \/ sent'[y] = <<left>>
  BY DEF HandleDisconnect, Silence, Broadcast
<1>3. Truthful(left)
  BY DEF Truthful
<1> HIDE DEF left
<1> QED
  BY <1>1, <1>2, <1>3, OneKeepsDecks

-----------------------------------------------------------------------------
(* The decks, as an invariant.                                             *)

(* While someone is in control, the others' controls are to be closed. *)
OthersGated ==
    \A a, b \in App : a # b /\ Online(a) /\ Online(b) /\ InControl(link[a])
                        => ~CanControlLocally(CaughtUp(b))

LEMMA ControlGates == SyncInv /\ ControlsOpenToHolder => OthersGated
<1> SUFFICES ASSUME SyncInv, ControlsOpenToHolder, NEW a \in App, NEW b \in App, a # b,
                    Online(a), Online(b), InControl(link[a])
             PROVE  ~CanControlLocally(CaughtUp(b))
  BY DEF OthersGated
<1>1. PICK x \in Conn : x = link[a] /\ IsMember(x)
  BY SyncTypes DEF Online
<1>2. PICK y \in Conn : y = link[b] /\ IsMember(y) /\ y # NoConn
  BY SyncTypes DEF Online
<1>3. x # y
  BY <1>1, <1>2 DEF SyncInv, LinksExact
<1>4. connId[x] # connId[y] /\ connId[x] \in ClientId /\ NoId \notin ClientId
  BY <1>1, <1>2, <1>3, MembersDiffer, Registry DEF SyncInv
<1> QED
  BY <1>1, <1>2, <1>4 DEF ControlsOpenToHolder, InControl

(* The client in control, as long as it knows and has not given it up. *)
Leads(a) ==
    /\ Online(a) /\ InControl(link[a]) /\ client[a].role = "controller"
    /\ \A i \in DOMAIN toServer[link[a]] : ~Asks(toServer[link[a]], i, "releaseControl")

(* The room holds the field as this client does, and everybody else comes  *)
(* to hold it so.                                                          *)
Spread(a, d, f) ==
    LET v == client[a].local[d][f] IN
    /\ decks[d] # NoDeck /\ decks[d][f] = v
    /\ \A b \in App : b # a /\ Online(b) => Pinned(client[b], toClient[link[b]], d, f, v)

(* A field is as the leading client holds it everywhere, or that is still  *)
(* to be told, and will be told rightly.                                   *)
Agreed(a) ==
    \A d \in Deck, f \in Field :
        /\ AheadRight(client[a], toServer[link[a]], d, f)
        /\ ~Ahead(client[a], toServer[link[a]], d, f) => Spread(a, d, f)

DecksAgreed == \A a \in App : Leads(a) => Agreed(a)

(* The room takes the leader's next changes. *)
LEMMA AgreedWritten ==
    ASSUME SyncInv, SyncInv', ControlInv, OthersGated', NEW a \in App, Leads(a)', Agreed(a),
           NEW x \in Conn, x = link[a], IsMember(x), IsMember(x)', toServer[x] # <<>>,
           toServer'[x] = Tail(toServer[x]), WritesDecks(x, Head(toServer[x])), Transmit,
           UNCHANGED <<client, link, lost>>
    PROVE  Agreed(a)'
<1>1. PICK s \in ClientState : s = client[a] /\ s = client'[a]
  BY SyncTypes
<1>2. PICK up \in Seq(ClientMessage) : up = toServer[x]
  BY SyncTypes
<1>3. PICK msg \in ClientMessage : msg = Head(up)
  BY <1>2, Rest
<1>4. msg.type = "delta" /\ msg.deck \in Deck /\ msg.changes \in Changes
  BY <1>2, <1>3 DEF WritesDecks, ClientMessage
<1>5. /\ decks' = [decks EXCEPT ![msg.deck] = Merge(Target(msg.deck), msg.changes)]
      /\ UNCHANGED <<connId, clients, controllerId>>
      /\ \A y \in Conn : y # x /\ IsMember(y) =>
            \E told \in ServerMessage :
               /\ sent'[y] = <<told>> /\ told.type = "delta"
               /\ told.deck = msg.deck /\ told.changes = msg.changes
  BY <1>2, <1>3 DEF WritesDecks
<1>6. decks \in Decks
  BY DEF SyncInv, SyncTypeOK, TypeOK
<1>7. ASSUME NEW d \in Deck, NEW f \in Field
      PROVE  /\ AheadRight(s, Tail(up), d, f)
             /\ ~Ahead(s, Tail(up), d, f) => Spread(a, d, f)'
  <2>1. /\ AheadRight(s, up, d, f)
        /\ ~Ahead(s, up, d, f) => Spread(a, d, f)
    BY <1>1, <1>2 DEF Agreed
  <2>2. /\ AheadRight(s, Tail(up), d, f)
        /\ ~Ahead(s, Tail(up), d, f) =>
             IF Carries(msg, d, f) THEN msg.changes[f] = s.local[d][f] ELSE ~Ahead(s, up, d, f)
    BY <1>2, <1>3, <2>1, AheadHeard
  <2>3. ASSUME ~Ahead(s, Tail(up), d, f)
        PROVE  Spread(a, d, f)'
    <3> DEFINE v == s.local[d][f]
    <3>1. decks'[d] # NoDeck /\ decks'[d][f] = v
      <4>1. Target(msg.deck) \in DeckState
        BY <1>4, <1>6, ProtocolAssumption DEF Target, Decks
      <4>2. Merge(Target(msg.deck), msg.changes) \in DeckState
        BY <1>4, <4>1, MergeTyped
      <4>3. f \in DOMAIN Target(msg.deck)
        BY <4>1 DEF DeckState
      <4>4. CASE msg.deck = d
        <5>1. decks'[d] = Merge(Target(d), msg.changes)
          BY <1>4, <1>5, <1>6, <4>4 DEF Decks
        <5>2. decks'[d][f] = IF f \in DOMAIN msg.changes THEN msg.changes[f] ELSE Target(d)[f]
          BY <4>3, <4>4, <5>1 DEF Merge
        <5>3. f \in DOMAIN msg.changes => decks'[d][f] = v
          BY <1>4, <2>2, <2>3, <4>4, <5>2 DEF Carries
        <5>4. f \notin DOMAIN msg.changes => decks'[d][f] = v
          BY <1>1, <2>1, <2>2, <2>3, <5>2 DEF Carries, Spread, Target
        <5> QED
          BY <4>2, <4>4, <5>1, <5>3, <5>4, ProtocolAssumption
      <4>5. CASE msg.deck # d
        <5>1. decks'[d] = decks[d]
          BY <1>4, <1>5, <1>6, <4>5 DEF Decks
        <5> QED
          BY <1>1, <2>1, <2>2, <2>3, <4>5, <5>1 DEF Carries, Spread
      <4> QED
        BY <4>4, <4>5
    <3>2. ASSUME NEW b \in App, b # a, Online(b)'
          PROVE  Pinned(client[b], toClient[link[b]], d, f, v)'
      <4>1. PICK y \in Conn : y = link[b] /\ y = link'[b] /\ y # NoConn
        BY <3>2, SyncTypes DEF Online
      <4>2. PICK r \in ClientState : r = client[b] /\ r = client'[b]
        BY SyncTypes
      <4>3. PICK down \in Seq(ServerMessage) : down = toClient[y]
        BY SyncTypes
      <4>4. Online(b) /\ IsMember(y) /\ y # x /\ y \notin lost
        BY <1>5, <3>2, <4>1 DEF Online, IsMember, SyncInv, LinksExact
      <4>5. PICK told \in ServerMessage :
              /\ sent'[y] = <<told>> /\ told.type = "delta"
              /\ told.deck = msg.deck /\ told.changes = msg.changes
        BY <1>5, <4>4
      <4>6. toClient'[y] = Append(down, told)
        <5>1. toClient'[y] = down \o <<told>>
          BY <4>3, <4>4, <4>5 DEF Transmit
        <5>2. down \o <<told>> = Append(down, told)
          BY <4>3, <4>5
        <5> QED
          BY <5>1, <5>2
      <4>7. ~CanControlLocally(Replay(r, Append(down, told)))
        BY <3>2, <4>1, <4>2, <4>6 DEF Leads, OthersGated, CaughtUp
      <4>8. /\ Sets(told, d, f) <=> Carries(msg, d, f)
            /\ Sets(told, d, f) => SetTo(told, d, f) = msg.changes[f]
        BY <1>4, <4>5 DEF Sets, SetTo, Carries
      <4>9. ~Sets(told, d, f) => Pinned(r, down, d, f, v)
        BY <1>1, <2>1, <2>2, <2>3, <3>2, <4>1, <4>2, <4>3, <4>4, <4>8 DEF Spread
      <4>10. Pinned(r, Append(down, told), d, f, v)
        BY <2>2, <2>3, <4>7, <4>8, <4>9, PinnedBehind
      <4> QED
        BY <4>1, <4>2, <4>6, <4>10
    <3> QED
      BY <1>1, <3>1, <3>2 DEF Spread
  <2> QED
    BY <2>2, <2>3
<1> QED
  BY <1>1, <1>2, <1>7 DEF Agreed

(* What the room says without changing the decks leaves a field pinned, as *)
(* long as the controls are to be closed; a newcomer's welcome pins it.    *)
LEMMA PinnedTold ==
    ASSUME SyncInv, SyncInv', ControlInv, KeepsDecks,
           NEW c \in Conn, ServerReceives(c) \/ ServerLoses(c),
           NEW b \in App, Online(b)', ~CanControlLocally(CaughtUp(b))',
           NEW d \in Deck, NEW f \in Field, NEW v, decks[d] # NoDeck, decks[d][f] = v,
           Online(b) => Pinned(client[b], toClient[link[b]], d, f, v)
    PROVE  Pinned(client[b], toClient[link[b]], d, f, v)'
<1>1. UNCHANGED <<client, link, lost>> /\ UNCHANGED decks
  BY DEF ServerReceives, ServerLoses, KeepsDecks
<1>2. PICK y \in Conn : y = link[b] /\ y = link'[b] /\ y # NoConn
  BY <1>1, SyncTypes DEF Online
<1>3. PICK r \in ClientState : r = client[b] /\ r = client'[b]
  BY <1>1, SyncTypes
<1>4. PICK down \in Seq(ServerMessage) : down = toClient[y]
  BY SyncTypes
<1>5. \A msg \in ServerMessage : Truthful(msg) /\ Sets(msg, d, f) => SetTo(msg, d, f) = v
  BY DEF Truthful, Sets, SetTo, Carries
<1>6. ~CanControlLocally(Replay(r, toClient'[y]))
  BY <1>2, <1>3 DEF CaughtUp
<1>7. CASE connId[y] # NoId
  <2>1. IsMember(y) /\ toClient'[y] = down \o sent'[y]
    BY <1>2, <1>4, <1>7, RoomMoves DEF ControlInv
  <2>2. Pinned(r, down, d, f, v)
    BY <1>2, <1>3, <1>4, <2>1 DEF Online
  <2>3. CASE sent'[y] = <<>>
    <3>1. down \o <<>> = down
      BY <1>4
    <3> QED
      BY <1>2, <1>3, <2>1, <2>2, <2>3, <3>1
  <2>4. ASSUME NEW msg \in ServerMessage, sent'[y] = <<msg>>, Truthful(msg)
        PROVE  Pinned(r, toClient'[y], d, f, v)
    <3>1. toClient'[y] = Append(down, msg)
      <4>1. down \o <<msg>> = Append(down, msg)
        BY <2>4
      <4> QED
        BY <2>1, <2>4, <4>1
    <3> QED
      BY <1>5, <1>6, <2>2, <2>4, <3>1, PinnedBehind
  <2>5. ASSUME NEW one \in ServerMessage, NEW two \in ServerMessage, sent'[y] = <<one, two>>,
               SaysNothing(two), Truthful(one), Truthful(two)
        PROVE  Pinned(r, toClient'[y], d, f, v)
    <3>1. toClient'[y] = Append(Append(down, one), two)
      <4>1. down \o <<one, two>> = Append(Append(down, one), two)
        BY <2>5
      <4> QED
        BY <2>1, <2>5, <4>1
    <3>2. \A msg \in {one, two} : Sets(msg, d, f) => SetTo(msg, d, f) = v
      BY <1>5, <2>5
    <3> QED
      BY <1>6, <2>2, <2>5, <3>1, <3>2, PinnedBehindTwo
  <2> QED
    BY <1>2, <1>3, <2>3, <2>4, <2>5 DEF KeepsDecks
<1>8. CASE connId[y] = NoId
  <2>1. connId'[y] # NoId
    BY <1>2 DEF Online, IsMember
  <2>2. PICK frame \in ServerMessage :
          toClient'[y] = <<frame>> /\ frame.type = "welcome" /\ frame.decks = decks'
    BY <1>2, <1>8, <2>1, RoomGreets DEF ControlInv
  <2>3. Sets(frame, d, f) /\ SetTo(frame, d, f) = v
    BY <1>1, <2>2 DEF Sets, SetTo
  <2>4. <<>> \in Seq(ServerMessage) /\ Append(<<>>, frame) = <<frame>>
    OBVIOUS
  <2>5. Pinned(r, Append(<<>>, frame), d, f, v)
    BY <1>6, <2>2, <2>3, <2>4, PinnedBehind
  <2> QED
    BY <1>2, <1>3, <2>2, <2>4, <2>5
<1> QED
  BY <1>7, <1>8

(* The room keeps the decks, and reads nothing of the leader's that        *)
(* changes them.                                                           *)
LEMMA AgreedKept ==
    ASSUME SyncInv, SyncInv', ControlInv, OthersGated', KeepsDecks,
           NEW c \in Conn, ServerReceives(c) \/ ServerLoses(c),
           NEW a \in App, Leads(a)', Agreed(a), NEW x \in Conn, x = link[a],
           \/ toServer'[x] = toServer[x]
           \/ /\ toServer[x] # <<>> /\ toServer'[x] = Tail(toServer[x])
              /\ \A d \in Deck, f \in Field : ~Carries(Head(toServer[x]), d, f)
    PROVE  Agreed(a)'
<1>1. UNCHANGED <<client, link, lost>> /\ UNCHANGED decks
  BY DEF ServerReceives, ServerLoses, KeepsDecks
<1>2. PICK s \in ClientState : s = client[a] /\ s = client'[a]
  BY <1>1, SyncTypes
<1>3. PICK up \in Seq(ClientMessage) : up = toServer[x]
  BY SyncTypes
<1>4. PICK left : left = toServer'[x]
  OBVIOUS
<1>5. ASSUME NEW d \in Deck, NEW f \in Field
      PROVE  /\ AheadRight(s, left, d, f)
             /\ ~Ahead(s, left, d, f) => Spread(a, d, f)'
  <2>1. /\ AheadRight(s, up, d, f)
        /\ ~Ahead(s, up, d, f) => Spread(a, d, f)
    BY <1>2, <1>3 DEF Agreed
  <2>2. /\ AheadRight(s, left, d, f)
        /\ ~Ahead(s, left, d, f) => ~Ahead(s, up, d, f)
    <3>1. CASE left = up
      BY <2>1, <3>1
    <3>2. CASE up # <<>> /\ left = Tail(up) /\ ~Carries(Head(up), d, f)
      BY <2>1, <3>2, AheadHeard
    <3> QED
      BY <1>3, <1>4, <3>1, <3>2
  <2>3. ASSUME ~Ahead(s, left, d, f)
        PROVE  Spread(a, d, f)'
    <3> DEFINE v == s.local[d][f]
    <3>1. /\ decks[d] # NoDeck /\ decks[d][f] = v
          /\ \A b \in App : b # a /\ Online(b) => Pinned(client[b], toClient[link[b]], d, f, v)
      BY <1>2, <2>1, <2>2, <2>3 DEF Spread
    <3>2. ASSUME NEW b \in App, b # a, Online(b)'
          PROVE  Pinned(client[b], toClient[link[b]], d, f, v)'
      <4>1. ~CanControlLocally(CaughtUp(b))'
        BY <3>2 DEF Leads, OthersGated
      <4> HIDE DEF v
      <4> QED
        BY <3>1, <3>2, <4>1, PinnedTold
    <3> QED
      BY <1>1, <1>2, <3>1, <3>2 DEF Spread
  <2> QED
    BY <2>2, <2>3
<1> QED
  BY <1>1, <1>2, <1>4, <1>5 DEF Agreed

LEMMA ReleaseTaken ==
    ASSUME IInv, NEW x \in Conn, NEW msg, HandleMessage(x, msg), msg.type = "releaseControl",
           IsMember(x), InControl(x)
    PROVE  controllerId' = NoId
<1>1. HandleReleaseControl(x)
  BY DEF HandleMessage, IsMember
<1> QED
  BY <1>1 DEF HandleReleaseControl, InControl

(* A client that leads after a call of the room led before it. *)
LEMMA LeadsBefore ==
    ASSUME SyncInv, SyncInv', ControlInv, NEW c \in Conn, ServerReceives(c) \/ ServerLoses(c),
           NEW a \in App, Leads(a)', NEW x \in Conn, x = link[a]
    PROVE  /\ Leads(a) /\ IsMember(x) /\ IsMember(x)' /\ InControl(x)
           /\ \/ toServer'[x] = toServer[x]
              \/ /\ x = c /\ ServerReceives(c) /\ toServer[x] # <<>>
                 /\ toServer'[x] = Tail(toServer[x])
<1>1. PICK s \in ClientState : s = client[a] /\ s = client'[a]
  BY SyncTypes DEF ServerReceives, ServerLoses
<1>2. PICK up \in Seq(ClientMessage) : up = toServer[x]
  BY SyncTypes
<1>3. x # NoConn /\ link'[a] = x /\ s.role = "controller" /\ IsMember(x)' /\ InControl(x)'
      /\ \A i \in DOMAIN toServer'[x] : ~Asks(toServer'[x], i, "releaseControl")
  BY <1>1, RoomAssumption DEF Leads, Online, InControl, ServerReceives, ServerLoses
<1>4. connId[x] # NoId
  <2>1. CASE connId[x] = NoId
    <3>1. connId'[x] # NoId
      BY <1>3 DEF IsMember
    <3> QED
      BY <1>3, <2>1, <3>1, RoomGreets DEF ControlInv
  <2> QED
    BY <2>1
<1>5. /\ IsMember(x)
      /\ \/ toServer'[x] = toServer[x] /\ SaysNoneOfIt(x)
         \/ /\ x = c /\ ServerReceives(c) /\ toServer[x] # <<>>
            /\ toServer'[x] = Tail(toServer[x])
            /\ \/ SaysNoneOfIt(x)
               \/ Grants(x, Head(toServer[x])) \/ Takes(x, Head(toServer[x]))
  <2>1. ConnsKnown /\ link[a] = x
    BY DEF ControlInv
  <2> QED
    BY <1>4, <2>1, RoomMoves
<1>6. ~Takes(x, Head(toServer[x]))
  BY <1>3 DEF Takes
<1>7. ASSUME Grants(x, Head(up)), up # <<>>
      PROVE  FALSE
  <2>1. Standing(s, up, toClient[x], connId[x], FALSE)
    <3>1. PICK holds \in BOOLEAN : holds = InControl(x)
      BY DEF InControl
    <3>2. holds = FALSE
      BY <1>7, <3>1 DEF Grants
    <3>3. Standing(s, up, toClient[x], connId[x], holds)
      BY <1>1, <1>2, <1>3, <1>4, <3>1 DEF ControlInv, StandingOf
    <3> QED
      BY <3>2, <3>3
  <2>2. 1 \in DOMAIN up /\ up[1].type = "claimControl"
    BY <1>7, Rest DEF Grants
  <2> QED
    BY <1>3, <2>1, <2>2 DEF Standing, Observes, GaveUp, Asks
<1>8. SaysNoneOfIt(x)
  BY <1>2, <1>5, <1>6, <1>7
<1>9. InControl(x)
  BY <1>3, <1>8 DEF SaysNoneOfIt
<1>10. \A i \in DOMAIN up : ~Asks(up, i, "releaseControl")
  <2>1. CASE toServer'[x] = up
    BY <1>3, <2>1
  <2>2. CASE x = c /\ ServerReceives(c) /\ up # <<>> /\ toServer'[x] = Tail(up)
    <3>1. HandleMessage(x, Head(up))
      BY <1>2, <2>2 DEF ServerReceives
    <3>2. NoId \notin ClientId /\ connId'[x] # NoId
      BY <1>3, ProtocolAssumption DEF IsMember
    <3>3. Head(up).type # "releaseControl"
      <4> DEFINE msg == Head(up)
      <4> HIDE DEF msg
      <4>1. HandleMessage(x, msg)
        BY <3>1 DEF msg
      <4>2. msg.type = "releaseControl" => controllerId' = NoId
        BY <1>5, <1>9, <4>1, ReleaseTaken DEF SyncInv
      <4> QED
        BY <1>3, <3>2, <4>2 DEF InControl, msg
    <3>4. \A i \in DOMAIN up : i = 1 \/ (i - 1 \in DOMAIN Tail(up) /\ Tail(up)[i - 1] = up[i])
      BY <2>2, Rest
    <3>5. Head(up) = up[1]
      BY <2>2, Rest
    <3> QED
      BY <1>3, <2>2, <3>3, <3>4, <3>5 DEF Asks
  <2> QED
    BY <1>2, <1>5, <2>1, <2>2
<1> QED
  BY <1>1, <1>2, <1>3, <1>5, <1>9, <1>10 DEF Leads, Online

LEMMA AgreedRoom ==
    ASSUME SyncInv, SyncInv', ControlInv, OthersGated', DecksAgreed,
           NEW c \in Conn, ServerReceives(c) \/ ServerLoses(c)
    PROVE  DecksAgreed'
<1> SUFFICES ASSUME NEW a \in App, Leads(a)'
             PROVE  Agreed(a)'
  BY DEF DecksAgreed
<1>1. UNCHANGED <<client, link, lost>> /\ Transmit
  BY DEF ServerReceives, ServerLoses
<1>2. PICK x \in Conn : x = link[a]
  BY <1>1, SyncTypes DEF Leads, Online
<1>3. Leads(a) /\ IsMember(x) /\ IsMember(x)' /\ InControl(x)
  BY <1>2, LeadsBefore
<1>4. Agreed(a)
  BY <1>3 DEF DecksAgreed
<1>5. \/ toServer'[x] = toServer[x]
      \/ x = c /\ ServerReceives(c) /\ toServer[x] # <<>> /\ toServer'[x] = Tail(toServer[x])
  BY <1>2, LeadsBefore
<1>6. CASE ServerReceives(c)
  <2> DEFINE msg == Head(toServer[c])
  <2>1. HandleMessage(c, msg) /\ toServer[c] # <<>>
    BY <1>6 DEF ServerReceives
  <2>2. \/ WritesDecks(c, msg)
        \/ KeepsDecks /\ ~(msg.type = "delta" /\ IsMember(c) /\ InControl(c)
                           /\ ValidDelta(msg.changes))
    <3> HIDE DEF msg
    <3> QED
      BY <2>1, MessageDecks DEF SyncInv
  <2>3. CASE WritesDecks(c, msg)
    <3>1. c = x
      BY <1>3, <2>3, MembersDiffer DEF WritesDecks, InControl, SyncInv
    <3>2. toServer'[x] = Tail(toServer[x])
      <4>1. toServer'[x] \in {<<>>, Tail(toServer[x])}
        BY <1>6, <3>1, SyncTypes DEF ServerReceives
      <4>2. toServer[x] # <<>> /\ toServer[x] \in Seq(ClientMessage)
        BY <2>1, <3>1, SyncTypes
      <4>3. Len(Tail(toServer[x])) # Len(toServer[x])
        BY <4>2
      <4> QED
        BY <1>5, <4>1, <4>2, <4>3
    <3> QED
      BY <1>1, <1>2, <1>3, <1>4, <2>1, <2>3, <3>1, <3>2, AgreedWritten
  <2>4. CASE KeepsDecks /\ ~(msg.type = "delta" /\ IsMember(c) /\ InControl(c)
                             /\ ValidDelta(msg.changes))
    <3>1. x = c => \A d \in Deck, f \in Field : ~Carries(Head(toServer[x]), d, f)
      BY <1>3, <2>4 DEF Carries, ValidDelta
    <3>2. \/ toServer'[x] = toServer[x]
          \/ /\ toServer[x] # <<>> /\ toServer'[x] = Tail(toServer[x])
             /\ \A d \in Deck, f \in Field : ~Carries(Head(toServer[x]), d, f)
      BY <1>5, <3>1
    <3>3. KeepsDecks
      BY <2>4
    <3> QED
      BY <1>2, <1>4, <1>6, <3>2, <3>3, AgreedKept
  <2> QED
    BY <2>2, <2>3, <2>4
<1>7. CASE ServerLoses(c) /\ ~ServerReceives(c)
  <2>1. KeepsDecks
    BY <1>7, DisconnectDecks DEF ServerLoses, SyncInv
  <2> QED
    BY <1>2, <1>4, <1>5, <1>7, <2>1, AgreedKept
<1> QED
  BY <1>6, <1>7

(* A step of the leader's own. *)
LEMMA LeadsLast ==
    ASSUME SyncInv, ControlInv, NEW a \in App, ClientNext(a), Leads(a)'
    PROVE  \E x \in Conn :
              /\ x = link[a] /\ x = link'[a] /\ connId[x] # NoId
              /\ Online(a) /\ InControl(x) /\ UNCHANGED roomState
<1>1. UNCHANGED roomState
  BY Bystanders DEF ControlInv
<1>2. PICK x : /\ x = link'[a] /\ x # NoConn
               /\ connId'[x] # NoId /\ clients'[connId'[x]] = x /\ controllerId' = connId'[x]
  BY DEF Leads, Online, InControl, IsMember
<1>3. ~Connect(a)
  <2> SUFFICES ASSUME Connect(a)
               PROVE  FALSE
    OBVIOUS
  <2>1. PICK y \in fresh : link' = [link EXCEPT ![a] = y]
    BY DEF Connect
  <2>2. link'[a] = y /\ connId[y] = NoId
    BY <2>1, SyncTypes DEF SyncInv, LinksExact
  <2> QED
    BY <1>1, <1>2, <2>2 DEF roomState
<1>4. ~LoseLink(a)
  BY <1>2, SyncTypes DEF LoseLink
<1>5. link'[a] = link[a]
  BY <1>3, <1>4 DEF ClientNext, Deliver, ClickClaim, ClickRelease, Flush, UserChange
<1>6. x \in Conn
  BY <1>2, <1>5, SyncTypes
<1> QED
  BY <1>1, <1>2, <1>5, <1>6 DEF Online, IsMember, InControl, roomState

(* The leader uses a control of a deck, or the throttle's timer fires. *)
LEMMA AgreedUser ==
    ASSUME SyncInv, ControlInv, DecksAgreed, NEW a \in App, NEW e \in Deck, Leads(a)',
           ClientNext(a),
           Flush(a, e) \/ \E ch \in Changes \ {NoChanges} : UserChange(a, e, ch)
    PROVE  Agreed(a)'
<1>1. PICK s \in ClientState : s = client[a]
  BY SyncTypes
<1>2. PICK x \in Conn :
        /\ x = link[a] /\ x = link'[a] /\ connId[x] # NoId
        /\ Online(a) /\ InControl(x) /\ UNCHANGED roomState
  BY LeadsLast
<1>3. PICK up \in Seq(ClientMessage) : up = toServer[x]
  BY SyncTypes
<1>4. UNCHANGED <<link, toClient>>
  BY DEF Flush, UserChange
<1>5. \A b \in App : b # a => client'[b] = client[b]
  BY Bystanders DEF ControlInv
<1>6. \A changes \in Changes :
          Send(a, <<DeltaFrame(e, changes)>>) => toServer'[x] = up \o <<DeltaFrame(e, changes)>>
  <2> TAKE changes \in Changes
  <2>1. <<DeltaFrame(e, changes)>> \in Seq(ClientMessage)
    BY DEF DeltaFrame, ClientMessage
  <2> QED
    BY <1>2, <1>3, <2>1, SendAppends DEF ControlInv
<1>7. ASSUME NEW t \in ClientState, client'[a] = t, s.role = t.role, NEW more,
             toServer'[x] = more,
             \A i \in DOMAIN up : i \in DOMAIN more /\ more[i] = up[i],
             s.role = "controller" =>
             \A d \in Deck, f \in Field : AheadRight(s, up, d, f) =>
               /\ AheadRight(t, more, d, f)
               /\ ~Ahead(t, more, d, f) => ~Ahead(s, up, d, f) /\ t.local[d][f] = s.local[d][f]
      PROVE  Agreed(a)'
  <2>1. s.role = "controller" /\ Leads(a)
    BY <1>1, <1>2, <1>3, <1>7 DEF Leads, Asks
  <2>2. ASSUME NEW d \in Deck, NEW f \in Field
        PROVE  /\ AheadRight(t, more, d, f)
               /\ ~Ahead(t, more, d, f) => Spread(a, d, f)'
    <3>1. /\ AheadRight(s, up, d, f)
          /\ ~Ahead(s, up, d, f) => Spread(a, d, f)
      BY <1>1, <1>2, <1>3, <2>1 DEF DecksAgreed, Agreed
    <3>2. /\ AheadRight(t, more, d, f)
          /\ ~Ahead(t, more, d, f) => ~Ahead(s, up, d, f) /\ t.local[d][f] = s.local[d][f]
      BY <1>7, <2>1, <3>1
    <3>3. ASSUME Spread(a, d, f), t.local[d][f] = s.local[d][f]
          PROVE  Spread(a, d, f)'
      <4>1. \A b \in App : Online(b)' => Online(b)
        BY <1>2, <1>4 DEF Online, IsMember, roomState
      <4> QED
        BY <1>1, <1>2, <1>4, <1>5, <1>7, <3>3, <4>1 DEF Spread, roomState
    <3> QED
      BY <3>1, <3>2, <3>3
  <2> QED
    BY <1>2, <1>7, <2>2 DEF Agreed
<1>8. CASE Flush(a, e)
  <2>1. client'[a] = Flushed(s, e) /\ Send(a, <<DeltaFrame(e, s.pending[e])>>)
    BY <1>1, <1>8, SyncTypes DEF Flush
  <2>2. s.pending[e] \in Changes
    BY DEF ClientState
  <2>3. toServer'[x] = up \o <<DeltaFrame(e, s.pending[e])>>
    BY <1>6, <2>1, <2>2
  <2>4. Flushed(s, e) \in ClientState /\ Flushed(s, e).role = s.role
    BY FlushedTyped DEF Flushed, ClientState
  <2>5. PICK t \in ClientState : t = Flushed(s, e) /\ t.role = s.role
    BY <2>4
  <2>6. PICK more : more = up \o <<DeltaFrame(e, s.pending[e])>>
    OBVIOUS
  <2>7. \A i \in DOMAIN up : i \in DOMAIN more /\ more[i] = up[i]
    BY <2>6
  <2>8. \A d \in Deck, f \in Field : AheadRight(s, up, d, f) =>
          /\ AheadRight(t, more, d, f)
          /\ ~Ahead(t, more, d, f) => ~Ahead(s, up, d, f) /\ t.local[d][f] = s.local[d][f]
    BY <2>5, <2>6, AheadFlushed
  <2>9. client'[a] = t /\ toServer'[x] = more
    BY <2>1, <2>3, <2>5, <2>6
  <2> QED
    BY <1>7, <2>5, <2>7, <2>8, <2>9
<1>9. ASSUME NEW changes \in Changes, UserChange(a, e, changes)
      PROVE  Agreed(a)'
  <2> DEFINE changed == LocalChange(s, e, changes)
  <2>1. changed \in ClientState /\ changed.role = s.role
    BY LocalChangeTyped DEF LocalChange, ApplyDelta, ClientState
  <2>2. \/ client'[a] = changed /\ UNCHANGED toServer
        \/ client'[a] = Flushed(changed, e) /\ Send(a, <<DeltaFrame(e, changed.pending[e])>>)
    BY <1>1, <1>9, SyncTypes DEF UserChange
  <2>3. s.role = "controller" => Forwards(s)
    BY <1>1 DEF ControlInv, Greeting, Forwards
  <2>4. s.role = "controller" => \A d \in Deck, f \in Field : AheadRight(s, up, d, f) =>
          /\ AheadRight(changed, up, d, f)
          /\ ~Ahead(changed, up, d, f) =>
               ~Ahead(s, up, d, f) /\ changed.local[d][f] = s.local[d][f]
    BY <2>3, AheadEdited
  <2> HIDE DEF changed
  <2>5. CASE client'[a] = changed /\ UNCHANGED toServer
    <3>1. toServer'[x] = up
      BY <1>3, <2>5
    <3> QED
      BY <1>7, <2>1, <2>4, <2>5, <3>1
  <2>6. CASE client'[a] = Flushed(changed, e) /\ Send(a, <<DeltaFrame(e, changed.pending[e])>>)
    <3>1. changed.pending[e] \in Changes
      BY <2>1 DEF ClientState
    <3>2. toServer'[x] = up \o <<DeltaFrame(e, changed.pending[e])>>
      BY <1>6, <2>6, <3>1
    <3>3. Flushed(changed, e) \in ClientState /\ Flushed(changed, e).role = s.role
      BY <2>1, FlushedTyped DEF Flushed, ClientState
    <3>4. PICK t \in ClientState : t = Flushed(changed, e) /\ t.role = s.role
      BY <3>3
    <3>5. PICK more : more = up \o <<DeltaFrame(e, changed.pending[e])>>
      OBVIOUS
    <3>6. \A i \in DOMAIN up : i \in DOMAIN more /\ more[i] = up[i]
      BY <3>5
    <3>7. \A d \in Deck, f \in Field : AheadRight(changed, up, d, f) =>
            /\ AheadRight(t, more, d, f) /\ t.local = changed.local
            /\ ~Ahead(t, more, d, f) => ~Ahead(changed, up, d, f)
      BY <2>1, <3>4, <3>5, AheadFlushed
    <3>8. client'[a] = t /\ toServer'[x] = more
      BY <2>6, <3>2, <3>4, <3>5
    <3>9. s.role = "controller" => \A d \in Deck, f \in Field : AheadRight(s, up, d, f) =>
            /\ AheadRight(t, more, d, f)
            /\ ~Ahead(t, more, d, f) => ~Ahead(s, up, d, f) /\ t.local[d][f] = s.local[d][f]
      BY <2>4, <3>7
    <3> QED
      BY <1>7, <3>4, <3>6, <3>8, <3>9
  <2> QED
    BY <2>2, <2>5, <2>6
<1> QED
  BY <1>8, <1>9

(* The leader handles the next frame: its decks stay, or it is the news of *)
(* its control, which it answers with everything it holds.                 *)
LEMMA AgreedDeliver ==
    ASSUME SyncInv, ControlInv, DecksAgreed, NEW a \in App, Leads(a)', Deliver(a)
    PROVE  Agreed(a)'
<1>1. PICK s \in ClientState : s = client[a]
  BY SyncTypes
<1>2. PICK x \in Conn :
        /\ x = link[a] /\ x = link'[a] /\ connId[x] # NoId
        /\ Online(a) /\ InControl(x) /\ UNCHANGED roomState
  BY LeadsLast DEF ClientNext
<1>3. PICK up \in Seq(ClientMessage) : up = toServer[x]
  BY SyncTypes
<1>4. PICK down \in Seq(ServerMessage) : down = toClient[x]
  BY SyncTypes
<1> DEFINE msg == Head(down)
           t   == AfterFrame(s, msg)
           new == IF BecomesController(s, msg) THEN FullResync(s) ELSE <<>>
<1>5. /\ down # <<>> /\ msg \in ServerMessage /\ client'[a] = t /\ toServer'[x] = up \o new
      /\ msg.type = "welcome" => msg.role = "observer"
      /\ msg.type # "welcome" => s.ownId = connId[x]
  BY <1>1, <1>2, <1>3, <1>4, Delivery
<1>6. /\ t \in ClientState /\ t.pending = s.pending
      /\ msg.type = "roleChanged" /\ msg.clientId # s.ownId => t.role = s.role
      /\ msg.type = "welcome" => t.role = msg.role
      /\ msg.type \notin {"roleChanged", "welcome"} => t.role = s.role
      /\ msg.type = "roleChanged" /\ msg.clientId = s.ownId => t.role = msg.role
  BY <1>5, RoleAfterFrame, AfterFrameTyped
<1>7. t.role = "controller"
      /\ \A i \in DOMAIN (up \o new) : ~Asks(up \o new, i, "releaseControl")
  BY <1>2, <1>5 DEF Leads
<1>8. Standing(s, up, down, connId[x], TRUE)
  <2>1. PICK holds \in BOOLEAN : holds = InControl(x)
    BY DEF InControl
  <2>2. Standing(s, up, down, connId[x], holds)
    BY <1>1, <1>2, <1>3, <1>4, <2>1, RoomAssumption DEF ControlInv, StandingOf
  <2>3. holds = TRUE
    BY <1>2, <2>1
  <2> QED
    BY <2>2, <2>3
<1>9. CASE s.role = "controller"
  <2>1. new = <<>>
    BY <1>9 DEF BecomesController
  <2> HIDE DEF new
  <2>2. toServer'[x] = up
    <3>1. up \o <<>> = up
      OBVIOUS
    <3> QED
      BY <1>5, <2>1, <3>1
  <2> HIDE DEF t, msg
  <2>3. msg = down[1] /\ 1 \in DOMAIN down
    BY <1>5, Rest DEF msg
  <2>4. ~CarriesDecks(msg)
    BY <1>8, <1>9, <2>3 DEF Standing, HoldsIt, WillHear
  <2>5. \A d \in Deck, f \in Field : t.local[d][f] = s.local[d][f]
    BY <1>5, <2>4, FieldAfterFrame DEF Sets, Carries, CarriesDecks, t
  <2>6. Leads(a)
    <3>1. \A i \in DOMAIN up : ~Asks(up, i, "releaseControl")
      BY <1>2, <2>2 DEF Leads
    <3> QED
      BY <1>1, <1>2, <1>3, <1>9, <3>1 DEF Leads
  <2>7. ASSUME NEW d \in Deck, NEW f \in Field
        PROVE  /\ AheadRight(t, up, d, f)
               /\ ~Ahead(t, up, d, f) => Spread(a, d, f)'
    <3>1. /\ AheadRight(s, up, d, f)
          /\ ~Ahead(s, up, d, f) => Spread(a, d, f)
      BY <1>1, <1>2, <1>3, <2>6 DEF DecksAgreed, Agreed
    <3>2. /\ AheadRight(t, up, d, f)
          /\ ~Ahead(t, up, d, f) => ~Ahead(s, up, d, f)
      BY <1>6, <2>5, <3>1 DEF Ahead, AheadRight
    <3>3. ASSUME Spread(a, d, f)
          PROVE  Spread(a, d, f)'
      <4>1. \A b \in App : b # a => /\ link'[b] = link[b] /\ client'[b] = client[b]
                                    /\ \A y \in Conn : y = link[b] => toClient'[y] = toClient[y]
        BY Bystanders DEF ControlInv, ClientNext
      <4>2. \A b \in App : b # a /\ Online(b)' =>
                Online(b) /\ toClient'[link'[b]] = toClient[link[b]]
        BY <1>2, <4>1, SyncTypes DEF Online, IsMember, roomState
      <4> DEFINE v == s.local[d][f]
      <4>3. client'[a].local[d][f] = v /\ client[a].local[d][f] = v
        BY <1>1, <1>5, <2>5
      <4>4. \A b \in App : b # a /\ Online(b)' =>
                Pinned(client'[b], toClient'[link'[b]], d, f, v)
        BY <3>3, <4>1, <4>2, <4>3 DEF Spread
      <4>5. decks'[d] # NoDeck /\ decks'[d][f] = v
        BY <1>2, <3>3, <4>3 DEF Spread, roomState
      <4> HIDE DEF v
      <4> QED
        BY <4>3, <4>4, <4>5 DEF Spread
    <3> QED
      BY <3>1, <3>2, <3>3
  <2> QED
    BY <1>2, <1>5, <2>2, <2>7 DEF Agreed
<1>10. CASE s.role # "controller"
  <2>1. msg.type = "roleChanged" /\ msg.clientId = s.ownId /\ msg.role = "controller"
    BY <1>5, <1>6, <1>7, <1>10
  <2>2. BecomesController(s, msg)
    BY <1>10, <2>1 DEF BecomesController
  <2>3. NothingWaits(s)
    BY <1>8, <1>10 DEF Standing, HoldsIt, WillHear
  <2>4. t.local = s.local
    BY <2>1 DEF AfterFrame, HandleRoleChanged, ClientState
  <2>5. NothingWaits(t)
    BY <1>6, <2>3 DEF NothingWaits
  <2>6. toServer'[x] = up \o FullResync(s)
    BY <1>5, <2>2
  <2> HIDE DEF t, msg, new
  <2>7. \A d \in Deck, f \in Field : /\ Ahead(t, up \o FullResync(s), d, f)
                                     /\ AheadRight(t, up \o FullResync(s), d, f)
    BY <1>6, <2>4, <2>5, AheadResync
  <2> QED
    BY <1>2, <1>5, <2>6, <2>7 DEF Agreed
<1> QED
  BY <1>9, <1>10

(* A step of a client other than the leader: its own pinned fields stay so. *)
LEMMA PinnedOwn ==
    ASSUME SyncInv, ControlInv, NEW b \in App, ClientNext(b), Online(b)',
           NEW d \in Deck, NEW f \in Field, NEW v,
           Online(b) => Pinned(client[b], toClient[link[b]], d, f, v)
    PROVE  Pinned(client[b], toClient[link[b]], d, f, v)'
<1>1. UNCHANGED roomState
  BY Bystanders DEF ControlInv
<1>2. PICK s \in ClientState : s = client[b]
  BY SyncTypes
<1>3. ~Connect(b)
  <2> SUFFICES ASSUME Connect(b)
               PROVE  FALSE
    OBVIOUS
  <2>1. PICK y \in fresh : link' = [link EXCEPT ![b] = y]
    BY DEF Connect
  <2>2. link'[b] = y /\ connId[y] = NoId
    BY <2>1, SyncTypes DEF SyncInv, LinksExact
  <2> QED
    BY <1>1, <2>2 DEF roomState, Online, IsMember
<1>4. ~LoseLink(b)
  BY SyncTypes DEF LoseLink, Online
<1>5. link'[b] = link[b]
  BY <1>3, <1>4 DEF ClientNext, Deliver, ClickClaim, ClickRelease, Flush, UserChange
<1>6. PICK y \in Conn : y = link[b] /\ y = link'[b] /\ y # NoConn
  BY <1>5, SyncTypes DEF Online
<1>7. PICK down \in Seq(ServerMessage) : down = toClient[y]
  BY SyncTypes
<1>8. Pinned(s, down, d, f, v)
  BY <1>1, <1>2, <1>5, <1>6, <1>7 DEF Online, IsMember, roomState
<1>9. CASE Deliver(b)
  <2>1. /\ down # <<>> /\ client'[b] = AfterFrame(s, Head(down)) /\ toClient'[y] = Tail(down)
    BY <1>2, <1>6, <1>7, <1>9, Delivery
  <2>2. Pinned(AfterFrame(s, Head(down)), Tail(down), d, f, v)
    BY <1>8, <2>1, PinnedDelivered
  <2> QED
    BY <1>6, <2>1, <2>2
<1>10. CASE ClickClaim(b) \/ ClickRelease(b)
  <2>1. UNCHANGED <<client, link, toClient>>
    BY <1>10 DEF ClickClaim, ClickRelease
  <2> QED
    BY <1>2, <1>6, <1>7, <1>8, <2>1
<1>11. \A t \in ClientState, e \in Deck :
          /\ Flushed(t, e) \in ClientState /\ Roster(Flushed(t, e)) = Roster(t)
          /\ Flushed(t, e).local = t.local
  BY FlushedTyped DEF Flushed, Roster, ClientState
<1>12. ASSUME NEW e \in Deck, Flush(b, e)
       PROVE  Pinned(client[b], toClient[link[b]], d, f, v)'
  <2>1. client'[b] = Flushed(s, e) /\ toClient'[y] = down
    BY <1>2, <1>7, <1>12, SyncTypes DEF Flush
  <2>2. Pinned(Flushed(s, e), down, d, f, v)
    <3>1. PICK t \in ClientState : t = Flushed(s, e) /\ Roster(s) = Roster(t) /\ t.local = s.local
      BY <1>11
    <3> QED
      BY <1>8, <3>1, PinnedChanged
  <2> QED
    BY <1>6, <2>1, <2>2
<1>13. ASSUME NEW e \in Deck, NEW changes \in Changes, UserChange(b, e, changes)
       PROVE  Pinned(client[b], toClient[link[b]], d, f, v)'
  <2>1. PICK t \in ClientState : t = LocalChange(s, e, changes)
    BY LocalChangeTyped
  <2>2. Roster(s) = Roster(t)
    BY <2>1 DEF LocalChange, ApplyDelta, Roster, ClientState
  <2>3. CanControlLocally(s)
    BY <1>2, <1>13 DEF UserChange
  <2>4. Pinned(t, down, d, f, v)
    BY <1>8, <2>2, <2>3, PinnedChanged
  <2>5. PICK u \in ClientState : u = Flushed(t, e) /\ Roster(t) = Roster(u) /\ u.local = t.local
    BY <1>11
  <2>6. Pinned(u, down, d, f, v)
    BY <2>4, <2>5, PinnedChanged
  <2>7. client'[b] \in {t, u} /\ toClient'[y] = down
    BY <1>2, <1>7, <1>13, <2>1, <2>5, SyncTypes DEF UserChange
  <2> QED
    BY <1>6, <2>4, <2>6, <2>7
<1> QED
  BY <1>3, <1>4, <1>9, <1>10, <1>12, <1>13 DEF ClientNext

LEMMA AgreedOther ==
    ASSUME SyncInv, ControlInv, DecksAgreed, NEW b \in App, ClientNext(b),
           NEW a \in App, a # b, Leads(a)'
    PROVE  Agreed(a)'
<1>1. /\ UNCHANGED roomState
      /\ \A e \in App : e # b => /\ link'[e] = link[e] /\ client'[e] = client[e]
                                 /\ \A y \in Conn : y = link[e] =>
                                      toServer'[y] = toServer[y] /\ toClient'[y] = toClient[y]
  BY Bystanders DEF ControlInv
<1>2. PICK x \in Conn : x = link[a] /\ x = link'[a] /\ toServer'[x] = toServer[x]
  BY <1>1, SyncTypes DEF Leads, Online
<1>3. client'[a] = client[a]
  BY <1>1
<1>4. Leads(a)
  BY <1>1, <1>2, <1>3 DEF Leads, Online, InControl, IsMember, roomState
<1>5. ASSUME NEW d \in Deck, NEW f \in Field, Spread(a, d, f)
      PROVE  Spread(a, d, f)'
  <2>0. PICK v : v = client[a].local[d][f]
    OBVIOUS
  <2>1. /\ decks[d] # NoDeck /\ decks[d][f] = v /\ client'[a].local[d][f] = v
        /\ \A e \in App : e # a /\ Online(e) => Pinned(client[e], toClient[link[e]], d, f, v)
    BY <1>3, <1>5, <2>0 DEF Spread
  <2>2. decks'[d] # NoDeck /\ decks'[d][f] = v
    BY <1>1, <2>1 DEF roomState
  <2>3. ASSUME NEW e \in App, e # a, Online(e)'
        PROVE  Pinned(client[e], toClient[link[e]], d, f, v)'
    <3>1. CASE e = b
      BY <2>1, <2>3, <3>1, PinnedOwn
    <3>2. CASE e # b
      <4>1. PICK y \in Conn : y = link[e] /\ y = link'[e] /\ toClient'[y] = toClient[y]
        BY <1>1, <2>3, <3>2, SyncTypes DEF Online
      <4>2. Online(e)
        BY <1>1, <2>3, <4>1 DEF Online, IsMember, roomState
      <4> QED
        BY <1>1, <2>1, <2>3, <3>2, <4>1, <4>2
    <3> QED
      BY <3>1, <3>2
  <2> QED
    BY <2>1, <2>2, <2>3 DEF Spread
<1>6. \A d \in Deck, f \in Field :
          /\ AheadRight(client[a], toServer[x], d, f)
          /\ ~Ahead(client[a], toServer[x], d, f) => Spread(a, d, f)
  BY <1>2, <1>4 DEF DecksAgreed, Agreed
<1> QED
  BY <1>2, <1>3, <1>5, <1>6 DEF Agreed

(* The leader's buttons: it does not ask for what it has, and once it has  *)
(* given up control it leads no more.                                      *)
LEMMA LeaderClicks ==
    ASSUME SyncInv, ControlInv, NEW a \in App, Leads(a)', ClickClaim(a) \/ ClickRelease(a)
    PROVE  FALSE
<1>1. PICK x \in Conn : x = link[a] /\ x = link'[a] /\ connId[x] # NoId
  BY LeadsLast DEF ClientNext
<1>2. PICK up \in Seq(ClientMessage) : up = toServer[x]
  BY SyncTypes
<1>3. UNCHANGED client
  BY DEF ClickClaim, ClickRelease
<1>4. ClickRelease(a)
  BY <1>3 DEF ClickClaim, Leads
<1> DEFINE msg == [type |-> "releaseControl"]
<1>5. Send(a, <<msg>>) /\ msg.type = "releaseControl" /\ msg \in ClientMessage
  BY <1>4 DEF ClickRelease, ClientMessage
<1> HIDE DEF msg
<1>6. <<msg>> \in Seq(ClientMessage)
  BY <1>5
<1>7. toServer'[x] = up \o <<msg>>
  BY <1>1, <1>2, <1>5, <1>6, SendAppends DEF ControlInv
<1>8. Len(up) + 1 \in DOMAIN (up \o <<msg>>) /\ (up \o <<msg>>)[Len(up) + 1] = msg
  OBVIOUS
<1> QED
  BY <1>1, <1>5, <1>7, <1>8 DEF Leads, Asks

LEMMA DecksInit == SyncInit => DecksAgreed
  BY DEF SyncInit, DecksAgreed, Leads, Online

LEMMA DecksStep ==
    SyncInv /\ SyncInv' /\ ControlInv /\ OthersGated' /\ DecksAgreed /\ [SyncNext]_allVars
        => DecksAgreed'
<1> SUFFICES ASSUME SyncInv, SyncInv', ControlInv, OthersGated', DecksAgreed,
                    [SyncNext]_allVars
             PROVE  DecksAgreed'
  OBVIOUS
<1>1. ASSUME NEW c \in Conn, ServerReceives(c) \/ ServerLoses(c)
      PROVE  DecksAgreed'
  BY <1>1, AgreedRoom
<1>2. ASSUME NEW b \in App, ClientNext(b)
      PROVE  DecksAgreed'
  <2> SUFFICES ASSUME NEW a \in App, Leads(a)'
               PROVE  Agreed(a)'
    BY DEF DecksAgreed
  <2>1. CASE a # b
    BY <1>2, <2>1, AgreedOther
  <2>2. CASE a = b
    <3>1. ClientNext(a)
      BY <1>2, <2>2
    <3>2. PICK x \in Conn : x = link[a] /\ x = link'[a] /\ connId[x] # NoId /\ UNCHANGED roomState
      BY <3>1, LeadsLast
    <3>3. ~LoseLink(a)
      BY <3>2, SyncTypes, RoomAssumption DEF LoseLink
    <3>4. ~Connect(a)
      BY <3>2, RoomAssumption DEF Connect
    <3>5. ~ClickClaim(a) /\ ~ClickRelease(a)
      BY LeaderClicks
    <3>6. CASE Deliver(a)
      BY <3>6, AgreedDeliver
    <3>7. ASSUME NEW e \in Deck,
                 Flush(a, e) \/ \E ch \in Changes \ {NoChanges} : UserChange(a, e, ch)
          PROVE  Agreed(a)'
      BY <3>1, <3>7, AgreedUser
    <3> QED
      BY <3>1, <3>3, <3>4, <3>5, <3>6, <3>7 DEF ClientNext
  <2> QED
    BY <2>1, <2>2
<1>3. CASE UNCHANGED allVars
  <2>1. UNCHANGED <<client, link, toServer, toClient>> /\ UNCHANGED roomState
    BY <1>3 DEF allVars, vars, syncVars, roomState
  <2> QED
    BY <2>1 DEF roomState, DecksAgreed, Leads, Agreed, Spread, Online, IsMember, InControl
<1> QED
  BY <1>1, <1>2, <1>3 DEF SyncNext

(* Nothing under way and somebody in control: a client of the room is, and *)
(* knows it; what it holds is what the room and all the others hold.       *)
LEMMA SettledDecks ==
    ASSUME SyncInv, ControlInv, DecksAgreed
    PROVE  DecksConverge
<1> SUFFICES ASSUME Settled, controllerId # NoId, NEW b \in App, Online(b)
             PROVE  client[b].local = decks
  BY DEF DecksConverge
<1>1. PICK x \in Conn : IsMember(x) /\ connId[x] = controllerId
  <2>1. controllerId \in Registered(clients) /\ controllerId \in ClientId
    BY Registry DEF SyncInv, Registered
  <2>2. clients[controllerId] \in Conn
    BY <2>1, Registry DEF SyncInv, Registered
  <2>3. connId[clients[controllerId]] = controllerId
    BY <2>1 DEF SyncInv, IInv, MembershipExact
  <2> QED
    BY <2>2, <2>3 DEF IsMember
<1>2. PICK a \in App : link[a] = x
  <2>1. x \notin gone /\ x \notin fresh
    BY <1>1 DEF SyncInv, IInv, MembershipExact, LinksExact, IsMember
  <2> QED
    BY <2>1 DEF Settled, ControlInv, ConnsKnown
<1>3. x # NoConn /\ connId[x] # NoId /\ InControl(x) /\ Online(a)
  BY <1>1, <1>2, RoomAssumption DEF InControl, Online
<1>4. PICK s \in ClientState : s = client[a]
  BY SyncTypes
<1>5. toServer[x] = <<>> /\ \A y \in Conn : toClient[y] = <<>>
  BY DEF Settled
<1>6. DOMAIN <<>> = {}
  OBVIOUS
<1>7. s.role = "controller"
  <2>1. PICK holds \in BOOLEAN : holds = InControl(x)
    BY DEF InControl
  <2>2. Standing(s, <<>>, <<>>, connId[x], holds)
    BY <1>2, <1>3, <1>4, <1>5, <2>1 DEF ControlInv, StandingOf
  <2>3. holds = TRUE
    BY <1>3, <2>1
  <2> QED
    BY <1>6, <2>2, <2>3 DEF Standing, HoldsIt, WillHear
<1>8. Leads(a)
  BY <1>2, <1>3, <1>4, <1>5, <1>6, <1>7 DEF Leads
<1>9. ASSUME NEW d \in Deck, NEW f \in Field
      PROVE  decks[d] # NoDeck /\ decks[d][f] = s.local[d][f] /\ client[b].local[d][f] = s.local[d][f]
  <2>1. ~Ahead(s, <<>>, d, f)
    <3>1. ~ValidDelta(s.pending[d])
      BY <1>3, <1>4 DEF Settled
    <3> QED
      BY <1>6, <3>1 DEF Ahead, ValidDelta
  <2>2. Spread(a, d, f)
    BY <1>2, <1>4, <1>5, <1>8, <2>1 DEF DecksAgreed, Agreed
  <2>3. CASE b = a
    BY <1>4, <2>2, <2>3 DEF Spread
  <2>4. CASE b # a
    <3>1. PICK y \in Conn : y = link[b]
      BY SyncTypes DEF Online
    <3>2. PICK r \in ClientState : r = client[b]
      BY SyncTypes
    <3>3. Pinned(r, <<>>, d, f, s.local[d][f])
      BY <1>4, <1>5, <2>2, <2>4, <3>1, <3>2 DEF Spread
    <3> QED
      BY <1>4, <2>2, <3>2, <3>3, ReplayNothing DEF Pinned, Spread
  <2> QED
    BY <2>3, <2>4
<1>10. \A d \in Deck : decks[d] \in DeckState
  BY <1>9, ProtocolAssumption DEF SyncInv, SyncTypeOK, TypeOK, Decks
<1>11. \A d \in Deck : client[b].local[d] = decks[d]
  <2> TAKE d \in Deck
  <2>1. client[b].local[d] \in DeckState /\ decks[d] \in DeckState
    BY <1>10, SyncTypes DEF ClientState
  <2> QED
    BY <1>9, <2>1 DEF DeckState
<1>12. client[b].local \in [Deck -> DeckState] /\ decks \in Decks
  BY SyncTypes DEF ClientState, SyncInv, SyncTypeOK, TypeOK
<1> QED
  BY <1>11, <1>12 DEF Decks

(* Each client's end of control is in one of its four standings, always. *)
THEOREM ControlStands == SyncSpec => []ControlInv
<1>1. SyncInit => ControlInv
  BY ControlInit
<1> QED
  BY <1>1, SyncInvariant, ControlStep, PTL DEF SyncSpec

(* While somebody is in control and knows it, each field of each deck is   *)
(* on the way to being the same everywhere, always.                        *)
THEOREM AgreementSpreads == SyncSpec => []DecksAgreed
<1>1. SyncSpec => []OthersGated
  BY SyncInvariant, ControlsFollowControl, ControlGates, PTL
<1> QED
  BY <1>1, SyncInvariant, ControlStands, DecksInit, DecksStep, PTL DEF SyncSpec

(* Whatever was edited, refused, coalesced or overtaken before: once       *)
(* nothing is under way and somebody has control, all decks are the same.  *)
THEOREM DecksSettle == SyncSpec => []DecksConverge
<1>1. SyncInv /\ ControlInv /\ DecksAgreed => DecksConverge
  BY SettledDecks
<1> QED
  BY <1>1, SyncInvariant, ControlStands, AgreementSpreads, PTL
=============================================================================
