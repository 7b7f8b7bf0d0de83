----------------------------- MODULE RoomProofs -----------------------------
(***************************************************************************)
(* What TLAPS proves of the room, for any sets of connections, ids, decks, *)
(* fields and values, and any capacity.                                    *)
(*                                                                         *)
(* One inductive invariant carries everything: types, the registry being   *)
(* exact, and the controller being a member.  None of the three is         *)
(* inductive without the others: a handler looks connections up by id, so  *)
(* what it does to the controller depends on ids and connections matching. *)
(***************************************************************************)
EXTENDS Room, FiniteSetTheorems, TLAPS

IInv == TypeOK /\ MembershipExact /\ ControllerIsMember

-----------------------------------------------------------------------------
(* What the handlers hand to conn.send is well formed.                     *)

Frames == [Conn -> Seq(ServerMessage)]

(* A handler that sends nothing. *)
LEMMA SilenceTyped == Silence \in Frames
  BY DEF Silence, Frames

(* A handler that answers its caller with one or two frames. *)
LEMMA ReplyTyped ==
  ASSUME NEW c \in Conn, NEW msgs \in Seq(ServerMessage)
  PROVE  Reply(c, msgs) \in Frames
  BY DEF Reply, Frames

(* A handler that tells everybody, or everybody else. *)
LEMMA BroadcastTyped ==
  ASSUME NEW recipients, NEW msg \in ServerMessage
  PROVE  Broadcast(recipients, msg) \in Frames
  BY DEF Broadcast, Frames

(* Error frames are server messages. *)
LEMMA ErrorTyped ==
  ASSUME NEW code \in ErrorCode
  PROVE  ErrorMessage(code) \in ServerMessage
  BY DEF ErrorMessage, ServerMessage

(* So are snapshots of well-typed decks. *)
LEMMA SnapshotTyped ==
  ASSUME TypeOK
  PROVE  SnapshotMessage \in ServerMessage
  BY RoomAssumption DEF SnapshotMessage, SnapshotOf, ServerMessage, TypeOK

(* And the welcome of a new member, whatever roles the others have. *)
LEMMA WelcomeTyped ==
  ASSUME TypeOK, NEW id \in ClientId
  PROVE  Welcome(id) \in ServerMessage
  <1>1. \A p : RoleOf(p) \in Role
    BY DEF RoleOf, Role
  <1>2. PeersOf(id) \in SUBSET Peer
    BY <1>1 DEF PeersOf, Peer, Registered
  <1>3. decks \in Decks /\ serverSeq \in Nat
    BY RoomAssumption DEF TypeOK
  <1> QED BY <1>1, <1>2, <1>3 DEF Welcome, SnapshotOf, ServerMessage

(* Merging changes into a deck state gives a deck state. *)
LEMMA MergeTyped ==
  ASSUME NEW old \in DeckState, NEW changes \in Changes
  PROVE  Merge(old, changes) \in DeckState
  <1>1. PICK S \in SUBSET Field : changes \in [S -> Value]
    BY DEF Changes
  <1>2. DOMAIN old \cup DOMAIN changes = Field
    BY <1>1 DEF DeckState
  <1> QED BY <1>1, <1>2 DEF Merge, DeckState

-----------------------------------------------------------------------------
(* The invariant holds initially and is preserved by every handler.        *)

(* A fresh room satisfies the invariant. *)
LEMMA InitInv == Init => IInv
  <1> SUFFICES ASSUME Init PROVE IInv
    OBVIOUS
  <1>1. decks \in Decks
    BY ProtocolAssumption DEF Init, Decks
  <1>2. sent \in Frames
    BY SilenceTyped DEF Init
  <1>3. TypeOK
    BY <1>1, <1>2, RoomAssumption DEF Init, TypeOK, Frames
  <1>4. MembershipExact
    BY RoomAssumption DEF Init, MembershipExact, IsMember, Registered
  <1> QED BY <1>3, <1>4 DEF Init, IInv, ControllerIsMember

(* A handler that changes nothing but the frames it sends. *)
LEMMA RefusalInv ==
  ASSUME IInv, sent' \in Frames, UNCHANGED roomState
  PROVE  IInv'
  BY DEF IInv, TypeOK, MembershipExact, ControllerIsMember, IsMember, Registered,
         Frames, roomState

(* An answer with an error frame. *)
LEMMA RefuseInv ==
  ASSUME IInv, NEW c \in Conn, NEW code \in ErrorCode, Refuse(c, code)
  PROVE  IInv'
  <1>1. <<ErrorMessage(code)>> \in Seq(ServerMessage)
    BY ErrorTyped
  <1>2. sent' \in Frames
    BY <1>1, ReplyTyped DEF Refuse
  <1> QED BY <1>2, RefusalInv DEF Refuse

(* A failed handshake: the connection is closed, the room is untouched. *)
LEMMA CloseHandshakeInv ==
  ASSUME IInv, NEW c \in Conn, CloseHandshake(c)
  PROVE  IInv'
  <1>1. sent' \in Frames
    BY SilenceTyped DEF CloseHandshake
  <1> QED BY <1>1 DEF CloseHandshake, IInv, TypeOK, MembershipExact,
                      ControllerIsMember, IsMember, Registered, Frames

(* Registering a connection that has no id and is not gone, under an id    *)
(* nobody has.                                                             *)
LEMMA RegisterInv ==
  ASSUME IInv, NEW c \in Conn, NEW id \in ClientId,
         connId[c] = NoId, c \notin gone, Register(c, id)
  PROVE  IInv'
  <1> USE DEF IInv
  <1>1. RoleOf(id) \in Role
    BY DEF RoleOf, Role
  <1>2. Welcome(id) \in ServerMessage
    BY WelcomeTyped
  <1>3. [type |-> "peerJoined", clientId |-> id, role |-> RoleOf(id)] \in ServerMessage
    BY <1>1 DEF ServerMessage
  <1>4. sent' \in Frames
    BY <1>2, <1>3 DEF Register, Frames
  <1>5. TypeOK'
    BY <1>4 DEF TypeOK, Register, Frames
  <1>6. MembershipExact'
    <2>1. clients[id] = NoConn
      BY DEF Register, FreeId
    <2>2. ASSUME NEW x \in Conn, x # c
          PROVE  IsMember(x)' <=> IsMember(x)
      BY <2>1, <2>2, RoomAssumption DEF TypeOK, Register, IsMember
    <2>3. IsMember(c)'
      BY ProtocolAssumption DEF TypeOK, Register, IsMember
    <2>4. \A x \in Conn : IsMember(x)' <=> connId'[x] # NoId /\ x \notin gone'
      BY <2>2, <2>3, ProtocolAssumption DEF TypeOK, Register, MembershipExact
    <2>5. ASSUME NEW i \in ClientId, clients'[i] # NoConn
          PROVE  connId'[clients'[i]] = i
      BY <2>5, ProtocolAssumption DEF TypeOK, Register, MembershipExact, Registered
    <2> QED BY <2>4, <2>5 DEF MembershipExact, Registered, IsMember
  <1>7. ControllerIsMember'
    BY RoomAssumption DEF TypeOK, Register, ControllerIsMember, Registered
  <1> QED BY <1>5, <1>6, <1>7

(* Claiming or releasing control. *)
LEMMA ClaimInv ==
  ASSUME IInv, NEW c \in Conn, HandleClaimControl(c)
  PROVE  IInv'
  <1> USE DEF IInv
  <1>1. CASE ~IsMember(c) /\ Refuse(c, "bad-message")
    BY <1>1, RefuseInv DEF ErrorCode
  <1>2. CASE IsMember(c) /\ ~ControlFree /\ Refuse(c, "control-taken")
    BY <1>2, RefuseInv DEF ErrorCode
  <1>3. CASE IsMember(c) /\ ControlFree /\ controllerId' = connId[c]
             /\ sent' = Broadcast(Recipients(clients),
                                  [type |-> "roleChanged", clientId |-> connId[c],
                                   role |-> "controller"])
             /\ UNCHANGED <<connId, clients, decks, serverSeq, closed, gone>>
    <2>1. connId[c] \in ClientId
      BY <1>3 DEF IsMember, TypeOK
    <2>2. [type |-> "roleChanged", clientId |-> connId[c], role |-> "controller"]
            \in ServerMessage
      BY <2>1 DEF ServerMessage, Role
    <2>3. sent' \in Frames
      BY <1>3, <2>2, BroadcastTyped
    <2>4. TypeOK'
      BY <1>3, <2>1, <2>3 DEF TypeOK, Frames
    <2>5. MembershipExact'
      BY <1>3 DEF MembershipExact, IsMember, Registered
    <2>6. ControllerIsMember'
      BY <1>3, <2>1, RoomAssumption DEF ControllerIsMember, Registered, IsMember
    <2> QED BY <2>4, <2>5, <2>6
  <1> QED BY <1>1, <1>2, <1>3 DEF HandleClaimControl

(* Releasing control, by its holder. *)
LEMMA ReleaseInv ==
  ASSUME IInv, NEW c \in Conn, HandleReleaseControl(c)
  PROVE  IInv'
  <1> USE DEF IInv
  <1>1. CASE ~IsMember(c) /\ Refuse(c, "bad-message")
    BY <1>1, RefuseInv DEF ErrorCode
  <1>2. CASE IsMember(c) /\ controllerId # connId[c] /\ Refuse(c, "not-controller")
    BY <1>2, RefuseInv DEF ErrorCode
  <1>3. CASE IsMember(c) /\ controllerId = connId[c] /\ controllerId' = NoId
             /\ sent' = Broadcast(Recipients(clients),
                                  [type |-> "roleChanged", clientId |-> connId[c],
                                   role |-> "observer"])
             /\ UNCHANGED <<connId, clients, decks, serverSeq, closed, gone>>
    <2>1. [type |-> "roleChanged", clientId |-> connId[c], role |-> "observer"]
            \in ServerMessage
      BY <1>3 DEF IsMember, TypeOK, ServerMessage, Role
    <2>2. sent' \in Frames
      BY <1>3, <2>1, BroadcastTyped
    <2>3. TypeOK'
      BY <1>3, <2>2 DEF TypeOK, Frames
    <2>4. MembershipExact'
      BY <1>3 DEF MembershipExact, IsMember, Registered
    <2> QED BY <1>3, <2>3, <2>4 DEF ControllerIsMember
  <1> QED BY <1>1, <1>2, <1>3 DEF HandleReleaseControl

(* A delta, refused or applied. *)
LEMMA DeltaInv ==
  ASSUME IInv, NEW c \in Conn, NEW d \in Deck, NEW changes \in Changes,
         HandleDelta(c, d, changes)
  PROVE  IInv'
  <1> USE DEF IInv
  <1>1. CASE ~IsMember(c) /\ Refuse(c, "bad-message")
    BY <1>1, RefuseInv DEF ErrorCode
  <1>2. CASE IsMember(c) /\ ~ValidDelta(changes) /\ Refuse(c, "bad-message")
    BY <1>2, RefuseInv DEF ErrorCode
  <1>3. CASE sent' = Reply(c, <<ErrorMessage("not-controller"), SnapshotMessage>>)
             /\ UNCHANGED roomState
    <2>1. <<ErrorMessage("not-controller"), SnapshotMessage>> \in Seq(ServerMessage)
      BY ErrorTyped, SnapshotTyped DEF ErrorCode
    <2>2. sent' \in Frames
      BY <1>3, <2>1, ReplyTyped
    <2> QED BY <1>3, <2>2, RefusalInv
  <1>4. CASE IsMember(c) /\ serverSeq < MaxSeq
             /\ decks' = [decks EXCEPT ![d] = Merge(Target(d), changes)]
             /\ serverSeq' = serverSeq + 1
             /\ sent' = Broadcast(Recipients(clients) \ {c},
                                  [type |-> "delta", serverSeq |-> serverSeq',
                                   sourceClientId |-> connId[c], deck |-> d,
                                   changes |-> changes])
             /\ UNCHANGED <<connId, clients, controllerId, closed, gone>>
    <2>1. Target(d) \in DeckState
      BY ProtocolAssumption DEF Target, TypeOK, Decks
    <2>2. decks' \in Decks
      BY <1>4, <2>1, MergeTyped DEF TypeOK, Decks
    <2>3. serverSeq' \in 0 .. MaxSeq /\ serverSeq' \in Nat
      BY <1>4, RoomAssumption DEF TypeOK
    <2>4. connId[c] \in ClientId
      BY <1>4 DEF IsMember, TypeOK
    <2>5. [type |-> "delta", serverSeq |-> serverSeq', sourceClientId |-> connId[c],
           deck |-> d, changes |-> changes] \in ServerMessage
      BY <2>3, <2>4 DEF ServerMessage
    <2>6. sent' \in Frames
      BY <1>4, <2>5, BroadcastTyped
    <2>7. TypeOK'
      BY <1>4, <2>2, <2>3, <2>6 DEF TypeOK, Frames
    <2>8. MembershipExact' /\ ControllerIsMember'
      BY <1>4 DEF MembershipExact, IsMember, Registered, ControllerIsMember
    <2> QED BY <2>7, <2>8
  <1> QED BY <1>1, <1>2, <1>3, <1>4 DEF HandleDelta

(* Any call of handleMessage. *)
LEMMA MessageInv ==
  ASSUME IInv, NEW c \in Conn, NEW msg \in ClientMessage, HandleMessage(c, msg)
  PROVE  IInv'
  <1>1. CASE connId[c] = NoId /\ c \notin gone /\ HandleHello(c, msg)
    <2>1. CASE CloseHandshake(c)
      BY <2>1, CloseHandshakeInv
    <2>2. CASE \E id \in ClientId : Register(c, id)
      BY <1>1, <2>2, RegisterInv
    <2> QED BY <1>1, <2>1, <2>2 DEF HandleHello
  <1>2. CASE Refuse(c, "bad-message")
    BY <1>2, RefuseInv DEF ErrorCode
  <1>3. CASE HandleClaimControl(c)
    BY <1>3, ClaimInv
  <1>4. CASE HandleReleaseControl(c)
    BY <1>4, ReleaseInv
  <1>5. CASE msg.type = "delta" /\ HandleDelta(c, msg.deck, msg.changes)
    <2>1. msg.deck \in Deck /\ msg.changes \in Changes
      BY <1>5 DEF ClientMessage
    <2> QED BY <1>5, <2>1, DeltaInv
  <1>6. CASE HandleRequestSnapshot(c)
    <2>1. <<SnapshotMessage>> \in Seq(ServerMessage)
      BY SnapshotTyped DEF IInv
    <2>2. sent' \in Frames
      BY <1>6, <2>1, ReplyTyped DEF HandleRequestSnapshot
    <2> QED BY <1>6, <2>2, RefusalInv DEF HandleRequestSnapshot
  <1> QED BY <1>1, <1>2, <1>3, <1>4, <1>5, <1>6 DEF HandleMessage

(* A departure, or a repeated close event. *)
LEMMA DisconnectInv ==
  ASSUME IInv, NEW c \in Conn, HandleDisconnect(c)
  PROVE  IInv'
  <1> USE DEF IInv
  <1>1. CASE ~Evictable(c)
    <2>1. sent' \in Frames /\ UNCHANGED <<clients, controllerId>>
      BY <1>1, SilenceTyped DEF HandleDisconnect
    <2>2. TypeOK'
      BY <2>1 DEF HandleDisconnect, TypeOK, Frames
    <2>3. MembershipExact'
      BY <1>1, <2>1 DEF HandleDisconnect, MembershipExact, IsMember, Registered, Evictable
    <2> QED BY <2>1, <2>2, <2>3 DEF ControllerIsMember, Registered
  <1>2. CASE Evictable(c)
    <2> DEFINE id == connId[c]
    <2>1. id \in ClientId /\ clients[id] = c
      BY <1>2 DEF Evictable, TypeOK
    <2>2. clients' = [clients EXCEPT ![id] = NoConn] /\ controllerId' = ControlAfter(id)
      BY <1>2 DEF HandleDisconnect
    <2>3. [type |-> "peerLeft", clientId |-> id] \in ServerMessage
      BY <2>1 DEF ServerMessage
    <2>4. sent' \in Frames
      BY <1>2, <2>3, BroadcastTyped DEF HandleDisconnect
    <2>5. TypeOK'
      BY <2>1, <2>2, <2>4 DEF HandleDisconnect, TypeOK, ControlAfter, Frames
    <2>6. MembershipExact'
      <3>1. ASSUME NEW x \in Conn, x # c, connId[x] # NoId
            PROVE  IsMember(x)' <=> IsMember(x)
        BY <2>1, <2>2, <3>1, RoomAssumption
           DEF HandleDisconnect, TypeOK, IsMember, MembershipExact
      <3>2. ~IsMember(c)' /\ c \in gone'
        BY <2>1, <2>2, RoomAssumption DEF HandleDisconnect, TypeOK, IsMember
      <3>3. ASSUME NEW x \in Conn
            PROVE  IsMember(x)' <=> connId'[x] # NoId /\ x \notin gone'
        BY <3>1, <3>2 DEF HandleDisconnect, MembershipExact, IsMember
      <3>4. ASSUME NEW i \in ClientId, clients'[i] # NoConn
            PROVE  connId'[clients'[i]] = i
        BY <2>1, <2>2, <3>4 DEF HandleDisconnect, TypeOK, MembershipExact, Registered
      <3> QED BY <3>3, <3>4 DEF MembershipExact, Registered, IsMember
    <2>7. ControllerIsMember'
      BY <2>1, <2>2 DEF ControllerIsMember, ControlAfter, Registered, TypeOK
    <2> QED BY <2>5, <2>6, <2>7
  <1> QED BY <1>1, <1>2

(* Every step preserves the invariant. *)
LEMMA NextInv == IInv /\ [Next]_vars => IInv'
  <1> SUFFICES ASSUME IInv, [Next]_vars PROVE IInv'
    OBVIOUS
  <1>1. CASE \E c \in Conn : \E msg \in ClientMessage : HandleMessage(c, msg)
    BY <1>1, MessageInv
  <1>2. CASE \E c \in Conn : HandleDisconnect(c)
    BY <1>2, DisconnectInv
  <1>3. CASE UNCHANGED vars
    BY <1>3 DEF vars, IInv, TypeOK, MembershipExact, ControllerIsMember, IsMember,
                Registered
  <1> QED BY <1>1, <1>2, <1>3 DEF Next

(* The inductive invariant holds throughout. *)
THEOREM RoomInvariant == Spec => []IInv
  <1> QED BY InitInv, NextInv, PTL DEF Spec

(* Types: in particular every frame the room hands to conn.send is one of   *)
(* the protocol, and every deck it keeps has all its fields.               *)
THEOREM RoomTypes == Spec => []TypeOK
  <1>1. IInv => TypeOK
    BY DEF IInv
  <1> QED BY <1>1, RoomInvariant, PTL

(* Ids may be drawn again and close events repeated or late: the registry  *)
(* still holds exactly the connections that said hello and are not gone.   *)
THEOREM RegistryExact == Spec => []MembershipExact
  <1>1. IInv => MembershipExact
    BY DEF IInv
  <1> QED BY <1>1, RoomInvariant, PTL

(* Control never stays with somebody who has left. *)
THEOREM ControlHeldByMember == Spec => []ControllerIsMember
  <1>1. IInv => ControllerIsMember
    BY DEF IInv
  <1> QED BY <1>1, RoomInvariant, PTL

-----------------------------------------------------------------------------
(* What a step does to the registry, to control and to the decks: one of   *)
(* six things.  The action properties and the refinement follow from this. *)

Quiet == UNCHANGED <<clients, controllerId, decks, serverSeq>>

Joins(c, id) ==
    /\ clients[id] = NoConn /\ ~RoomFull
    /\ clients' = [clients EXCEPT ![id] = c]
    /\ UNCHANGED <<controllerId, decks, serverSeq>>

MemberAs(c, id) == clients[id] = c /\ c # NoConn

Claims(c, id) ==
    /\ MemberAs(c, id) /\ controllerId = NoId
    /\ controllerId' = id
    /\ UNCHANGED <<clients, decks, serverSeq>>

Releases(c, id) ==
    /\ MemberAs(c, id) /\ controllerId = id
    /\ controllerId' = NoId
    /\ UNCHANGED <<clients, decks, serverSeq>>

Writes(c, id) ==
    /\ MemberAs(c, id) /\ controllerId = id
    /\ serverSeq' = serverSeq + 1
    /\ \E msg : sent' = Broadcast(Recipients(clients) \ {c}, msg)
    /\ UNCHANGED <<clients, controllerId>>

Leaves(c, id) ==
    /\ MemberAs(c, id)
    /\ clients' = [clients EXCEPT ![id] = NoConn]
    /\ controllerId' = ControlAfter(id)
    /\ UNCHANGED <<decks, serverSeq>>

Step(c, id) ==
    Joins(c, id) \/ Claims(c, id) \/ Releases(c, id) \/ Writes(c, id) \/ Leaves(c, id)

(* A member is a connection registered under its own id. *)
LEMMA MemberHasId ==
  ASSUME TypeOK, NEW c \in Conn, IsMember(c)
  PROVE  connId[c] \in ClientId /\ MemberAs(c, connId[c])
  BY RoomAssumption DEF TypeOK, IsMember, MemberAs

(* handleMessage does one of the six. *)
LEMMA MessageStep ==
  ASSUME IInv, NEW c \in Conn, NEW msg \in ClientMessage, HandleMessage(c, msg)
  PROVE  Quiet \/ \E id \in ClientId : Step(c, id)
  <1>1. CASE HandleHello(c, msg)
    <2>1. CASE CloseHandshake(c)
      BY <2>1 DEF CloseHandshake, Quiet
    <2>2. CASE ~RoomFull /\ \E id \in ClientId : Register(c, id)
      <3>1. PICK id \in ClientId : Register(c, id)
        BY <2>2
      <3>2. Joins(c, id)
        BY <2>2, <3>1 DEF Register, FreeId, Joins
      <3> QED BY <3>2 DEF Step
    <2> QED BY <1>1, <2>1, <2>2 DEF HandleHello
  <1>2. CASE UNCHANGED roomState
    BY <1>2 DEF roomState, Quiet
  <1>3. CASE HandleClaimControl(c)
    <2>1. CASE IsMember(c) /\ ControlFree
      BY <1>3, <2>1, MemberHasId
         DEF IInv, HandleClaimControl, Refuse, ControlFree, Step, Claims, roomState, Quiet
    <2> QED BY <1>3, <2>1 DEF HandleClaimControl, Refuse, roomState, Quiet
  <1>4. CASE HandleReleaseControl(c)
    <2>1. CASE IsMember(c) /\ controllerId = connId[c]
      BY <1>4, <2>1, MemberHasId
         DEF IInv, HandleReleaseControl, Refuse, Step, Releases, roomState, Quiet
    <2> QED BY <1>4, <2>1 DEF HandleReleaseControl, Refuse, roomState, Quiet
  <1>5. CASE HandleDelta(c, msg.deck, msg.changes)
    <2>1. CASE UNCHANGED roomState
      BY <2>1 DEF roomState, Quiet
    <2>2. CASE ~UNCHANGED roomState
      <3>1. IsMember(c) /\ MayWrite(c)
        BY <1>5, <2>2 DEF HandleDelta, Refuse
      <3>2. Writes(c, connId[c])
        BY <1>5, <2>2, <3>1, MemberHasId DEF IInv, HandleDelta, Refuse, MayWrite, Writes
      <3> QED BY <3>1, <3>2, MemberHasId DEF IInv, Step
    <2> QED BY <2>1, <2>2
  <1> QED BY <1>1, <1>2, <1>3, <1>4, <1>5
          DEF HandleMessage, Refuse, HandleRequestSnapshot

(* handleDisconnect is a departure, or nothing. *)
LEMMA DisconnectStep ==
  ASSUME IInv, NEW c \in Conn, HandleDisconnect(c)
  PROVE  Quiet \/ \E id \in ClientId : Step(c, id)
  <1>1. CASE Evictable(c)
    <2>1. connId[c] \in ClientId /\ MemberAs(c, connId[c])
      BY <1>1, MemberHasId DEF IInv, Evictable, IsMember
    <2>2. Leaves(c, connId[c])
      BY <1>1, <2>1 DEF HandleDisconnect, Leaves
    <2> QED BY <2>1, <2>2 DEF Step
  <1> QED BY <1>1 DEF HandleDisconnect, Quiet

(* Every step of the room keeps the invariant. *)
LEMMA NextStep ==
  ASSUME IInv, [Next]_vars
  PROVE  Quiet \/ \E c \in Conn, id \in ClientId : Step(c, id)
  <1>1. CASE UNCHANGED vars
    BY <1>1 DEF vars, Quiet
  <1> QED BY <1>1, MessageStep, DisconnectStep DEF Next

(* No connection gets control except out of nobody's hands and as a member *)
(* already: no take-over, and no inheritance with a re-drawn id.           *)
THEOREM NoInheritance == Spec => ControlNeverInherited
  <1> DEFINE Untaken == Holder' # Holder /\ Holder' # NoConn
                          => Holder = NoConn /\ Holder' \in Recipients(clients)
  <1>1. ASSUME IInv, [Next]_vars PROVE [Untaken]_vars
    <2>1. ASSUME Quiet PROVE Untaken
      BY <2>1 DEF Quiet, Holder
    <2>2. ASSUME NEW c \in Conn, NEW id \in ClientId, Step(c, id) PROVE Untaken
      <3> USE <1>1 DEF IInv, TypeOK, ControllerIsMember, Registered, Holder
      <3>1. CASE Joins(c, id)
        BY <3>1 DEF Joins
      <3>2. CASE Claims(c, id)
        BY <3>2, ProtocolAssumption DEF Claims, MemberAs, Recipients
      <3>3. CASE Releases(c, id)
        BY <3>3 DEF Releases
      <3>4. CASE Writes(c, id)
        BY <3>4 DEF Writes
      <3>5. CASE Leaves(c, id)
        BY <3>5 DEF Leaves, ControlAfter
      <3> QED BY <2>2, <3>1, <3>2, <3>3, <3>4, <3>5 DEF Step
    <2> QED BY <1>1, <2>1, <2>2, NextStep
  <1> QED BY <1>1, RoomInvariant, PTL DEF Spec, ControlNeverInherited

(* A write reaches every member but the connection in control, which is    *)
(* the one that made it.                                                   *)
THEOREM WritesToldToOthers == Spec => WriteToldToOthers
  <1> DEFINE Told == serverSeq' # serverSeq
                       => {c \in Conn : sent'[c] # <<>>} = Recipients(clients) \ {Holder}
  <1>1. ASSUME IInv, [Next]_vars PROVE [Told]_vars
    <2>1. ASSUME Quiet PROVE Told
      BY <2>1 DEF Quiet
    <2>2. ASSUME NEW c \in Conn, NEW id \in ClientId, Step(c, id) PROVE Told
      <3>1. CASE Writes(c, id)
        <4>1. Holder = c
          BY <3>1, ProtocolAssumption DEF Writes, MemberAs, Holder
        <4>2. Recipients(clients) \subseteq Conn
          BY <1>1 DEF IInv, TypeOK, Recipients, Registered
        <4>3. PICK msg : sent' = Broadcast(Recipients(clients) \ {c}, msg)
          BY <3>1 DEF Writes
        <4>4. \A x \in Conn : sent'[x] # <<>> <=> x \in Recipients(clients) \ {c}
          BY <4>3 DEF Broadcast
        <4> QED BY <4>1, <4>2, <4>4
      <3> QED BY <2>2, <3>1 DEF Step, Joins, Claims, Releases, Leaves
    <2> QED BY <1>1, <2>1, <2>2, NextStep
  <1> QED BY <1>1, RoomInvariant, PTL DEF Spec, WriteToldToOthers

-----------------------------------------------------------------------------
(* The room implements the control token.                                  *)

(* A room with a free place has fewer members than its capacity. *)
LEMMA RoomLeft ==
  ASSUME ~RoomFull
  PROVE  Cardinality(Registered(clients)) < MaxClients
  <1>1. IsFiniteSet(Registered(clients))
    BY FiniteIds, FS_Subset DEF Registered
  <1>2. Cardinality(Registered(clients)) \in Nat
    BY <1>1, FS_CardinalityType
  <1> QED BY <1>2, RoomAssumption DEF RoomFull

(* Each of the six things is a step of the token, or leaves it alone. *)
LEMMA StepImplements ==
  ASSUME IInv, IInv', NEW c \in Conn, NEW id \in ClientId, Step(c, id)
  PROVE  Token!Next
  <1> USE DEF IInv, TypeOK
  <1>1. CASE Joins(c, id)
    <2>1. Registered(clients') = Registered(clients) \cup {id}
      BY <1>1, RoomAssumption DEF Joins, Registered
    <2>2. Registered(clients)' = Registered(clients')
      BY DEF Registered
    <2>3. id \notin Registered(clients)
      BY <1>1 DEF Joins, Registered
    <2>4. Cardinality(Registered(clients)) < MaxClients
      BY <1>1, RoomLeft DEF Joins
    <2>5. UNCHANGED <<controllerId, decks, serverSeq>>
      BY <1>1 DEF Joins
    <2>6. Token!Join(id)
      BY <2>1, <2>2, <2>3, <2>4, <2>5 DEF Token!Join, Token!Cardinality, Cardinality
    <2> QED BY <2>6 DEF Token!Next
  <1>2. CASE Claims(c, id)
    <2>1. Token!Claim(id)
      BY <1>2 DEF Claims, MemberAs, Token!Claim, Registered
    <2> QED BY <2>1 DEF Token!Next
  <1>3. CASE Releases(c, id)
    <2>1. Token!Release(id)
      BY <1>3 DEF Releases, MemberAs, Token!Release, Registered
    <2> QED BY <2>1 DEF Token!Next
  <1>4. CASE Writes(c, id)
    <2>1. Token!Write(id)
      BY <1>4 DEF Writes, MemberAs, Token!Write, Registered
    <2> QED BY <2>1 DEF Token!Next
  <1>5. CASE Leaves(c, id)
    <2>1. Registered(clients)' = Registered(clients) \ {id}
      BY <1>5 DEF Leaves, Registered
    <2>2. Token!Leave(id)
      BY <1>5, <2>1 DEF Leaves, MemberAs, Token!Leave, ControlAfter, Registered
    <2> QED BY <2>2 DEF Token!Next
  <1> QED BY <1>1, <1>2, <1>3, <1>4, <1>5 DEF Step

(* Seen through the registry, the room is a control token: what ids, late  *)
(* calls and refusals do never shows.                                      *)
THEOREM RoomImplementsToken == Spec => TokenSpec
  <1>1. Init => Token!Init
    <2>1. Init => Registered(clients) = {}
      BY DEF Init, Registered
    <2> QED BY <2>1, InitInv DEF Init, IInv, TypeOK, Token!Init
  <1>2. IInv /\ IInv' /\ [Next]_vars => [Token!Next]_(Token!tokenVars)
    <2> SUFFICES ASSUME IInv, IInv', [Next]_vars
                 PROVE  Token!Next \/ UNCHANGED Token!tokenVars
      OBVIOUS
    <2>1. CASE Quiet
      BY <2>1 DEF Quiet, Token!tokenVars, Registered
    <2> QED BY <2>1, NextStep, StepImplements
  <1> QED BY <1>1, <1>2, RoomInvariant, PTL DEF Spec, TokenSpec, Token!Spec
=============================================================================
