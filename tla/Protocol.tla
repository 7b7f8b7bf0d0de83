------------------------------ MODULE Protocol ------------------------------
(***************************************************************************)
(* The vocabulary of the wire, shared by the room and the clients: deck    *)
(* states and the changes of a delta (server/src/protocol.js,              *)
(* client/src/model), and the messages in both directions                  *)
(* (docs/plan/02-protocol.md, room.js, validate.js, Serialization.cpp).    *)
(*                                                                         *)
(* Of validation only the verdict is kept.  Names, texts, the protocol     *)
(* version, the room code and the source URL are left out.                 *)
(***************************************************************************)
EXTENDS Integers, FiniteSets, Sequences

CONSTANTS
    ClientId,     \* the ids the room hands out
    Deck,         \* deck ids: "A" and "B"
    FirstDeck,    \* the deck a fresh room already has ("A")
    Field,        \* fields of a deck state
    Value,        \* their values
    DefaultDeck,  \* DEFAULT_DECK_STATE, and PlaybackState's member initializers
    NoId,         \* null, or the empty client id
    NoDeck        \* a deck the room has no state of

DeckState == [Field -> Value]

ASSUME ProtocolAssumption ==
    /\ NoId \notin ClientId /\ Field # {}
    /\ FirstDeck \in Deck
    /\ NoDeck \notin DeckState
    /\ DefaultDeck \in DeckState

Role == {"controller", "observer"}

Decks == [Deck -> DeckState \cup {NoDeck}]

(* The changes of a delta, a partial deck state.  validateChanges refuses  *)
(* an empty one, which stands here for every delta that fails validation.  *)
Changes == UNION {[S -> Value] : S \in SUBSET Field}

Peer == [clientId : ClientId, role : Role]

ErrorCode == {"bad-message", "control-taken", "not-controller"}

(* What a client may send once parsed.  "junk" is whatever is no plain     *)
(* object, has no known type, or breaks the key set of its type.           *)
ClientMessage ==
         [type : {"hello"}, valid : BOOLEAN]
    \cup [type : {"claimControl", "releaseControl", "requestSnapshot", "junk"}]
    \cup [type : {"delta"}, deck : Deck, changes : Changes]

ServerMessage ==
         [type : {"welcome"}, clientId : ClientId, role : Role,
          serverSeq : Nat, decks : Decks, peers : SUBSET Peer]
    \cup [type : {"snapshot"}, serverSeq : Nat, decks : Decks]
    \cup [type : {"delta"}, serverSeq : Nat, sourceClientId : ClientId,
          deck : Deck, changes : Changes]
    \cup [type : {"roleChanged", "peerJoined"}, clientId : ClientId, role : Role]
    \cup [type : {"peerLeft"}, clientId : ClientId]
    \cup [type : {"error"}, code : ErrorCode]

NoChanges == [f \in {} |-> NoDeck]

ValidDelta(changes) == DOMAIN changes # {}

(* Fields present in the changes win, absent ones stay. *)
Merge(old, changes) ==
    [f \in DOMAIN old \cup DOMAIN changes |->
        IF f \in DOMAIN changes THEN changes[f] ELSE old[f]]
=============================================================================
