------------------------------ MODULE Transport ------------------------------
(***************************************************************************)
(* The client's end of its connection: WebSocketTransport, driven by the   *)
(* connection panel and MainComponent.  Callbacks of the socket run on     *)
(* its own thread; all they do is check a frame and queue a closure for    *)
(* the message thread, which runs closures and the user's clicks.          *)
(*                                                                         *)
(* A closure carries the alive flag of the connection that queued it.      *)
(* What it then does to roles and peers is in module Client.  Snapshots    *)
(* carry one deck here.  Of a frame that is no readable message only that  *)
(* is kept ("junk"), of roleChanged, peerJoined, peerLeft and error only   *)
(* that they are handed over ("event").                                    *)
(***************************************************************************)
EXTENDS Wire, Sequences, FiniteSets

CONSTANTS
    IntMax,        \* numeric_limits<int>::max()
    DefaultState,  \* PlaybackState's member initializers
    RawDelta,      \* changes that a delta frame may carry
    RawState,      \* deck states that a welcome or a snapshot may carry
    LocalEdit,     \* deltas of this client's own controls
    LocalState,    \* states of its deck
    MaxAttempts, MaxSpoken, MaxInbound, MaxQueue, MaxSeq    \* bounds of the model

NoSeq   == -1
Nothing == [kind |-> "nothing"]

ASSUME TransportAssumption ==
    /\ IntMax \in Nat
    /\ \A s \in LocalState \cup {DefaultState} : IsDelta(s) /\ DOMAIN s = ChangeField
    /\ \A e \in LocalEdit : IsDelta(e)
    /\ \A raw \in RawDelta \cup RawState : \A f \in DOMAIN raw : IsJson(raw[f])
    /\ MaxAttempts \in Nat /\ MaxSpoken \in Nat /\ MaxSeq \in Nat
    /\ MaxInbound \in Nat /\ MaxQueue \in Nat

VARIABLES
    attempt,    \* calls of connect()
    alive,      \* the alive flag of each
    socket,     \* ws_: "none", "connecting", "open", "closed"
    cut,        \* the other end has closed it
    wire,       \* frames that wait to be read from it
    spoken,     \* frames the server has written in this attempt
    serverSeq,  \* the room's counter
    lastSeen,   \* lastSeenServerSeq_
    queue,      \* closures that wait for the message thread
    status,     \* the panel's status; connected_ iff "connected"
    got,        \* the latest frame handed to MainComponent in this attempt
    heard,      \* what this step handed to MainComponent
    sent        \* what this step wrote to the socket

network  == <<socket, cut, wire, spoken, serverSeq>>
receiver == <<lastSeen, queue>>
user     == <<attempt, alive, status, got>>
vars     == <<network, receiver, user, heard, sent>>

Init ==
    /\ attempt = 0 /\ alive = [k \in 0 .. MaxAttempts |-> FALSE]
    /\ socket = "none" /\ cut = FALSE /\ wire = <<>> /\ spoken = 0
    /\ serverSeq = 0
    /\ lastSeen = NoSeq /\ queue = <<>>
    /\ status = "idle" /\ got = 0
    /\ heard = Nothing /\ sent = Nothing

Quiet == heard' = Nothing /\ sent' = Nothing

(* marshal *)
Marshal(k, call) == queue' = Append(queue, [attempt |-> k, call |-> call])

Lost == [kind |-> "lost"]

(* sendMessage *)
Write(message) == sent' = IF socket = "open" THEN message ELSE Nothing

-----------------------------------------------------------------------------
(* The user, on the message thread.                                        *)

(* MUTANT: the flag of the connection that is given up stays up. *)
FlagsLeftUp == [alive EXCEPT ![attempt + 1] = TRUE]

(* teardown, then the flag of the new connection. *)
FlagsOfNext == [alive EXCEPT ![attempt] = FALSE, ![attempt + 1] = TRUE]

(* Connect, while the panel is not connected: what went before is torn     *)
(* down.  A hello that cannot be built is reported by a closure as well.   *)
ConnectRequested(helloValid) ==
    /\ status # "connected"
    /\ attempt < MaxAttempts                                    \* model bound
    /\ attempt' = attempt + 1
    /\ alive' = FlagsOfNext
    /\ status' = "connecting"
    /\ got' = 0 /\ spoken' = 0 /\ cut' = FALSE /\ wire' = <<>>
    /\ \/ /\ helloValid
          /\ socket' = "connecting" /\ lastSeen' = NoSeq
          /\ UNCHANGED queue
       \/ /\ ~helloValid
          /\ socket' = "none" /\ Marshal(attempt + 1, Lost)
          /\ UNCHANGED lastSeen
    /\ Quiet /\ UNCHANGED serverSeq

(* Disconnect: teardown, and the panel is told at once. *)
DisconnectRequested ==
    /\ status = "connected"
    /\ alive' = [alive EXCEPT ![attempt] = FALSE]
    /\ socket' = "none" /\ wire' = <<>>
    /\ status' = "down"
    /\ Quiet
    /\ UNCHANGED <<attempt, got, cut, spoken, serverSeq, receiver>>

(* What its own deltas change: edits, which StateManager stores and the    *)
(* publisher may merge, and whole decks, for peers after a change of       *)
(* control.                                                                *)
OwnChanges ==
    LET edits == {Stored(e, Clamped(s)["positionSeconds"]) : e \in LocalEdit, s \in LocalState}
    IN       {Built(a) : a \in edits}
        \cup {Built(Coalesced(a, b)) : a \in edits, b \in edits}
        \cup {Built(Clamped(s)) : s \in LocalState}

(* sendDelta, sendClaimControl, sendReleaseControl *)
AppSends ==
    /\ status = "connected"
    /\ \/ \E changes \in OwnChanges : Write([kind |-> "delta", changes |-> changes])
       \/ Write([kind |-> "claimControl"]) \/ Write([kind |-> "releaseControl"])
    /\ heard' = Nothing
    /\ UNCHANGED <<network, receiver, user>>

-----------------------------------------------------------------------------
(* The closures, on the message thread.                                    *)

(* fromVar<PlaybackState>, clamp: an absent field has its default. *)
ReadState(raw) ==
    Clamped([f \in ChangeField |-> IF f \in DOMAIN raw THEN Meaning(f, raw[f])
                                                       ELSE DefaultState[f]])

(* applyDeckSnapshot, which drops a state that it cannot read. *)
Snapshot(frame) ==
    IF Parses(frame.raw)
    THEN [kind |-> "deck", raw |-> frame.raw, delta |-> ReadState(frame.raw)]
    ELSE Nothing

(* What MainComponent receives. *)
HandedOver(call) ==
    CASE call.kind \in {"welcome", "snapshot"} -> Snapshot(call)
      [] call.kind = "delta" -> [kind |-> "deck", raw |-> call.raw, delta |-> call.delta]
      [] OTHER -> Nothing

StatusAfter(call) ==
    CASE call.kind = "welcome" -> "connected"
      [] call.kind = "lost"    -> "down"
      [] OTHER                 -> status

(* MUTANT: a closure acts whoever queued it. *)
RunWhatever ==
    /\ queue # <<>>
    /\ LET call == Head(queue).call IN
        /\ status' = StatusAfter(call)
        /\ got' = IF call.kind = "lost" THEN got ELSE call.n
        /\ heard' = HandedOver(call)
    /\ queue' = Tail(queue) /\ sent' = Nothing
    /\ UNCHANGED <<network, lastSeen, attempt, alive>>

(* A closure of a connection that is gone does nothing. *)
RunNext ==
    /\ queue # <<>>
    /\ LET call == Head(queue).call IN
       IF alive[Head(queue).attempt]
       THEN /\ status' = StatusAfter(call)
            /\ got' = IF call.kind = "lost" THEN got ELSE call.n
            /\ heard' = HandedOver(call)
       ELSE heard' = Nothing /\ UNCHANGED <<status, got>>
    /\ queue' = Tail(queue) /\ sent' = Nothing
    /\ UNCHANGED <<network, lastSeen, attempt, alive>>

-----------------------------------------------------------------------------
(* The socket's thread.                                                    *)

NetOpen ==
    /\ socket = "connecting" /\ ~cut
    /\ socket' = "open"
    /\ sent' = [kind |-> "hello"]
    /\ heard' = Nothing
    /\ UNCHANGED <<cut, wire, spoken, serverSeq, receiver, user>>

(* MUTANT: zero is taken for no number. *)
SeqFromOne(n) == IF n \in 1 .. IntMax THEN n ELSE NoSeq

(* messageServerSeq: what an int cannot hold counts as absent. *)
SeqRead(n) == IF n \in 0 .. IntMax THEN n ELSE NoSeq

SeqSeen(frame) == IF SeqRead(frame.seq) = NoSeq THEN lastSeen ELSE SeqRead(frame.seq)

(* A delta is passed on even when it looks out of order. *)
AcceptDelta(frame) ==
    LET seq == SeqRead(frame.seq) IN
    /\ IF seq = NoSeq \/ lastSeen = NoSeq \/ ~(seq > lastSeen)
       THEN Write([kind |-> "requestSnapshot"]) ELSE sent' = Nothing
    /\ lastSeen' = SeqSeen(frame)
    /\ Marshal(attempt, [kind |-> "delta", n |-> frame.n, raw |-> frame.raw,
                         delta |-> Read(frame.raw)])

(* A frame is checked and handed to the message thread, or dropped. *)
NetMessage ==
    /\ socket = "open" /\ wire # <<>>
    /\ Len(queue) < MaxQueue                                    \* model bound
    /\ LET frame == Head(wire) IN
        \/ /\ \/ frame.kind = "junk"
              \/ frame.kind = "delta" /\ ~Parses(frame.raw)
           /\ sent' = Nothing /\ UNCHANGED receiver
        \/ frame.kind = "delta" /\ Parses(frame.raw) /\ AcceptDelta(frame)
        \/ /\ frame.kind \in {"welcome", "snapshot"}
           /\ lastSeen' = SeqSeen(frame)
           /\ Marshal(attempt, frame) /\ sent' = Nothing
        \/ /\ frame.kind = "event"
           /\ Marshal(attempt, frame) /\ sent' = Nothing /\ UNCHANGED lastSeen
    /\ wire' = Tail(wire) /\ heard' = Nothing
    /\ UNCHANGED <<socket, cut, spoken, serverSeq, user>>

(* MUTANT: a failed connection attempt is not reported. *)
EndUnreported ==
    /\ socket \in {"connecting", "open"} /\ cut /\ wire = <<>>
    /\ Len(queue) < MaxQueue
    /\ socket' = "closed"
    /\ IF socket = "open" THEN Marshal(attempt, Lost) ELSE UNCHANGED queue
    /\ Quiet
    /\ UNCHANGED <<cut, wire, spoken, serverSeq, lastSeen, user>>

(* Close, or Error for a connection that never opened. *)
NetEnd ==
    /\ socket \in {"connecting", "open"} /\ cut /\ wire = <<>>
    /\ Len(queue) < MaxQueue                                    \* model bound
    /\ socket' = "closed"
    /\ Marshal(attempt, Lost)
    /\ Quiet
    /\ UNCHANGED <<cut, wire, spoken, serverSeq, lastSeen, user>>

-----------------------------------------------------------------------------
(* The other end, as the server's modules have it: the welcome first,      *)
(* numbers that rise with each delta.  What is not junk need not be valid. *)

Speak(frame) ==
    /\ socket = "open" /\ ~cut
    /\ spoken < MaxSpoken /\ Len(wire) < MaxInbound             \* model bounds
    /\ IF frame.kind = "welcome" THEN spoken = 0 ELSE spoken > 0
    /\ spoken' = spoken + 1
    /\ wire' = Append(wire, frame)
    /\ serverSeq' = IF frame.kind = "delta" THEN serverSeq + 1 ELSE serverSeq
    /\ serverSeq' <= MaxSeq                                     \* model bound
    /\ Quiet
    /\ UNCHANGED <<socket, cut, receiver, user>>

(* A delta that this client is not sent: its own, or one of another time. *)
RoomMovesOn ==
    /\ serverSeq < MaxSeq                                       \* model bound
    /\ serverSeq' = serverSeq + 1
    /\ Quiet
    /\ UNCHANGED <<socket, cut, wire, spoken, receiver, user>>

Welcomes == \E raw \in RawState :
    Speak([kind |-> "welcome", n |-> spoken + 1, seq |-> serverSeq, raw |-> raw])

Speaks ==
    \/ \E raw \in RawState :
        Speak([kind |-> "snapshot", n |-> spoken + 1, seq |-> serverSeq, raw |-> raw])
    \/ \E raw \in RawDelta :
        Speak([kind |-> "delta", n |-> spoken + 1, seq |-> serverSeq + 1, raw |-> raw])
    \/ Speak([kind |-> "event", n |-> spoken + 1])
    \/ Speak([kind |-> "junk", n |-> spoken + 1])

(* The server closes, refuses the hello, or is not there. *)
Cut ==
    /\ socket \in {"connecting", "open"} /\ ~cut
    /\ cut' = TRUE
    /\ Quiet
    /\ UNCHANGED <<socket, wire, spoken, serverSeq, receiver, user>>

Next ==
    \/ \E helloValid \in BOOLEAN : ConnectRequested(helloValid)
    \/ DisconnectRequested \/ AppSends \/ RunNext
    \/ NetOpen \/ NetMessage \/ NetEnd
    \/ Welcomes \/ Speaks \/ RoomMovesOn \/ Cut

Spec == Init /\ [][Next]_vars

(* Both threads go on; a connection attempt ends one way or the other, and *)
(* the server answers a hello or closes, by its hello deadline.            *)
Fairness ==
    /\ WF_vars(RunNext) /\ WF_vars(NetMessage) /\ WF_vars(NetEnd)
    /\ WF_vars(NetOpen \/ (Cut /\ socket = "connecting"))
    /\ WF_vars((Welcomes \/ Cut) /\ spoken = 0 /\ socket = "open")

FairSpec == Spec /\ Fairness

-----------------------------------------------------------------------------
(* Correctness.                                                            *)

(* Flags, counters and channels have their types: a connection that has    *)
(* been given up is never alive again, and only the last one can be.       *)
TransportTypeOK ==
    /\ attempt \in 0 .. MaxAttempts
    /\ alive \in [0 .. MaxAttempts -> BOOLEAN]
    /\ \A k \in 0 .. MaxAttempts : alive[k] => k = attempt
    /\ socket \in {"none", "connecting", "open", "closed"} /\ cut \in BOOLEAN
    /\ spoken \in 0 .. MaxSpoken /\ got \in 0 .. spoken
    /\ serverSeq \in 0 .. MaxSeq
    /\ lastSeen \in 0 .. IntMax \cup {NoSeq}
    /\ status \in {"idle", "connecting", "connected", "down"}
    /\ status = "connected" => alive[attempt]
    /\ \A i \in DOMAIN queue : queue[i].attempt \in 1 .. attempt

L == INSTANCE Link WITH session <- attempt, shown <- status,
                        over <- socket \in {"none", "closed"} \/ cut

(* Whatever closures of earlier connections still wait, however often the  *)
(* user connects, gives up and connects again: the application hears the   *)
(* messages of its present connection only, in the order they were         *)
(* written, is connected by the first of them, and is told that the        *)
(* connection is lost only when it is this one that is.                    *)
LinkSpec == L!LinkSpec

AsTheServerHasIt(changes) ==
    DOMAIN changes # {} /\ \A f \in DOMAIN changes : f \in ChangeField /\ ValidField(f, changes[f])

(* The checks of the client never alter what those of the server let pass: *)
(* the fields of such a message reach the decks as they were written.      *)
(* Whatever else reaches them is in range, and a loop has a length.        *)
HeardAsRelayed ==
    heard # Nothing =>
        /\ InRange(heard.delta)
        /\ AsTheServerHasIt(heard.raw) =>
            \A f \in DOMAIN heard.raw : heard.delta[f] = Meaning(f, heard.raw[f])

(* The server never refuses a delta of this client: not one that merges    *)
(* several edits, not one that starts playback, not a whole deck after a   *)
(* change of control.                                                      *)
SentIsAccepted ==
    sent # Nothing /\ sent.kind = "delta" => ValidChanges(sent.changes)

(* As long as the room's counter fits an int, no frame of an orderly       *)
(* server makes the client ask for a snapshot.  Past it, every delta does. *)
AsksOnlyPastInt ==
    sent # Nothing /\ sent.kind = "requestSnapshot" => serverSeq > IntMax

(* A connection that is being set up is settled, and one that is lost is   *)
(* shown as lost: the panel's button is never stuck on a dead connection.  *)
LossIsShown ==
    /\ status = "connecting" ~> status # "connecting"
    /\ status = "connected" /\ cut ~> status # "connected"
=============================================================================
