-------------------------------- MODULE Wire --------------------------------
(***************************************************************************)
(* A deck's fields on the wire: how the client writes them                 *)
(* (client/src/model/Serialization.cpp), how the server judges them        *)
(* (server/src/validate.js), and how the client reads and clamps them      *)
(* (Serialization.cpp, Ranges.h).                                          *)
(*                                                                         *)
(* A JSON value is <<kind>> or <<kind, contents>>.  Numbers are whole and  *)
(* have the width of a double: that gain, rate and pitch are floats in the *)
(* client, and that a double may not fit one, is left out.  Of a track id  *)
(* only its verdict is kept, which the two sides share.                    *)
(***************************************************************************)
EXTENDS Integers

CONSTANTS
    TrackId,       \* strings that pass isValidTrackId, and validateTrackId
    NoTrackId,     \* the empty trackId of the client
    NoLoopPoints,  \* std::nullopt
    Low, High      \* FIELD_RANGES, and the constants of Ranges.h

NumericField == {"positionSeconds", "gain", "playbackRate", "pitchOffsetSemitones"}
BooleanField == {"playing", "repeat"}
ChangeField  == NumericField \cup BooleanField \cup {"trackId", "loop"}

ASSUME WireAssumption ==
    /\ NoTrackId \notin TrackId
    /\ NoLoopPoints \notin [inSeconds : Int, outSeconds : Int]
    /\ Low \in [NumericField \cup {"loopSeconds"} -> Int]
    /\ High \in [NumericField \cup {"loopSeconds"} -> Int]
    /\ \A f \in DOMAIN Low : Low[f] <= High[f]

Loop == [inSeconds : Int, outSeconds : Int]

FieldType(f) ==
    IF f \in NumericField THEN Int
    ELSE IF f \in BooleanField THEN BOOLEAN
    ELSE IF f = "trackId" THEN TrackId \cup {NoTrackId}
    ELSE Loop \cup {NoLoopPoints}

(* StateDelta, with at least one field. *)
IsDelta(d) ==
    /\ DOMAIN d # {} /\ DOMAIN d \subseteq ChangeField
    /\ d = [f \in DOMAIN d |-> d[f]]
    /\ \A f \in DOMAIN d : d[f] \in FieldType(f)

Null == <<"null">>

IsNumber(v)  == v[1] = "number"
IsBoolean(v) == v[1] = "boolean"
IsObject(v)  == v[1] = "object"
IsTrackId(v) == v[1] = "string" /\ v[2] \in TrackId

LoopKeys == {"inSeconds", "outSeconds"}

(* What JSON can hold here: whole numbers, and truth values. *)
IsJson(v) ==
    /\ IsNumber(v) => v[2] \in Int
    /\ IsBoolean(v) => v[2] \in BOOLEAN
    /\ IsObject(v) => \A k \in LoopKeys \cap DOMAIN v[2] :
                        IsNumber(v[2][k]) => v[2][k][2] \in Int

IsLoop(v) ==
    /\ IsObject(v)
    /\ DOMAIN v[2] = LoopKeys
    /\ IsNumber(v[2].inSeconds) /\ IsNumber(v[2].outSeconds)
    /\ v[2].inSeconds[2] < v[2].outSeconds[2]

Within(f, n) == Low[f] <= n /\ n <= High[f]

Clamp(f, n) == IF n < Low[f] THEN Low[f] ELSE IF n > High[f] THEN High[f] ELSE n

-----------------------------------------------------------------------------
(* The server: whatever is out of range is refused.                        *)

ValidField(f, v) ==
    \/ f \in NumericField /\ IsNumber(v) /\ Within(f, v[2])
    \/ f \in BooleanField /\ IsBoolean(v)
    \/ f = "trackId" /\ (v = Null \/ IsTrackId(v))
    \/ f = "loop" /\
        \/ v = Null
        \/ /\ IsLoop(v)
           /\ Within("loopSeconds", v[2].inSeconds[2])
           /\ Within("loopSeconds", v[2].outSeconds[2])

ValidChanges(changes) ==
    /\ DOMAIN changes # {}
    /\ DOMAIN changes \subseteq ChangeField
    /\ \A f \in DOMAIN changes : ValidField(f, changes[f])
    /\ "playing" \in DOMAIN changes /\ changes["playing"] = <<"boolean", TRUE>> =>
        "positionSeconds" \in DOMAIN changes

-----------------------------------------------------------------------------
(* The client: whatever has the right type is read, then clamped.          *)

Readable(f, v) ==
    \/ f \in NumericField /\ IsNumber(v)
    \/ f \in BooleanField /\ IsBoolean(v)
    \/ f = "trackId" /\ (v = Null \/ IsTrackId(v))
    \/ f = "loop" /\ (v = Null \/ IsLoop(v))

(* fromVar<StateDelta> *)
Parses(changes) ==
    /\ DOMAIN changes \subseteq ChangeField
    /\ \A f \in DOMAIN changes : Readable(f, changes[f])

Meaning(f, v) ==
    CASE f = "trackId" -> IF v = Null THEN NoTrackId ELSE v[2]
      [] f = "loop" -> IF v = Null THEN NoLoopPoints
                       ELSE [inSeconds  |-> v[2].inSeconds[2],
                             outSeconds |-> v[2].outSeconds[2]]
      [] OTHER -> v[2]

Parsed(changes) == [f \in DOMAIN changes |-> Meaning(f, changes[f])]

(* Two ends that are clamped together are no loop. *)
ClampedPoints(points) ==
    LET fit == [inSeconds  |-> Clamp("loopSeconds", points.inSeconds),
                outSeconds |-> Clamp("loopSeconds", points.outSeconds)]
    IN  IF fit.inSeconds < fit.outSeconds THEN fit ELSE NoLoopPoints

ClampedField(f, x) ==
    IF f \in NumericField THEN Clamp(f, x)
    ELSE IF f = "loop" /\ x # NoLoopPoints THEN ClampedPoints(x) ELSE x

(* ranges::clamp *)
Clamped(d) == [f \in DOMAIN d |-> ClampedField(f, d[f])]

(* What is left in a delta that has been clamped. *)
InRange(d) ==
    \A f \in DOMAIN d :
        /\ f \in NumericField => Within(f, d[f])
        /\ f = "loop" /\ d[f] # NoLoopPoints =>
            /\ d[f].inSeconds < d[f].outSeconds
            /\ Within("loopSeconds", d[f].inSeconds)
            /\ Within("loopSeconds", d[f].outSeconds)

(* MUTANT: what parses is taken as it is. *)
ReadUnclamped(changes) == Parsed(changes)

(* What a delta makes of its raw changes, once they parse. *)
Read(changes) == Clamped(Parsed(changes))

Written(f, x) ==
    CASE f = "trackId" -> IF x = NoTrackId THEN Null ELSE <<"string", x>>
      [] f = "loop" -> IF x = NoLoopPoints THEN Null
                       ELSE <<"object", [inSeconds  |-> <<"number", x.inSeconds>>,
                                         outSeconds |-> <<"number", x.outSeconds>>]>>
      [] f \in BooleanField -> <<"boolean", x>>
      [] OTHER -> <<"number", x>>

(* buildDelta *)
Built(d) == [f \in DOMAIN d |-> Written(f, d[f])]

-----------------------------------------------------------------------------
(* Deltas of this client on their way to the wire.                         *)

(* MUTANT: playback may start without a position. *)
StoredAsGiven(d, position) == Clamped(d)

(* StateManager::applyDelta: clamped, and playing with a position. *)
Stored(d, position) ==
    LET c == Clamped(d)
    IN  IF "playing" \in DOMAIN c /\ "positionSeconds" \notin DOMAIN c /\ c["playing"]
        THEN [f \in DOMAIN c \cup {"positionSeconds"} |->
                IF f = "positionSeconds" THEN position ELSE c[f]]
        ELSE c

(* mergeField *)
Coalesced(a, b) ==
    [f \in DOMAIN a \cup DOMAIN b |-> IF f \in DOMAIN b THEN b[f] ELSE a[f]]
=============================================================================
