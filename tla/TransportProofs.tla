--------------------------- MODULE TransportProofs ---------------------------
(***************************************************************************)
(* Theorems about Wire and Transport.  The first part is about single      *)
(* deltas: what the client sends passes the server's checks, what the      *)
(* server lets pass goes through the client's unchanged, so that the two   *)
(* clients of a room agree on it.                                          *)
(***************************************************************************)
EXTENDS Transport, TLAPS

USE DEF NumericField, BooleanField, ChangeField, LoopKeys

LEMMA ClampFits ==
    ASSUME NEW f \in DOMAIN Low, NEW n \in Int
    PROVE  /\ Clamp(f, n) \in Int
           /\ Within(f, Clamp(f, n))
           /\ Within(f, n) => Clamp(f, n) = n
  BY WireAssumption DEF Clamp, Within

(* A loop that is clamped is a loop in range, or none. *)
LEMMA LoopFits ==
    ASSUME NEW p \in Loop
    PROVE  /\ ClampedPoints(p) \in Loop \cup {NoLoopPoints}
           /\ ClampedPoints(p) # NoLoopPoints =>
                /\ ClampedPoints(p).inSeconds < ClampedPoints(p).outSeconds
                /\ Within("loopSeconds", ClampedPoints(p).inSeconds)
                /\ Within("loopSeconds", ClampedPoints(p).outSeconds)
           /\ /\ p.inSeconds < p.outSeconds
              /\ Within("loopSeconds", p.inSeconds)
              /\ Within("loopSeconds", p.outSeconds)
              => ClampedPoints(p) = p
  <1>1. "loopSeconds" \in DOMAIN Low
    BY WireAssumption
  <1>2. /\ p.inSeconds \in Int /\ p.outSeconds \in Int
        /\ p = [inSeconds |-> p.inSeconds, outSeconds |-> p.outSeconds]
    BY DEF Loop
  <1> QED
    BY <1>1, <1>2, ClampFits DEF ClampedPoints, Loop

(* A field's value is in range, and a loop has a length. *)
FieldInRange(f, x) ==
    /\ f \in NumericField => Within(f, x)
    /\ f = "loop" /\ x # NoLoopPoints =>
        /\ x.inSeconds < x.outSeconds
        /\ Within("loopSeconds", x.inSeconds)
        /\ Within("loopSeconds", x.outSeconds)

LEMMA FieldFits ==
    ASSUME NEW f \in ChangeField, NEW x \in FieldType(f)
    PROVE  /\ ClampedField(f, x) \in FieldType(f)
           /\ FieldInRange(f, ClampedField(f, x))
           /\ FieldInRange(f, x) => ClampedField(f, x) = x
           /\ f \notin NumericField \cup {"loop"} => ClampedField(f, x) = x
  <1>1. CASE f \in NumericField
    <2>1. f \in DOMAIN Low /\ x \in Int /\ f # "loop"
      BY <1>1, WireAssumption DEF FieldType
    <2>2. ClampedField(f, x) = Clamp(f, x) /\ FieldType(f) = Int
      BY <1>1 DEF ClampedField, FieldType
    <2> QED
      BY <1>1, <2>1, <2>2, ClampFits DEF FieldInRange
  <1>2. CASE f = "loop" /\ x # NoLoopPoints
    <2>1. x \in Loop /\ f \notin NumericField /\ FieldType(f) = Loop \cup {NoLoopPoints}
      BY <1>2 DEF FieldType
    <2>2. ClampedField(f, x) = ClampedPoints(x)
      BY <1>2, <2>1 DEF ClampedField
    <2> QED
      BY <1>2, <2>1, <2>2, LoopFits DEF FieldInRange
  <1>3. CASE f \notin NumericField /\ ~(f = "loop" /\ x # NoLoopPoints)
    BY <1>3 DEF ClampedField, FieldInRange
  <1> QED
    BY <1>1, <1>2, <1>3

LEMMA ClampedFits ==
    ASSUME NEW d, IsDelta(d)
    PROVE  /\ IsDelta(Clamped(d)) /\ InRange(Clamped(d))
           /\ DOMAIN Clamped(d) = DOMAIN d
           /\ InRange(d) => Clamped(d) = d
           /\ "playing" \in DOMAIN d => Clamped(d)["playing"] = d["playing"]
  <1>1. /\ DOMAIN Clamped(d) = DOMAIN d
        /\ \A f \in DOMAIN d : Clamped(d)[f] = ClampedField(f, d[f])
        /\ Clamped(d) = [f \in DOMAIN Clamped(d) |-> Clamped(d)[f]]
    BY DEF Clamped
  <1>2. \A f \in DOMAIN d : f \in ChangeField /\ d[f] \in FieldType(f)
    BY DEF IsDelta
  <1>3. IsDelta(Clamped(d))
    BY <1>1, <1>2, FieldFits DEF IsDelta
  <1>4. \A f \in DOMAIN d : FieldInRange(f, ClampedField(f, d[f]))
    BY <1>2, FieldFits
  <1>5. InRange(Clamped(d))
    BY <1>1, <1>4 DEF InRange, FieldInRange
  <1>6. ASSUME InRange(d) PROVE Clamped(d) = d
    <2>1. \A f \in DOMAIN d : ClampedField(f, d[f]) = d[f]
      BY <1>2, <1>6, FieldFits DEF InRange, FieldInRange
    <2> QED
      BY <2>1 DEF Clamped, IsDelta
  <1>7. "playing" \in DOMAIN d => Clamped(d)["playing"] = d["playing"]
    BY <1>1, <1>2, FieldFits
  <1> QED
    BY <1>1, <1>3, <1>5, <1>6, <1>7

-----------------------------------------------------------------------------
(* What the client sends.                                                  *)

(* A delta the server has no reason to refuse. *)
Sendable(d) ==
    /\ IsDelta(d) /\ InRange(d)
    /\ "playing" \in DOMAIN d /\ d["playing"] = TRUE => "positionSeconds" \in DOMAIN d

LEMMA StoredIsSendable ==
    ASSUME NEW d, IsDelta(d), NEW p \in Int, Within("positionSeconds", p)
    PROVE  Sendable(Stored(d, p))
  <1> DEFINE c == Clamped(d)
  <1>1. IsDelta(c) /\ InRange(c)
    BY ClampedFits
  <1>2. CASE "playing" \in DOMAIN c /\ "positionSeconds" \notin DOMAIN c /\ c["playing"]
    <2>1. Stored(d, p) = [f \in DOMAIN c \cup {"positionSeconds"} |->
                            IF f = "positionSeconds" THEN p ELSE c[f]]
      BY <1>2 DEF Stored
    <2>2. /\ DOMAIN Stored(d, p) = DOMAIN c \cup {"positionSeconds"}
          /\ Stored(d, p)["positionSeconds"] = p
          /\ \A f \in DOMAIN c : f # "positionSeconds" /\ Stored(d, p)[f] = c[f]
          /\ Stored(d, p) = [f \in DOMAIN Stored(d, p) |-> Stored(d, p)[f]]
      BY <1>2, <2>1
    <2>3. IsDelta(Stored(d, p))
      <3>1. p \in FieldType("positionSeconds")
        BY DEF FieldType
      <3>2. \A f \in DOMAIN Stored(d, p) : Stored(d, p)[f] \in FieldType(f)
        BY <1>1, <2>2, <3>1 DEF IsDelta
      <3> QED
        BY <1>1, <2>2, <3>2 DEF IsDelta
    <2>4. InRange(Stored(d, p))
      BY <1>1, <2>2 DEF InRange
    <2> QED
      BY <2>2, <2>3, <2>4 DEF Sendable
  <1>3. CASE ~("playing" \in DOMAIN c /\ "positionSeconds" \notin DOMAIN c /\ c["playing"])
    <2>1. Stored(d, p) = c
      BY <1>3 DEF Stored
    <2> QED
      BY <1>1, <1>3, <2>1 DEF Sendable
  <1> QED
    BY <1>2, <1>3

LEMMA CoalescedIsSendable ==
    ASSUME NEW a, NEW b, Sendable(a), Sendable(b)
    PROVE  Sendable(Coalesced(a, b))
  <1> DEFINE c == Coalesced(a, b)
  <1>1. /\ DOMAIN c = DOMAIN a \cup DOMAIN b
        /\ \A f \in DOMAIN b : c[f] = b[f]
        /\ \A f \in DOMAIN a \ DOMAIN b : c[f] = a[f]
        /\ c = [f \in DOMAIN c |-> c[f]]
    BY DEF Coalesced
  <1> HIDE DEF c
  <1>2. IsDelta(c)
    BY <1>1 DEF Sendable, IsDelta
  <1>3. InRange(c)
    BY <1>1 DEF Sendable, InRange
  <1> QED
    BY <1>1, <1>2, <1>3 DEF Sendable, c

(* What each field is written as, the server accepts, and another client   *)
(* reads back as it was.                                                   *)
LEMMA WrittenIsValid ==
    ASSUME NEW f \in ChangeField, NEW x \in FieldType(f), FieldInRange(f, x)
    PROVE  /\ ValidField(f, Written(f, x))
           /\ Readable(f, Written(f, x))
           /\ Meaning(f, Written(f, x)) = x
  <1>1. CASE f \in NumericField
    <2>1. Written(f, x) = <<"number", x>>
      BY <1>1 DEF Written
    <2>2. <<"number", x>>[1] = "number" /\ <<"number", x>>[2] = x
      OBVIOUS
    <2> QED
      BY <1>1, <2>1, <2>2 DEF ValidField, Readable, Meaning, IsNumber, FieldInRange
  <1>2. CASE f \in BooleanField
    <2>1. Written(f, x) = <<"boolean", x>>
      BY <1>2 DEF Written
    <2>2. <<"boolean", x>>[1] = "boolean" /\ <<"boolean", x>>[2] = x
      OBVIOUS
    <2> QED
      BY <1>2, <2>1, <2>2 DEF ValidField, Readable, Meaning, IsBoolean
  <1>3. CASE f = "trackId"
    <2>1. CASE x = NoTrackId
      BY <1>3, <2>1 DEF Written, ValidField, Readable, Meaning
    <2>2. CASE x # NoTrackId
      <3>1. Written(f, x) = <<"string", x>> /\ x \in TrackId
        BY <1>3, <2>2 DEF Written, FieldType
      <3>2. <<"string", x>>[1] = "string" /\ <<"string", x>>[2] = x /\ <<"string", x>> # Null
        BY DEF Null
      <3> QED
        BY <1>3, <3>1, <3>2 DEF ValidField, Readable, Meaning, IsTrackId
    <2> QED
      BY <2>1, <2>2
  <1>4. CASE f = "loop"
    <2>1. CASE x = NoLoopPoints
      BY <1>4, <2>1 DEF Written, ValidField, Readable, Meaning
    <2>2. CASE x # NoLoopPoints
      <3> DEFINE o == [inSeconds |-> <<"number", x.inSeconds>>,
                       outSeconds |-> <<"number", x.outSeconds>>]
                 v == <<"object", o>>
      <3>1. Written(f, x) = v /\ x \in Loop
        BY <1>4, <2>2 DEF Written, FieldType
      <3>2. /\ v[1] = "object" /\ v[2] = o /\ v # Null
            /\ DOMAIN o = LoopKeys
            /\ o.inSeconds[1] = "number" /\ o.inSeconds[2] = x.inSeconds
            /\ o.outSeconds[1] = "number" /\ o.outSeconds[2] = x.outSeconds
        BY DEF Null
      <3> HIDE DEF o, v
      <3>3. x = [inSeconds |-> x.inSeconds, outSeconds |-> x.outSeconds]
        BY <3>1 DEF Loop
      <3>4. IsLoop(v)
        BY <1>4, <2>2, <3>2 DEF IsLoop, IsObject, IsNumber, FieldInRange
      <3>5. Meaning(f, v) = x
        BY <1>4, <3>2, <3>3 DEF Meaning
      <3> QED
        BY <1>4, <2>2, <3>1, <3>2, <3>4, <3>5 DEF ValidField, Readable, FieldInRange
    <2> QED
      BY <2>1, <2>2
  <1> QED
    BY <1>1, <1>2, <1>3, <1>4

LEMMA BuiltIsValid ==
    ASSUME NEW d, Sendable(d)
    PROVE  ValidChanges(Built(d))
  <1>1. /\ DOMAIN Built(d) = DOMAIN d
        /\ \A f \in DOMAIN d : Built(d)[f] = Written(f, d[f])
    BY DEF Built
  <1>2. \A f \in DOMAIN d : f \in ChangeField /\ d[f] \in FieldType(f) /\ FieldInRange(f, d[f])
    BY DEF Sendable, IsDelta, InRange, FieldInRange
  <1>3. \A f \in DOMAIN d : ValidField(f, Built(d)[f])
    BY <1>1, <1>2, WrittenIsValid
  <1>4. "playing" \in DOMAIN d => Built(d)["playing"] = <<"boolean", d["playing"]>>
    BY <1>1 DEF Written
  <1>5. \A x, y : <<"boolean", x>> = <<"boolean", y>> => x = y
    OBVIOUS
  <1>6. "playing" \in DOMAIN d /\ Built(d)["playing"] = <<"boolean", TRUE>> => d["playing"] = TRUE
    BY <1>4, <1>5
  <1> QED
    BY <1>1, <1>2, <1>3, <1>6 DEF ValidChanges, Sendable, IsDelta

(* What one client sends, another reads as it was: nothing is lost, added, *)
(* or clamped on the way.                                                  *)
THEOREM RoundTrip ==
    ASSUME NEW d, Sendable(d)
    PROVE  Parses(Built(d)) /\ Read(Built(d)) = d
  <1>1. /\ DOMAIN Built(d) = DOMAIN d
        /\ \A f \in DOMAIN d : Built(d)[f] = Written(f, d[f])
    BY DEF Built
  <1>2. \A f \in DOMAIN d : f \in ChangeField /\ d[f] \in FieldType(f) /\ FieldInRange(f, d[f])
    BY DEF Sendable, IsDelta, InRange, FieldInRange
  <1>3. Parses(Built(d))
    BY <1>1, <1>2, WrittenIsValid DEF Parses
  <1>4. Parsed(Built(d)) = d
    <2>1. \A f \in DOMAIN d : Meaning(f, Built(d)[f]) = d[f]
      BY <1>1, <1>2, WrittenIsValid
    <2> QED
      BY <1>1, <2>1 DEF Parsed, Sendable, IsDelta
  <1> QED
    BY <1>3, <1>4, ClampedFits DEF Read, Sendable

-----------------------------------------------------------------------------
(* What the client hears.                                                  *)

LEMMA MeaningFits ==
    ASSUME NEW f \in ChangeField, NEW v, IsJson(v), Readable(f, v)
    PROVE  Meaning(f, v) \in FieldType(f)
  <1>1. CASE f \in NumericField
    BY <1>1 DEF Readable, Meaning, FieldType, IsJson
  <1>2. CASE f \in BooleanField
    BY <1>2 DEF Readable, Meaning, FieldType, IsJson
  <1>3. CASE f = "trackId"
    BY <1>3 DEF Readable, Meaning, FieldType, IsTrackId
  <1>4. CASE f = "loop"
    <2>1. CASE v = Null
      BY <1>4, <2>1 DEF Meaning, FieldType
    <2>2. CASE v # Null
      <3>1. IsLoop(v)
        BY <1>4, <2>2 DEF Readable
      <3>2. v[2]["inSeconds"][2] \in Int /\ v[2]["outSeconds"][2] \in Int
        BY <3>1 DEF IsLoop, IsJson, IsNumber
      <3>3. Meaning(f, v) = [inSeconds |-> v[2].inSeconds[2], outSeconds |-> v[2].outSeconds[2]]
        BY <1>4, <2>2 DEF Meaning
      <3> QED
        BY <1>4, <3>2, <3>3 DEF FieldType, Loop
    <2> QED
      BY <2>1, <2>2
  <1> QED
    BY <1>1, <1>2, <1>3, <1>4

LEMMA ValidIsRead ==
    ASSUME NEW f \in ChangeField, NEW v, ValidField(f, v)
    PROVE  Readable(f, v) /\ FieldInRange(f, Meaning(f, v))
  <1>1. CASE f \in NumericField
    BY <1>1 DEF ValidField, Readable, Meaning, FieldInRange
  <1>2. CASE f \in BooleanField
    BY <1>2 DEF ValidField, Readable, FieldInRange
  <1>3. CASE f = "trackId"
    BY <1>3 DEF ValidField, Readable, FieldInRange
  <1>4. CASE f = "loop"
    <2>1. CASE v = Null
      BY <1>4, <2>1 DEF ValidField, Readable, Meaning, FieldInRange
    <2>2. CASE v # Null
      <3>1. Meaning(f, v) = [inSeconds |-> v[2].inSeconds[2], outSeconds |-> v[2].outSeconds[2]]
        BY <1>4, <2>2 DEF Meaning
      <3>2. /\ IsLoop(v)
            /\ Within("loopSeconds", v[2].inSeconds[2])
            /\ Within("loopSeconds", v[2].outSeconds[2])
        BY <1>4, <2>2 DEF ValidField
      <3> QED
        BY <1>4, <3>1, <3>2 DEF Readable, FieldInRange, IsLoop
    <2> QED
      BY <2>1, <2>2
  <1> QED
    BY <1>1, <1>2, <1>3, <1>4

LEMMA FieldRead ==
    ASSUME NEW f \in ChangeField, NEW v, IsJson(v), Readable(f, v)
    PROVE  /\ FieldInRange(f, ClampedField(f, Meaning(f, v)))
           /\ ValidField(f, v) => ClampedField(f, Meaning(f, v)) = Meaning(f, v)
  BY MeaningFits, ValidIsRead, FieldFits

(* Nothing that the server lets pass is dropped by a client, or altered.   *)
THEOREM RelayedIsRead ==
    ASSUME NEW raw, \A f \in DOMAIN raw : IsJson(raw[f]), AsTheServerHasIt(raw)
    PROVE  Parses(raw) /\ Read(raw) = Parsed(raw)
  <1>1. \A f \in DOMAIN raw : /\ f \in ChangeField /\ Readable(f, raw[f])
                              /\ ClampedField(f, Meaning(f, raw[f])) = Meaning(f, raw[f])
    BY ValidIsRead, FieldRead DEF AsTheServerHasIt
  <1>2. Parses(raw)
    BY <1>1 DEF Parses
  <1>3. /\ DOMAIN Parsed(raw) = DOMAIN raw
        /\ \A f \in DOMAIN raw : Parsed(raw)[f] = Meaning(f, raw[f])
    BY DEF Parsed
  <1>4. Clamped(Parsed(raw)) = [f \in DOMAIN raw |-> Meaning(f, raw[f])]
    BY <1>1, <1>3 DEF Clamped
  <1> QED
    BY <1>2, <1>4 DEF Read, Parsed

(* What a delta frame, and a deck of a snapshot, turn into. *)
LEMMA ReadFits ==
    ASSUME NEW raw, \A f \in DOMAIN raw : IsJson(raw[f]), Parses(raw)
    PROVE  /\ InRange(Read(raw))
           /\ AsTheServerHasIt(raw) =>
                \A f \in DOMAIN raw : Read(raw)[f] = Meaning(f, raw[f])
  <1>1. /\ DOMAIN Read(raw) = DOMAIN raw
        /\ \A f \in DOMAIN raw : Read(raw)[f] = ClampedField(f, Meaning(f, raw[f]))
    BY DEF Read, Clamped, Parsed
  <1>2. \A f \in DOMAIN raw : FieldInRange(f, Read(raw)[f])
    BY <1>1, FieldRead DEF Parses
  <1>3. InRange(Read(raw))
    BY <1>1, <1>2 DEF InRange, FieldInRange
  <1>4. ASSUME AsTheServerHasIt(raw)
        PROVE  \A f \in DOMAIN raw : Read(raw)[f] = Meaning(f, raw[f])
    BY <1>1, <1>4, FieldRead DEF Parses, AsTheServerHasIt
  <1> QED
    BY <1>3, <1>4

LEMMA ReadStateFits ==
    ASSUME NEW raw, \A f \in DOMAIN raw : IsJson(raw[f]), Parses(raw)
    PROVE  /\ InRange(ReadState(raw))
           /\ AsTheServerHasIt(raw) =>
                \A f \in DOMAIN raw : ReadState(raw)[f] = Meaning(f, raw[f])
  <1> DEFINE full == [f \in ChangeField |-> IF f \in DOMAIN raw THEN Meaning(f, raw[f])
                                                               ELSE DefaultState[f]]
  <1>1. /\ DOMAIN ReadState(raw) = ChangeField
        /\ \A f \in ChangeField : ReadState(raw)[f] = ClampedField(f, full[f])
    BY DEF ReadState, Clamped
  <1>2. \A f \in ChangeField : full[f] \in FieldType(f)
    BY MeaningFits, TransportAssumption DEF Parses, IsDelta
  <1>3. \A f \in ChangeField : FieldInRange(f, ReadState(raw)[f])
    BY <1>1, <1>2, FieldFits
  <1>4. InRange(ReadState(raw))
    BY <1>1, <1>3 DEF InRange, FieldInRange
  <1>5. ASSUME AsTheServerHasIt(raw)
        PROVE  \A f \in DOMAIN raw : ReadState(raw)[f] = Meaning(f, raw[f])
    BY <1>1, <1>5, FieldRead DEF Parses, AsTheServerHasIt
  <1> QED
    BY <1>4, <1>5

-----------------------------------------------------------------------------
(* The inductive invariant.                                                *)

Frame ==
         [kind : {"welcome", "snapshot"}, n : Nat, seq : Nat, raw : RawState]
    \cup [kind : {"delta"}, n : Nat, seq : Nat, raw : RawDelta]
    \cup [kind : {"event", "junk"}, n : Nat]

Call ==
         [kind : {"welcome", "snapshot"}, n : Nat, seq : Nat, raw : RawState]
    \cup {[kind |-> "delta", n |-> n, raw |-> raw, delta |-> Read(raw)] :
            n \in Nat, raw \in {r \in RawDelta : Parses(r)}}
    \cup [kind : {"event"}, n : Nat]
    \cup {Lost}

Closure == [attempt : Nat, call : Call]

(* A closure that will act when it runs. *)
Live(i) == alive[queue[i].attempt]

Carries(i) == Live(i) /\ queue[i].call.kind # "lost"

(* There is no socket before the first attempt. *)
Origin == attempt = 0 => socket = "none"

Typed ==
    /\ TransportTypeOK /\ Origin
    /\ queue \in Seq(Closure) /\ wire \in Seq(Frame)
    /\ socket # "none" => alive[attempt]
    /\ status = "connecting" => alive[attempt]
    /\ socket \in {"none", "closed", "connecting"} => wire = <<>>
    /\ socket = "connecting" => spoken = 0

(* What is on its way is newer the later it comes. *)
Ordered ==
    /\ \A i \in DOMAIN wire : wire[i].n \in got + 1 .. spoken
    /\ \A i, j \in DOMAIN wire : i < j => wire[i].n < wire[j].n
    /\ \A i \in DOMAIN queue : Carries(i) => queue[i].call.n \in got + 1 .. spoken
    /\ \A i, j \in DOMAIN queue :
        Carries(i) /\ Carries(j) /\ i < j => queue[i].call.n < queue[j].call.n
    /\ \A i \in DOMAIN queue, j \in DOMAIN wire : Carries(i) => queue[i].call.n < wire[j].n

(* The end of a connection is the last thing heard of it. *)
EndIsLast ==
    /\ \A i \in DOMAIN queue : Live(i) /\ queue[i].call.kind = "lost" =>
        socket \in {"none", "closed"} /\ \A j \in DOMAIN queue : Live(j) => j <= i
    /\ status \in {"idle", "down"} =>
        socket \in {"none", "closed"} /\ \A i \in DOMAIN queue : ~Live(i)

WelcomeQueued(i) == Live(i) /\ queue[i].call.kind = "welcome"

WelcomeNext == wire # <<>> /\ wire[1].kind = "welcome"

(* The welcome is the first. *)
WelcomeFirst ==
    /\ \A i \in DOMAIN wire : i > 1 => wire[i].kind # "welcome"
    /\ status = "connecting" =>
        /\ \A i \in DOMAIN queue : Carries(i) => \E j \in 1 .. i : WelcomeQueued(j)
        /\ spoken > 0 => WelcomeNext \/ \E j \in DOMAIN queue : WelcomeQueued(j)

Numbered(frame) == frame.kind \in {"welcome", "snapshot", "delta"}

NumbersRise ==
    /\ lastSeen <= serverSeq
    /\ \A i \in DOMAIN wire : Numbered(wire[i]) => wire[i].seq <= serverSeq
    /\ \A j \in DOMAIN wire : wire[j].kind = "delta" =>
        /\ lastSeen < wire[j].seq
        /\ \A i \in 1 .. j - 1 : Numbered(wire[i]) => wire[i].seq < wire[j].seq
    /\ socket = "open" /\ spoken > 0 =>
        WelcomeNext \/ lastSeen # NoSeq \/ serverSeq > IntMax

TransportInv ==
    /\ Typed /\ Ordered /\ EndIsLast /\ WelcomeFirst /\ NumbersRise
    /\ SentIsAccepted /\ HeardAsRelayed /\ AsksOnlyPastInt

LEMMA AppendFacts ==
    ASSUME NEW S, NEW s \in Seq(S), NEW e \in S
    PROVE  /\ Append(s, e) \in Seq(S)
           /\ Len(s) \in Nat /\ DOMAIN s = 1 .. Len(s)
           /\ DOMAIN Append(s, e) = 1 .. Len(s) + 1
           /\ \A i \in 1 .. Len(s) : Append(s, e)[i] = s[i]
           /\ Append(s, e)[Len(s) + 1] = e
  OBVIOUS

LEMMA TailFacts ==
    ASSUME NEW S, NEW s \in Seq(S), s # <<>>
    PROVE  /\ Tail(s) \in Seq(S)
           /\ Len(s) \in Nat \ {0} /\ DOMAIN s = 1 .. Len(s)
           /\ DOMAIN Tail(s) = 1 .. Len(s) - 1
           /\ \A i \in 1 .. Len(s) - 1 : Tail(s)[i] = s[i + 1]
           /\ Head(s) = s[1] /\ Head(s) \in S
  OBVIOUS

(* Steps that neither hear nor send anything of note. *)
LEMMA QuietKeeps == Quiet => (SentIsAccepted /\ HeardAsRelayed /\ AsksOnlyPastInt)'
  BY DEF Quiet, SentIsAccepted, HeardAsRelayed, AsksOnlyPastInt

LEMMA Bounds ==
    /\ MaxAttempts \in Nat /\ MaxSpoken \in Nat /\ MaxSeq \in Nat /\ IntMax \in Nat
  BY TransportAssumption

LEMMA InitKeeps == Init => TransportInv
  <1> SUFFICES ASSUME Init PROVE TransportInv
    OBVIOUS
  <1> USE DEF Init
  <1>1. Typed
    <2>1. queue \in Seq(Closure) /\ wire \in Seq(Frame)
      OBVIOUS
    <2>2. 0 \in 0 .. MaxAttempts /\ 0 \in 0 .. MaxSpoken /\ 0 \in 0 .. MaxSeq /\ 0 \in 0 .. 0
      BY Bounds
    <2>3. DOMAIN queue = {} /\ \A k \in 0 .. MaxAttempts : ~alive[k]
      OBVIOUS
    <2>4. TransportTypeOK
      BY <2>2, <2>3 DEF TransportTypeOK
    <2> QED
      BY <2>1, <2>4 DEF Typed, Origin
  <1>2. Ordered /\ EndIsLast /\ WelcomeFirst /\ NumbersRise
    BY Bounds DEF Ordered, EndIsLast, WelcomeFirst, NumbersRise, NoSeq
  <1>3. SentIsAccepted /\ HeardAsRelayed /\ AsksOnlyPastInt
    BY DEF SentIsAccepted, HeardAsRelayed, AsksOnlyPastInt
  <1> QED
    BY <1>1, <1>2, <1>3 DEF TransportInv

LEMMA ConnectKeeps ==
    ASSUME TransportInv, NEW helloValid \in BOOLEAN, ConnectRequested(helloValid)
    PROVE  TransportInv'
  <1> USE Bounds DEF TransportInv, Typed, Origin, TransportTypeOK
  <1>1. /\ attempt + 1 \in 0 .. MaxAttempts /\ attempt \in Nat
        /\ alive' \in [0 .. MaxAttempts -> BOOLEAN]
        /\ \A k \in 0 .. MaxAttempts : alive'[k] <=> k = attempt + 1
    <2>1. attempt + 1 \in 0 .. MaxAttempts /\ attempt \in 0 .. MaxAttempts /\ attempt \in Nat
      BY DEF ConnectRequested
    <2>2. alive' = [alive EXCEPT ![attempt] = FALSE, ![attempt + 1] = TRUE]
      BY DEF ConnectRequested, FlagsOfNext
    <2>3. alive' \in [0 .. MaxAttempts -> BOOLEAN]
      BY <2>1, <2>2
    <2>4. alive'[attempt] = FALSE /\ alive'[attempt + 1] = TRUE
      BY <2>1, <2>2
    <2>5. \A k \in 0 .. MaxAttempts : k # attempt /\ k # attempt + 1 => alive'[k] = alive[k]
      BY <2>1, <2>2
    <2> QED
      BY <2>1, <2>3, <2>4, <2>5
  <1>2. \A i \in DOMAIN queue : queue[i].attempt < attempt + 1 /\ ~alive'[queue[i].attempt]
    BY <1>1
  <1>5. /\ attempt' \in 0 .. MaxAttempts
        /\ \A k \in 0 .. MaxAttempts : alive'[k] => k = attempt'
        /\ cut' \in BOOLEAN /\ spoken' \in 0 .. MaxSpoken /\ got' \in 0 .. spoken'
        /\ serverSeq' \in 0 .. MaxSeq
        /\ status' = "connecting" /\ alive'[attempt']
    <2>1. attempt' = attempt + 1 /\ cut' = FALSE /\ spoken' = 0 /\ got' = 0
      BY DEF ConnectRequested
    <2>2. serverSeq' = serverSeq /\ status' = "connecting"
      BY DEF ConnectRequested
    <2>3. attempt' \in 0 .. MaxAttempts
      BY <1>1, <2>1
    <2>4. \A k \in 0 .. MaxAttempts : alive'[k] => k = attempt'
      BY <1>1, <2>1
    <2>5. alive'[attempt']
      BY <1>1, <2>1
    <2>6. spoken' \in 0 .. MaxSpoken /\ got' \in 0 .. spoken'
      BY <2>1, Bounds
    <2>7. serverSeq' \in 0 .. MaxSeq
      BY <2>2
    <2> QED
      BY <2>1, <2>2, <2>3, <2>4, <2>5, <2>6, <2>7
  <1>3. CASE helloValid /\ socket' = "connecting" /\ lastSeen' = NoSeq /\ UNCHANGED queue
    <2>1. Typed'
      <3>1. \A i \in DOMAIN queue' : queue'[i].attempt \in 1 .. attempt'
        BY <1>1, <1>3 DEF ConnectRequested
      <3>2. TransportTypeOK'
        BY <1>1, <1>5, <1>3, <3>1 DEF TransportTypeOK
      <3>3. queue' \in Seq(Closure) /\ wire' \in Seq(Frame)
        BY <1>3 DEF ConnectRequested
      <3> QED
        BY <1>1, <1>3, <3>2, <3>3 DEF ConnectRequested
    <2>2. \A i \in DOMAIN queue' : ~Live(i)'
      BY <1>2, <1>3 DEF Live
    <2>3. Ordered' /\ EndIsLast' /\ WelcomeFirst' /\ NumbersRise'
      BY <1>3, <2>2 DEF ConnectRequested, Ordered, EndIsLast, WelcomeFirst, NumbersRise, Carries, NoSeq
    <2> QED
      BY <2>1, <2>3, QuietKeeps DEF ConnectRequested
  <1>4. CASE ~helloValid /\ socket' = "none" /\ Marshal(attempt + 1, Lost) /\ UNCHANGED lastSeen
    <2> DEFINE e == [attempt |-> attempt + 1, call |-> Lost]
    <2>1. e \in Closure /\ e.call.kind = "lost" /\ queue' = Append(queue, e)
      BY <1>4 DEF Closure, Call, Lost, Marshal
    <2>2. /\ queue' \in Seq(Closure) /\ DOMAIN queue' = 1 .. Len(queue) + 1
          /\ Len(queue) \in Nat /\ DOMAIN queue = 1 .. Len(queue)
          /\ \A i \in 1 .. Len(queue) : queue'[i] = queue[i]
          /\ queue'[Len(queue) + 1] = e
      BY <2>1, AppendFacts
    <2>3. \A i \in DOMAIN queue' : Live(i)' => i = Len(queue) + 1
      <3>1. \A i \in 1 .. Len(queue) : ~alive'[queue'[i].attempt]
        BY <1>2, <2>2
      <3> SUFFICES ASSUME NEW i \in 1 .. Len(queue) + 1, Live(i)'
                   PROVE  i = Len(queue) + 1
        BY <2>2
      <3>2. i \notin 1 .. Len(queue)
        BY <3>1 DEF Live
      <3> QED
        BY <2>2, <3>2
    <2>4. Typed'
      <3>1. \A i \in DOMAIN queue' : queue'[i].attempt \in 1 .. attempt'
        <4>1. attempt' = attempt + 1 /\ attempt \in Nat
          BY <1>1 DEF ConnectRequested
        <4>2. \A i \in 1 .. Len(queue) : queue'[i].attempt \in 1 .. attempt
          BY <2>2
        <4>3. queue'[Len(queue) + 1].attempt = attempt + 1
          BY <2>2
        <4> QED
          BY <2>2, <4>1, <4>2, <4>3
      <3>2. TransportTypeOK'
        BY <1>1, <1>5, <1>4, <3>1 DEF TransportTypeOK
      <3>3. wire' \in Seq(Frame)
        BY DEF ConnectRequested
      <3> QED
        BY <1>1, <1>4, <2>2, <3>2, <3>3 DEF ConnectRequested
    <2>5. \A i \in DOMAIN queue' : ~Carries(i)'
      BY <2>1, <2>2, <2>3 DEF Carries
    <2>6. Ordered' /\ WelcomeFirst' /\ NumbersRise'
      BY <1>4, <2>5 DEF ConnectRequested, Ordered, WelcomeFirst, NumbersRise
    <2>7. EndIsLast'
      BY <1>4, <2>2, <2>3 DEF ConnectRequested, EndIsLast
    <2> QED
      BY <2>4, <2>6, <2>7, QuietKeeps DEF ConnectRequested
  <1> QED
    BY <1>3, <1>4 DEF ConnectRequested

LEMMA DisconnectKeeps == TransportInv /\ DisconnectRequested => TransportInv'
  <1> SUFFICES ASSUME TransportInv, DisconnectRequested PROVE TransportInv'
    OBVIOUS
  <1> USE DEF TransportInv, DisconnectRequested, receiver
  <1>1. Typed'
    BY DEF Typed, Origin, TransportTypeOK
  <1>2. \A i \in DOMAIN queue' : ~Live(i)'
    <2>1. \A k \in 0 .. MaxAttempts : ~alive'[k]
      BY DEF Typed, Origin, TransportTypeOK
    <2>2. \A i \in DOMAIN queue' : queue'[i].attempt \in 0 .. MaxAttempts
      BY Bounds DEF Typed, Origin, TransportTypeOK
    <2> QED
      BY <2>1, <2>2 DEF Live
  <1>3. Ordered' /\ EndIsLast' /\ WelcomeFirst'
    BY <1>2 DEF Ordered, EndIsLast, WelcomeFirst, Carries
  <1>4. NumbersRise'
    BY DEF NumbersRise, WelcomeNext
  <1> QED
    BY <1>1, <1>3, <1>4, QuietKeeps

(* Every delta this client can come to send is one the server accepts. *)
LEMMA OwnIsAccepted == \A changes \in OwnChanges : ValidChanges(changes)
  <1> DEFINE edits == {Stored(e, Clamped(s)["positionSeconds"]) :
                        e \in LocalEdit, s \in LocalState}
  <1>1. \A s \in LocalState :
          /\ IsDelta(Clamped(s)) /\ InRange(Clamped(s)) /\ DOMAIN Clamped(s) = ChangeField
    BY ClampedFits, TransportAssumption
  <1>2. \A a \in edits : Sendable(a)
    <2> SUFFICES ASSUME NEW e \in LocalEdit, NEW s \in LocalState
                 PROVE  Sendable(Stored(e, Clamped(s)["positionSeconds"]))
      OBVIOUS
    <2>1. /\ Clamped(s)["positionSeconds"] \in Int
          /\ Within("positionSeconds", Clamped(s)["positionSeconds"])
      BY <1>1 DEF IsDelta, InRange, FieldType
    <2>2. IsDelta(e)
      BY TransportAssumption
    <2> QED
      BY <2>1, <2>2, StoredIsSendable
  <1>3. \A s \in LocalState : Sendable(Clamped(s))
    BY <1>1 DEF Sendable
  <1> HIDE DEF edits
  <1>4. \A a \in edits, b \in edits : Sendable(Coalesced(a, b))
    BY <1>2, CoalescedIsSendable
  <1>5. OwnChanges = {Built(a) : a \in edits}
                \cup {Built(Coalesced(a, b)) : a \in edits, b \in edits}
                \cup {Built(Clamped(s)) : s \in LocalState}
    BY DEF OwnChanges, edits
  <1> QED
    BY <1>2, <1>3, <1>4, <1>5, BuiltIsValid

(* The parts of the invariant that are about the channels and the panel. *)
Channels == Typed /\ Ordered /\ EndIsLast /\ WelcomeFirst /\ NumbersRise

LEMMA ChannelsUntouched ==
    ASSUME Channels, UNCHANGED <<network, receiver, user>>
    PROVE  Channels'
  BY DEF Channels, Typed, Origin, TransportTypeOK, Ordered, EndIsLast, WelcomeFirst, NumbersRise,
         Live, Carries, WelcomeQueued, WelcomeNext, network, receiver, user

LEMMA AppSendsKeeps == TransportInv /\ AppSends => TransportInv'
  <1> SUFFICES ASSUME TransportInv, AppSends PROVE TransportInv'
    OBVIOUS
  <1>1. Channels'
    BY ChannelsUntouched DEF TransportInv, AppSends, Channels
  <1>2. SentIsAccepted'
    <2>1. CASE \E changes \in OwnChanges : Write([kind |-> "delta", changes |-> changes])
      <3> PICK changes \in OwnChanges : Write([kind |-> "delta", changes |-> changes])
        BY <2>1
      <3> QED
        BY OwnIsAccepted DEF Write, SentIsAccepted, Nothing
    <2>2. CASE Write([kind |-> "claimControl"]) \/ Write([kind |-> "releaseControl"])
      BY <2>2 DEF Write, SentIsAccepted
    <2> QED
      BY <2>1, <2>2 DEF AppSends
  <1>3. HeardAsRelayed'
    BY DEF AppSends, HeardAsRelayed
  <1>4. AsksOnlyPastInt'
    <2>1. sent' = Nothing \/ sent'.kind # "requestSnapshot"
      BY DEF AppSends, Write
    <2> QED
      BY <2>1 DEF AsksOnlyPastInt
  <1> QED
    BY <1>1, <1>2, <1>3, <1>4 DEF TransportInv, Channels

LEMMA NetOpenKeeps == TransportInv /\ NetOpen => TransportInv'
  <1> SUFFICES ASSUME TransportInv, NetOpen PROVE TransportInv'
    OBVIOUS
  <1>1. Typed'
    BY DEF TransportInv, Typed, Origin, TransportTypeOK, NetOpen, receiver, user
  <1>2. Ordered' /\ EndIsLast' /\ WelcomeFirst'
    BY DEF TransportInv, Typed, Origin, Ordered, EndIsLast, WelcomeFirst, NetOpen, receiver, user,
           Live, Carries, WelcomeQueued, WelcomeNext
  <1>3. NumbersRise'
    BY DEF TransportInv, Typed, Origin, NumbersRise, NetOpen, receiver, WelcomeNext
  <1>4. SentIsAccepted' /\ HeardAsRelayed' /\ AsksOnlyPastInt'
    BY DEF NetOpen, SentIsAccepted, HeardAsRelayed, AsksOnlyPastInt
  <1> QED
    BY <1>1, <1>2, <1>3, <1>4 DEF TransportInv

LEMMA CutKeeps == TransportInv /\ Cut => TransportInv'
  <1> SUFFICES ASSUME TransportInv, Cut PROVE TransportInv'
    OBVIOUS
  <1>1. Channels'
    BY DEF TransportInv, Cut, Channels, Typed, Origin, TransportTypeOK, Ordered, EndIsLast,
           WelcomeFirst, NumbersRise, Live, Carries, WelcomeQueued, WelcomeNext, receiver, user
  <1> QED
    BY <1>1, QuietKeeps DEF Cut, TransportInv, Channels

LEMMA RoomMovesOnKeeps == TransportInv /\ RoomMovesOn => TransportInv'
  <1> SUFFICES ASSUME TransportInv, RoomMovesOn PROVE TransportInv'
    OBVIOUS
  <1>1. Typed'
    BY Bounds DEF TransportInv, RoomMovesOn, Typed, Origin, TransportTypeOK, receiver, user
  <1>2. Ordered' /\ EndIsLast' /\ WelcomeFirst'
    BY DEF TransportInv, RoomMovesOn, Ordered, EndIsLast, WelcomeFirst, Live, Carries,
           WelcomeQueued, WelcomeNext, receiver, user
  <1>3. NumbersRise'
    <2>1. \A i \in DOMAIN wire : Numbered(wire[i]) => wire[i].seq \in Nat
      BY DEF TransportInv, Typed, Origin, Frame, Numbered
    <2>2. serverSeq \in Nat /\ serverSeq' = serverSeq + 1 /\ lastSeen \in Int /\ IntMax \in Nat
      BY Bounds DEF TransportInv, Typed, Origin, TransportTypeOK, RoomMovesOn, NoSeq
    <2> QED
      BY <2>1, <2>2 DEF TransportInv, RoomMovesOn, NumbersRise, WelcomeNext, receiver, Numbered
  <1> QED
    BY <1>1, <1>2, <1>3, QuietKeeps DEF RoomMovesOn, TransportInv

LEMMA NetEndKeeps == TransportInv /\ NetEnd => TransportInv'
  <1> SUFFICES ASSUME TransportInv, NetEnd PROVE TransportInv'
    OBVIOUS
  <1> DEFINE e == [attempt |-> attempt, call |-> Lost]
  <1>1. /\ attempt \in Nat /\ e \in Closure /\ e.call.kind = "lost" /\ e.attempt = attempt
        /\ queue' = Append(queue, e)
    BY DEF NetEnd, Marshal, Closure, Call, Lost, TransportInv, Typed, Origin, TransportTypeOK
  <1>2. /\ queue' \in Seq(Closure) /\ DOMAIN queue' = 1 .. Len(queue) + 1
        /\ Len(queue) \in Nat /\ DOMAIN queue = 1 .. Len(queue)
        /\ \A i \in 1 .. Len(queue) : queue'[i] = queue[i]
        /\ queue'[Len(queue) + 1] = e
    <2> HIDE DEF e
    <2> QED
      BY <1>1, AppendFacts DEF TransportInv, Typed, Origin
  <1> HIDE DEF e
  <1>3. alive[attempt] /\ attempt \in 1 .. attempt
    <2>1. alive[attempt]
      BY DEF TransportInv, Typed, Origin, NetEnd
    <2>2. status \in {"connecting", "connected"}
      BY DEF TransportInv, Typed, Origin, TransportTypeOK, EndIsLast, NetEnd
    <2>3. attempt \in Nat /\ attempt # 0
      BY <1>1 DEF NetEnd, TransportInv, Typed, Origin
    <2> QED
      BY <2>1, <2>3
  <1>4. Typed'
    <2>1. \A i \in DOMAIN queue' : queue'[i].attempt \in 1 .. attempt'
      BY <1>1, <1>2, <1>3 DEF TransportInv, Typed, Origin, TransportTypeOK, NetEnd, user
    <2>2. TransportTypeOK'
      BY <2>1 DEF TransportInv, Typed, Origin, TransportTypeOK, NetEnd, user
    <2> QED
      BY <1>2, <1>3, <2>2 DEF TransportInv, Typed, Origin, NetEnd, user
  <1>5. /\ \A i \in 1 .. Len(queue) : (Live(i)' <=> Live(i)) /\ (Carries(i)' <=> Carries(i))
        /\ \A i \in 1 .. Len(queue) : WelcomeQueued(i)' <=> WelcomeQueued(i)
        /\ \A i \in DOMAIN queue' : i \notin 1 .. Len(queue) => ~Carries(i)'
    <2>1. alive' = alive
      BY DEF NetEnd, user
    <2> QED
      BY <1>1, <1>2, <2>1 DEF Live, Carries, WelcomeQueued
  <1>6. Ordered'
    <2>1. wire' = wire /\ wire = <<>> /\ got' = got /\ spoken' = spoken
      BY DEF NetEnd, user
    <2>2. \A i \in DOMAIN queue' : Carries(i)' => i \in DOMAIN queue /\ Carries(i) /\ queue'[i] = queue[i]
      BY <1>2, <1>5
    <2> QED
      BY <2>1, <2>2 DEF TransportInv, Ordered
  <1>7. EndIsLast'
    <2>1. \A i \in 1 .. Len(queue) : Live(i) => queue[i].call.kind # "lost"
      BY <1>2 DEF TransportInv, EndIsLast, NetEnd
    <2>2. status' \notin {"idle", "down"}
      BY DEF TransportInv, EndIsLast, NetEnd, user
    <2> QED
      BY <1>2, <1>5, <2>1, <2>2 DEF EndIsLast, NetEnd
  <1>8. WelcomeFirst'
    <2>1. wire' = wire /\ status' = status /\ spoken' = spoken
      BY DEF NetEnd, user
    <2>2. \A i \in DOMAIN queue' : Carries(i)' => i \in DOMAIN queue /\ Carries(i)
      BY <1>2, <1>5
    <2>3. \A i \in DOMAIN queue : \A j \in 1 .. i : j \in 1 .. Len(queue)
      BY <1>2
    <2>4. status = "connecting" =>
            \A i \in DOMAIN queue' : Carries(i)' => \E j \in 1 .. i : WelcomeQueued(j)'
      BY <1>5, <2>2, <2>3 DEF TransportInv, WelcomeFirst
    <2>5. \A j \in DOMAIN queue : WelcomeQueued(j) => j \in DOMAIN queue' /\ WelcomeQueued(j)'
      BY <1>2, <1>5
    <2> QED
      BY <2>1, <2>4, <2>5 DEF TransportInv, WelcomeFirst, WelcomeNext
  <1>9. NumbersRise'
    BY DEF TransportInv, NumbersRise, WelcomeNext, NetEnd
  <1> QED
    BY <1>4, <1>6, <1>7, <1>8, <1>9, QuietKeeps DEF NetEnd, TransportInv

LEMMA SpeakKeeps ==
    ASSUME TransportInv, NEW frame \in Frame, Speak(frame), frame.n = spoken + 1,
           frame.kind \in {"welcome", "snapshot"} => frame.seq = serverSeq,
           frame.kind = "delta" => frame.seq = serverSeq + 1
    PROVE  TransportInv'
  <1>1. /\ wire' \in Seq(Frame) /\ DOMAIN wire' = 1 .. Len(wire) + 1
        /\ Len(wire) \in Nat /\ DOMAIN wire = 1 .. Len(wire)
        /\ \A i \in 1 .. Len(wire) : wire'[i] = wire[i]
        /\ wire'[Len(wire) + 1] = frame
    BY AppendFacts DEF TransportInv, Typed, Origin, Speak
  <1>2. /\ spoken \in Nat /\ spoken' = spoken + 1 /\ got \in 0 .. spoken
        /\ serverSeq \in Nat /\ serverSeq' \in {serverSeq, serverSeq + 1}
        /\ frame.kind = "delta" => serverSeq' = serverSeq + 1
        /\ lastSeen \in Int /\ IntMax \in Nat
    BY Bounds DEF TransportInv, Typed, Origin, TransportTypeOK, Speak, NoSeq
  <1>3. \A i \in DOMAIN wire : wire[i].n \in Nat /\ (Numbered(wire[i]) => wire[i].seq \in Nat)
    BY DEF TransportInv, Typed, Origin, Frame, Numbered
  <1>4. Typed'
    BY <1>1, <1>2, Bounds DEF TransportInv, Typed, TransportTypeOK, Origin, Speak, receiver, user
  <1>5. /\ \A i \in DOMAIN queue : (Live(i)' <=> Live(i)) /\ (Carries(i)' <=> Carries(i))
        /\ \A i \in DOMAIN queue : WelcomeQueued(i)' <=> WelcomeQueued(i)
        /\ queue' = queue /\ status' = status /\ got' = got /\ lastSeen' = lastSeen
    BY DEF Live, Carries, WelcomeQueued, Speak, receiver, user
  <1>6. Ordered'
    <2> USE DEF TransportInv, Ordered
    <2>1. \A i \in DOMAIN wire : wire[i].n \in got + 1 .. spoken
      OBVIOUS
    <2>2. \A i \in DOMAIN wire' : wire'[i].n \in got' + 1 .. spoken'
      BY <1>1, <1>2, <1>5, <2>1
    <2>3. ASSUME NEW i \in DOMAIN wire', NEW j \in DOMAIN wire', i < j
          PROVE  wire'[i].n < wire'[j].n
      <3>1. i \in 1 .. Len(wire) /\ wire'[i] = wire[i]
        BY <1>1, <2>3
      <3>2. CASE j \in 1 .. Len(wire)
        BY <1>1, <2>3, <3>1, <3>2
      <3>3. CASE j = Len(wire) + 1
        BY <1>1, <1>2, <1>3, <2>1, <3>1, <3>3
      <3> QED
        BY <1>1, <3>2, <3>3
    <2>4. /\ \A i \in DOMAIN queue' : Carries(i)' => queue'[i].call.n \in got' + 1 .. spoken'
          /\ \A i, j \in DOMAIN queue' :
                Carries(i)' /\ Carries(j)' /\ i < j => queue'[i].call.n < queue'[j].call.n
      BY <1>2, <1>5
    <2>5. ASSUME NEW i \in DOMAIN queue', NEW j \in DOMAIN wire', Carries(i)'
          PROVE  queue'[i].call.n < wire'[j].n
      <3>1. i \in DOMAIN queue /\ Carries(i) /\ queue'[i] = queue[i]
        BY <1>5, <2>5
      <3>2. CASE j \in 1 .. Len(wire)
        BY <1>1, <3>1, <3>2
      <3>3. CASE j = Len(wire) + 1
        BY <1>1, <1>2, <3>1, <3>3
      <3> QED
        BY <1>1, <3>2, <3>3
    <2> QED
      BY <2>2, <2>3, <2>4, <2>5
  <1>7. EndIsLast'
    BY <1>5 DEF TransportInv, EndIsLast, Speak
  <1>8. frame.kind = "welcome" => Len(wire) = 0
    BY <1>1, <1>2 DEF TransportInv, Ordered, Speak
  <1>9. WelcomeNext' <=> WelcomeNext \/ frame.kind = "welcome"
    BY <1>1, <1>8 DEF WelcomeNext
  <1>10. WelcomeFirst'
    <2>1. \A i \in DOMAIN wire' : i > 1 => wire'[i].kind # "welcome"
      BY <1>1, <1>8 DEF TransportInv, WelcomeFirst
    <2>2. frame.kind # "welcome" => spoken > 0
      BY <1>2 DEF Speak
    <2> QED
      <3>1. status = "connecting" =>
              \A i \in DOMAIN queue' : Carries(i)' => \E j \in 1 .. i : WelcomeQueued(j)'
        <4>1. \A i \in DOMAIN queue : \A j \in 1 .. i : j \in DOMAIN queue
          BY DEF TransportInv, Typed
        <4> QED
          BY <1>5, <4>1 DEF TransportInv, WelcomeFirst
      <3>2. status = "connecting" => WelcomeNext' \/ \E j \in DOMAIN queue' : WelcomeQueued(j)'
        BY <1>5, <1>9, <2>2 DEF TransportInv, WelcomeFirst
      <3> QED
        BY <1>5, <2>1, <3>1, <3>2 DEF WelcomeFirst
  <1>11. NumbersRise'
    <2>1. frame.kind # "welcome" => spoken > 0
      BY <1>2 DEF Speak
    <2>2. lastSeen' <= serverSeq'
      BY <1>2, <1>5 DEF TransportInv, NumbersRise
    <2>3. \A i \in DOMAIN wire' : Numbered(wire'[i]) => wire'[i].seq <= serverSeq'
      BY <1>1, <1>2, <1>3 DEF TransportInv, NumbersRise, Numbered
    <2>4. \A j \in DOMAIN wire' : wire'[j].kind = "delta" =>
            /\ lastSeen' < wire'[j].seq
            /\ \A i \in 1 .. j - 1 : Numbered(wire'[i]) => wire'[i].seq < wire'[j].seq
      <3> SUFFICES ASSUME NEW j \in DOMAIN wire', wire'[j].kind = "delta"
                   PROVE  /\ lastSeen' < wire'[j].seq
                          /\ \A i \in 1 .. j - 1 :
                                Numbered(wire'[i]) => wire'[i].seq < wire'[j].seq
        OBVIOUS
      <3>1. CASE j \in 1 .. Len(wire)
        BY <1>1, <1>5, <3>1 DEF TransportInv, NumbersRise
      <3>2. CASE j = Len(wire) + 1
        <4>1. wire'[j] = frame /\ frame.seq = serverSeq + 1
          BY <1>1, <3>2
        <4>2. \A i \in 1 .. j - 1 : i \in 1 .. Len(wire)
          BY <1>1, <3>2
        <4> QED
          BY <1>1, <1>2, <1>3, <1>5, <4>1, <4>2 DEF TransportInv, NumbersRise
      <3> QED
        BY <1>1, <3>1, <3>2
    <2> QED
      <3>1. WelcomeNext' \/ lastSeen # NoSeq \/ serverSeq > IntMax
        BY <1>9, <2>1 DEF TransportInv, NumbersRise, Speak
      <3>2. WelcomeNext' \/ lastSeen' # NoSeq \/ serverSeq' > IntMax
        BY <1>2, <1>5, <3>1
      <3> QED
        BY <2>2, <2>3, <2>4, <3>2 DEF NumbersRise
  <1> QED
    BY <1>4, <1>6, <1>7, <1>10, <1>11, QuietKeeps DEF Speak, TransportInv

(* A frame that is read: dropped, or turned into the newest closure. *)
LEMMA NetMessageKeeps == TransportInv /\ NetMessage => TransportInv'
  <1> SUFFICES ASSUME TransportInv, NetMessage PROVE TransportInv'
    OBVIOUS
  <1> DEFINE frame == Head(wire)
  <1>1. /\ wire' = Tail(wire) /\ wire # <<>> /\ wire' \in Seq(Frame)
        /\ Len(wire) \in Nat \ {0} /\ DOMAIN wire = 1 .. Len(wire)
        /\ DOMAIN wire' = 1 .. Len(wire) - 1
        /\ \A i \in 1 .. Len(wire) - 1 : wire'[i] = wire[i + 1]
        /\ frame = wire[1] /\ frame \in Frame
    BY TailFacts DEF NetMessage, TransportInv, Typed
  <1> HIDE DEF frame
  <1>2. /\ frame.n \in got + 1 .. spoken /\ frame.n \in Nat
        /\ got \in Nat /\ spoken \in Nat /\ spoken > 0
        /\ Numbered(frame) => frame.seq \in Nat /\ frame.seq <= serverSeq
        /\ serverSeq \in Nat /\ lastSeen \in Int /\ IntMax \in Nat
    <2>1. 1 \in DOMAIN wire
      BY <1>1
    <2>2. got \in Nat /\ spoken \in Nat /\ serverSeq \in Nat /\ lastSeen \in Int /\ IntMax \in Nat
      BY Bounds DEF TransportInv, Typed, TransportTypeOK, NoSeq
    <2>3. frame.n \in Nat /\ (Numbered(frame) => frame.seq \in Nat)
      BY <1>1 DEF Frame, Numbered
    <2>4. frame.n \in got + 1 .. spoken
      BY <1>1, <2>1 DEF TransportInv, Ordered
    <2>5. Numbered(frame) => frame.seq <= serverSeq
      BY <1>1, <2>1 DEF TransportInv, NumbersRise
    <2> QED
      BY <2>2, <2>3, <2>4, <2>5
  <1>3. /\ socket = "open" /\ socket' = socket /\ spoken' = spoken /\ serverSeq' = serverSeq
        /\ attempt' = attempt /\ alive' = alive /\ status' = status /\ got' = got /\ cut' = cut
    BY DEF NetMessage, user
  <1>4. /\ alive[attempt] /\ attempt \in 1 .. attempt /\ status \in {"connecting", "connected"}
    BY <1>3 DEF TransportInv, Typed, TransportTypeOK, Origin, EndIsLast
  <1>5. ~WelcomeNext' /\ (WelcomeNext <=> frame.kind = "welcome")
    <2>1. \A i \in 1 .. Len(wire) - 1 : wire'[i].kind # "welcome"
      BY <1>1 DEF TransportInv, WelcomeFirst
    <2>2. wire' # <<>> => 1 \in DOMAIN wire'
      BY <1>1
    <2> QED
      BY <1>1, <2>1, <2>2 DEF WelcomeNext
  <1>6. frame.kind # "welcome" => lastSeen # NoSeq \/ serverSeq > IntMax
    BY <1>2, <1>3, <1>5 DEF TransportInv, NumbersRise
  <1>7. /\ SeqRead(frame.seq) \in Int
        /\ Numbered(frame) =>
             \/ frame.seq <= IntMax /\ SeqRead(frame.seq) = frame.seq /\ SeqSeen(frame) = frame.seq
             \/ frame.seq > IntMax /\ SeqRead(frame.seq) = NoSeq /\ SeqSeen(frame) = lastSeen
    BY <1>2 DEF SeqRead, SeqSeen, NoSeq
  <1>8. lastSeen' = lastSeen \/ (Numbered(frame) /\ lastSeen' = SeqSeen(frame))
    BY DEF NetMessage, AcceptDelta, Numbered, receiver, frame
  <1>9. frame.kind = "welcome" => lastSeen' = SeqSeen(frame)
    BY DEF NetMessage, frame
  <1>10. lastSeen' \in 0 .. IntMax \cup {NoSeq}
    BY <1>2, <1>7, <1>8 DEF TransportInv, Typed, TransportTypeOK
  <1>11. NumbersRise'
    <2>1. lastSeen' = lastSeen \/ (Numbered(frame) /\ lastSeen' = frame.seq)
      BY <1>7, <1>8
    <2>2. lastSeen' <= serverSeq'
      BY <1>2, <1>3, <2>1 DEF TransportInv, NumbersRise
    <2>3. \A i \in DOMAIN wire' : i + 1 \in DOMAIN wire /\ wire'[i] = wire[i + 1]
      BY <1>1
    <2>4. \A i \in DOMAIN wire' : Numbered(wire'[i]) => wire'[i].seq <= serverSeq'
      BY <1>3, <2>3 DEF TransportInv, NumbersRise
    <2>5. \A j \in DOMAIN wire' : wire'[j].kind = "delta" =>
            /\ lastSeen' < wire'[j].seq
            /\ \A i \in 1 .. j - 1 : Numbered(wire'[i]) => wire'[i].seq < wire'[j].seq
      <3> SUFFICES ASSUME NEW j \in DOMAIN wire', wire'[j].kind = "delta"
                   PROVE  /\ lastSeen' < wire'[j].seq
                          /\ \A i \in 1 .. j - 1 :
                                Numbered(wire'[i]) => wire'[i].seq < wire'[j].seq
        OBVIOUS
      <3>1. /\ lastSeen < wire[j + 1].seq
            /\ \A i \in 1 .. (j + 1) - 1 : Numbered(wire[i]) => wire[i].seq < wire[j + 1].seq
        BY <2>3 DEF TransportInv, NumbersRise
      <3>2. Numbered(frame) => frame.seq < wire[j + 1].seq
        <4>1. 1 \in 1 .. (j + 1) - 1
          BY <1>1
        <4> QED
          BY <1>1, <3>1, <4>1
      <3>3. \A i \in 1 .. j - 1 : i + 1 \in 1 .. (j + 1) - 1 /\ wire'[i] = wire[i + 1]
        BY <1>1
      <3>4. wire'[j] = wire[j + 1]
        BY <2>3
      <3> QED
        BY <2>1, <3>1, <3>2, <3>3, <3>4
    <2>6. lastSeen' # NoSeq \/ serverSeq' > IntMax
      BY <1>2, <1>3, <1>6, <1>7, <1>9, <2>1 DEF NoSeq, Numbered
    <2> QED
      BY <2>2, <2>4, <2>5, <2>6 DEF NumbersRise
  <1>12. AsksOnlyPastInt' /\ SentIsAccepted' /\ HeardAsRelayed'
    <2>1. heard' = Nothing
      BY DEF NetMessage
    <2>2. sent' = Nothing \/ (sent' = [kind |-> "requestSnapshot"] /\ serverSeq > IntMax)
      <3>1. CASE sent' = Nothing
        BY <3>1
      <3>2. CASE frame.kind = "delta" /\ AcceptDelta(frame)
        <4>1. 1 \in DOMAIN wire
          BY <1>1
        <4>2. lastSeen < frame.seq /\ Numbered(frame)
          BY <1>1, <3>2, <4>1 DEF TransportInv, NumbersRise, Numbered
        <4>3. CASE SeqRead(frame.seq) = NoSeq \/ lastSeen = NoSeq
          <5>1. serverSeq > IntMax
            BY <1>2, <1>6, <1>7, <3>2, <4>2, <4>3 DEF NoSeq
          <5> QED
            BY <3>2, <5>1 DEF AcceptDelta, Write
        <4>4. CASE SeqRead(frame.seq) # NoSeq /\ lastSeen # NoSeq
          <5>1. SeqRead(frame.seq) > lastSeen
            BY <1>2, <1>7, <4>2, <4>4
          <5> QED
            BY <3>2, <4>4, <5>1 DEF AcceptDelta
        <4> QED
          BY <4>3, <4>4
      <3> QED
        BY <3>1, <3>2 DEF NetMessage, frame
    <2> QED
      BY <1>3, <2>1, <2>2 DEF AsksOnlyPastInt, SentIsAccepted, HeardAsRelayed, Nothing
  <1>13. CASE UNCHANGED queue /\ frame.kind # "welcome"
    <2>1. Typed'
      BY <1>1, <1>3, <1>10, <1>13 DEF TransportInv, Typed, TransportTypeOK, Origin
    <2>2. /\ \A i \in DOMAIN queue : (Live(i)' <=> Live(i)) /\ (Carries(i)' <=> Carries(i))
          /\ \A i \in DOMAIN queue : WelcomeQueued(i)' <=> WelcomeQueued(i)
      BY <1>3, <1>13 DEF Live, Carries, WelcomeQueued
    <2>3. Ordered'
      BY <1>1, <1>3, <1>13, <2>2 DEF TransportInv, Ordered
    <2>4. EndIsLast'
      BY <1>3, <1>13, <2>2 DEF TransportInv, EndIsLast
    <2>5. \A i \in DOMAIN queue : \A j \in 1 .. i : j \in DOMAIN queue
      BY DEF TransportInv, Typed
    <2>6. WelcomeFirst'
      BY <1>1, <1>3, <1>5, <1>13, <2>2, <2>5 DEF TransportInv, WelcomeFirst
    <2> QED
      BY <1>11, <1>12, <2>1, <2>3, <2>4, <2>6 DEF TransportInv
  <1>14. CASE \E call \in Call : /\ Marshal(attempt, call)
                                 /\ call.kind = frame.kind /\ call.kind # "lost"
                                 /\ call.n = frame.n
    <2> PICK call \in Call : /\ Marshal(attempt, call)
                             /\ call.kind = frame.kind /\ call.kind # "lost"
                             /\ call.n = frame.n
      BY <1>14
    <2> DEFINE e == [attempt |-> attempt, call |-> call]
    <2>1. /\ e \in Closure /\ e.attempt = attempt /\ e.call = call
          /\ queue' = Append(queue, e)
      BY <1>4 DEF Closure, Marshal, TransportInv, Typed, TransportTypeOK
    <2> HIDE DEF e
    <2>2. /\ queue' \in Seq(Closure) /\ DOMAIN queue' = 1 .. Len(queue) + 1
          /\ Len(queue) \in Nat /\ DOMAIN queue = 1 .. Len(queue)
          /\ \A i \in 1 .. Len(queue) : queue'[i] = queue[i]
          /\ queue'[Len(queue) + 1] = e
      BY <2>1, AppendFacts DEF TransportInv, Typed
    <2>3. /\ \A i \in 1 .. Len(queue) : (Live(i)' <=> Live(i)) /\ (Carries(i)' <=> Carries(i))
          /\ \A i \in 1 .. Len(queue) : WelcomeQueued(i)' <=> WelcomeQueued(i)
          /\ \A i \in DOMAIN queue' : i \notin 1 .. Len(queue) =>
                /\ Live(i)' /\ queue'[i] = e
                /\ WelcomeQueued(i)' <=> frame.kind = "welcome"
      BY <1>3, <1>4, <2>1, <2>2 DEF Live, Carries, WelcomeQueued
    <2>4. Typed'
      <3>1. \A i \in DOMAIN queue' : queue'[i].attempt \in 1 .. attempt'
        BY <1>3, <1>4, <2>1, <2>2 DEF TransportInv, Typed, TransportTypeOK
      <3> QED
        BY <1>1, <1>3, <1>10, <2>2, <3>1 DEF TransportInv, Typed, TransportTypeOK, Origin
    <2>5. Ordered'
      <3>1. \A i \in DOMAIN wire' : /\ i + 1 \in DOMAIN wire /\ wire'[i] = wire[i + 1]
                                    /\ frame.n < wire[i + 1].n
        BY <1>1 DEF TransportInv, Ordered
      <3>2. /\ \A i \in DOMAIN wire' : wire'[i].n \in got' + 1 .. spoken'
            /\ \A i, j \in DOMAIN wire' : i < j => wire'[i].n < wire'[j].n
        <4>1. \A i, j \in DOMAIN wire : i < j => wire[i].n < wire[j].n
          BY DEF TransportInv, Ordered
        <4>2. \A i \in DOMAIN wire : wire[i].n \in got + 1 .. spoken
          BY DEF TransportInv, Ordered
        <4>3. \A i, j \in DOMAIN wire' : i < j => i + 1 < j + 1
          BY <1>1
        <4> QED
          BY <1>3, <3>1, <4>1, <4>2, <4>3
      <3>3. \A i \in DOMAIN queue' :
              \/ i \in 1 .. Len(queue) /\ queue'[i] = queue[i] /\ (Carries(i)' <=> Carries(i))
              \/ i = Len(queue) + 1 /\ queue'[i].call.n = frame.n
        BY <2>1, <2>2, <2>3
      <3>4. \A i \in 1 .. Len(queue) : Carries(i) => /\ queue[i].call.n \in got + 1 .. spoken
                                                     /\ queue[i].call.n < frame.n
        BY <1>1, <2>2 DEF TransportInv, Ordered
      <3>5. \A i \in DOMAIN queue' : Carries(i)' => queue'[i].call.n \in got' + 1 .. spoken'
        BY <1>2, <1>3, <3>3, <3>4
      <3>6. \A i, j \in DOMAIN queue' :
              Carries(i)' /\ Carries(j)' /\ i < j => queue'[i].call.n < queue'[j].call.n
        <4> SUFFICES ASSUME NEW i \in DOMAIN queue', NEW j \in DOMAIN queue',
                            Carries(i)', Carries(j)', i < j
                     PROVE  queue'[i].call.n < queue'[j].call.n
          OBVIOUS
        <4>1. i \in 1 .. Len(queue) /\ Carries(i) /\ queue'[i] = queue[i]
          BY <2>2, <3>3
        <4>2. CASE j \in 1 .. Len(queue)
          BY <2>2, <3>3, <4>1, <4>2 DEF TransportInv, Ordered
        <4>3. CASE j = Len(queue) + 1
          BY <2>2, <3>3, <3>4, <4>1, <4>3
        <4> QED
          BY <2>2, <4>2, <4>3
      <3>7. \A i \in DOMAIN queue', j \in DOMAIN wire' :
              Carries(i)' => queue'[i].call.n < wire'[j].n
        BY <2>2, <3>1, <3>3 DEF TransportInv, Ordered
      <3> QED
        BY <3>2, <3>5, <3>6, <3>7 DEF Ordered
    <2>6. EndIsLast'
      <3>1. \A i \in DOMAIN queue' : Live(i)' => queue'[i].call.kind # "lost"
        BY <1>3, <2>1, <2>2, <2>3 DEF TransportInv, EndIsLast
      <3> QED
        BY <1>3, <1>4, <3>1 DEF EndIsLast
    <2>7. WelcomeFirst'
      <3>1. \A i \in DOMAIN wire' : i > 1 => wire'[i].kind # "welcome"
        BY <1>1 DEF TransportInv, WelcomeFirst
      <3>2. status = "connecting" => \E j \in DOMAIN queue' : WelcomeQueued(j)'
        <4>1. CASE frame.kind = "welcome"
          BY <2>2, <2>3, <4>1
        <4>2. CASE frame.kind # "welcome"
          BY <1>2, <1>5, <2>2, <2>3, <4>2 DEF TransportInv, WelcomeFirst
        <4> QED
          BY <4>1, <4>2
      <3>3. ASSUME status = "connecting", NEW i \in DOMAIN queue', Carries(i)'
            PROVE  \E j \in 1 .. i : WelcomeQueued(j)'
        <4>1. CASE i \in 1 .. Len(queue)
          <5>1. \E j \in 1 .. i : WelcomeQueued(j)
            BY <2>2, <2>3, <3>3, <4>1 DEF TransportInv, WelcomeFirst
          <5>2. \A j \in 1 .. i : j \in 1 .. Len(queue)
            BY <2>2, <4>1
          <5> QED
            BY <2>3, <5>1, <5>2
        <4>2. CASE i = Len(queue) + 1
          BY <2>2, <3>2, <3>3, <4>2
        <4> QED
          BY <2>2, <4>1, <4>2
      <3> QED
        BY <1>3, <3>1, <3>2, <3>3 DEF WelcomeFirst
    <2> QED
      BY <1>11, <1>12, <2>4, <2>5, <2>6, <2>7 DEF TransportInv
  <1>15. CASE frame.kind = "delta" /\ Parses(frame.raw) /\ AcceptDelta(frame)
    <2> DEFINE call == [kind |-> "delta", n |-> frame.n, raw |-> frame.raw,
                        delta |-> Read(frame.raw)]
    <2>1. frame.raw \in RawDelta
      BY <1>1, <1>15 DEF Frame
    <2>2. call \in Call
      BY <1>2, <1>15, <2>1 DEF Call
    <2>3. Marshal(attempt, call)
      BY <1>15 DEF AcceptDelta
    <2> QED
      BY <1>14, <1>15, <2>2, <2>3
  <1>16. CASE frame.kind \in {"welcome", "snapshot", "event"} /\ Marshal(attempt, frame)
    <2>1. frame \in Call
      BY <1>1, <1>16 DEF Frame, Call
    <2> QED
      BY <1>14, <1>16, <2>1
  <1> QED
    BY <1>13, <1>15, <1>16 DEF NetMessage, receiver, frame

(* A closure that runs: it acts if its connection is still the one in use. *)
LEMMA RunNextKeeps == TransportInv /\ RunNext => TransportInv'
  <1> SUFFICES ASSUME TransportInv, RunNext PROVE TransportInv'
    OBVIOUS
  <1> DEFINE call == Head(queue).call
  <1>1. /\ queue' = Tail(queue) /\ queue # <<>> /\ queue' \in Seq(Closure)
        /\ Len(queue) \in Nat \ {0} /\ DOMAIN queue = 1 .. Len(queue)
        /\ DOMAIN queue' = 1 .. Len(queue) - 1
        /\ \A i \in 1 .. Len(queue) - 1 : queue'[i] = queue[i + 1]
        /\ Head(queue) = queue[1] /\ call = queue[1].call /\ queue[1] \in Closure
        /\ 1 \in DOMAIN queue
    BY TailFacts DEF RunNext, TransportInv, Typed
  <1> HIDE DEF call
  <1>2. /\ socket' = socket /\ wire' = wire /\ spoken' = spoken /\ serverSeq' = serverSeq
        /\ cut' = cut /\ attempt' = attempt /\ alive' = alive /\ lastSeen' = lastSeen
        /\ sent' = Nothing
    BY DEF RunNext, network
  <1>3. /\ \A i \in DOMAIN queue' : i + 1 \in DOMAIN queue /\ queue'[i] = queue[i + 1]
        /\ \A i \in DOMAIN queue', k \in DOMAIN queue : k = i + 1 =>
                /\ queue'[i] = queue[k]
                /\ Live(i)' <=> Live(k)
                /\ Carries(i)' <=> Carries(k)
                /\ WelcomeQueued(i)' <=> WelcomeQueued(k)
    <2>1. \A i \in DOMAIN queue' : i + 1 \in DOMAIN queue /\ queue'[i] = queue[i + 1]
      BY <1>1
    <2> SUFFICES ASSUME NEW i \in DOMAIN queue', NEW k \in DOMAIN queue, k = i + 1
                 PROVE  /\ queue'[i] = queue[k]
                        /\ Live(i)' <=> Live(k)
                        /\ Carries(i)' <=> Carries(k)
                        /\ WelcomeQueued(i)' <=> WelcomeQueued(k)
      BY <2>1
    <2>2. queue'[i] = queue[k] /\ alive' = alive
      BY <1>2, <2>1
    <2>3. Live(i)' <=> Live(k)
      BY <2>2 DEF Live
    <2> QED
      BY <2>2, <2>3 DEF Carries, WelcomeQueued
  <1>4. call \in Call /\ (call.kind # "lost" => call.n \in Nat)
    BY <1>1 DEF Closure, Call, Lost
  <1>5. \A i \in DOMAIN queue' : queue'[i].attempt \in 1 .. attempt'
    BY <1>2, <1>3 DEF TransportInv, Typed, TransportTypeOK
  <1>6. got \in Nat /\ spoken \in Nat
    BY DEF TransportInv, Typed, TransportTypeOK
  <1>7. NumbersRise'
    BY <1>2 DEF TransportInv, NumbersRise, WelcomeNext
  <1>8. SentIsAccepted' /\ AsksOnlyPastInt'
    BY <1>2 DEF SentIsAccepted, AsksOnlyPastInt
  <1>9. CASE ~Live(1)
    <2>1. status' = status /\ got' = got /\ heard' = Nothing
      BY <1>1, <1>9 DEF RunNext, Live
    <2>2. Typed'
      BY <1>1, <1>2, <1>5, <2>1 DEF TransportInv, Typed, TransportTypeOK, Origin
    <2>3. Ordered'
      <3>1. /\ \A i \in DOMAIN queue' : Carries(i)' => queue'[i].call.n \in got' + 1 .. spoken'
            /\ \A i \in DOMAIN queue', j \in DOMAIN wire' :
                 Carries(i)' => queue'[i].call.n < wire'[j].n
        BY <1>2, <1>3, <2>1 DEF TransportInv, Ordered
      <3>2. \A i, j \in DOMAIN queue' :
              Carries(i)' /\ Carries(j)' /\ i < j => queue'[i].call.n < queue'[j].call.n
        BY <1>1, <1>3 DEF TransportInv, Ordered
      <3> QED
        BY <1>2, <2>1, <3>1, <3>2 DEF TransportInv, Ordered
    <2>4. EndIsLast'
      <3>1. \A i, j \in DOMAIN queue' : j + 1 <= i + 1 => j <= i
        BY <1>1
      <3> QED
        BY <1>2, <1>3, <2>1, <3>1 DEF TransportInv, EndIsLast
    <2>5. WelcomeFirst'
      <3>1. status = "connecting" /\ spoken > 0 =>
              WelcomeNext' \/ \E j \in DOMAIN queue' : WelcomeQueued(j)'
        <4>1. \A j \in DOMAIN queue : WelcomeQueued(j) =>
                j - 1 \in DOMAIN queue' /\ (j - 1) + 1 = j
          BY <1>1, <1>9 DEF WelcomeQueued
        <4>2. (\E j \in DOMAIN queue : WelcomeQueued(j)) =>
                \E j \in DOMAIN queue' : WelcomeQueued(j)'
          BY <1>3, <4>1
        <4> QED
          BY <1>2, <4>2 DEF TransportInv, WelcomeFirst, WelcomeNext
      <3>2. ASSUME status = "connecting", NEW i \in DOMAIN queue', Carries(i)'
            PROVE  \E j \in 1 .. i : WelcomeQueued(j)'
        <4>1. PICK j \in 1 .. i + 1 : WelcomeQueued(j)
          BY <1>3, <3>2 DEF TransportInv, WelcomeFirst
        <4>2. j # 1 /\ j - 1 \in 1 .. i /\ j - 1 \in DOMAIN queue' /\ (j - 1) + 1 = j
          BY <1>1, <1>9, <4>1 DEF WelcomeQueued
        <4>3. \A k \in DOMAIN queue' : k + 1 = j => WelcomeQueued(k)'
          BY <1>3, <4>1
        <4> QED
          BY <4>2, <4>3
      <3> QED
        BY <1>2, <2>1, <3>1, <3>2 DEF TransportInv, WelcomeFirst
    <2>6. HeardAsRelayed'
      BY <2>1 DEF HeardAsRelayed
    <2> QED
      BY <1>7, <1>8, <2>2, <2>3, <2>4, <2>5, <2>6 DEF TransportInv
  <1>10. CASE Live(1)
    <2>1. /\ status' = StatusAfter(call) /\ heard' = HandedOver(call)
          /\ got' = IF call.kind = "lost" THEN got ELSE call.n
      BY <1>1, <1>10 DEF RunNext, Live, call
    <2>2. status \in {"connecting", "connected"} /\ alive[attempt]
      BY <1>1, <1>10 DEF TransportInv, Typed, TransportTypeOK, EndIsLast, Live
    <2>3. HeardAsRelayed'
      <3>1. CASE call.kind \in {"welcome", "snapshot"}
        <4>1. call.raw \in RawState
          BY <1>4, <3>1 DEF Call, Lost
        <4>2. \A f \in DOMAIN call.raw : IsJson(call.raw[f])
          BY <4>1, TransportAssumption
        <4>3. heard' = Snapshot(call)
          BY <2>1, <3>1 DEF HandedOver
        <4>4. CASE ~Parses(call.raw)
          BY <4>3, <4>4 DEF Snapshot, HeardAsRelayed
        <4>5. CASE Parses(call.raw)
          <5>1. heard'.raw = call.raw /\ heard'.delta = ReadState(call.raw)
            BY <4>3, <4>5 DEF Snapshot
          <5> QED
            BY <4>2, <4>5, <5>1, ReadStateFits DEF HeardAsRelayed
        <4> QED
          BY <4>4, <4>5
      <3>2. CASE call.kind = "delta"
        <4>1. call.raw \in RawDelta /\ Parses(call.raw) /\ call.delta = Read(call.raw)
          BY <1>4, <3>2 DEF Call, Lost
        <4>2. heard'.raw = call.raw /\ heard'.delta = Read(call.raw)
          BY <2>1, <3>2, <4>1 DEF HandedOver
        <4>3. \A f \in DOMAIN call.raw : IsJson(call.raw[f])
          BY <4>1, TransportAssumption
        <4> QED
          BY <4>1, <4>2, <4>3, ReadFits DEF HeardAsRelayed
      <3>3. CASE call.kind \notin {"welcome", "snapshot", "delta"}
        BY <2>1, <3>3 DEF HandedOver, HeardAsRelayed
      <3> QED
        BY <3>1, <3>2, <3>3
    <2>4. CASE call.kind = "lost"
      <3>1. /\ status' = "down" /\ got' = got /\ socket \in {"none", "closed"}
            /\ \A i \in DOMAIN queue' : ~Live(i)'
        <4>1. socket \in {"none", "closed"} /\ \A j \in DOMAIN queue : Live(j) => j <= 1
          BY <1>1, <1>10, <2>4 DEF TransportInv, EndIsLast
        <4>2. status' = "down" /\ got' = got
          BY <2>1, <2>4 DEF StatusAfter
        <4> QED
          BY <1>1, <1>3, <4>1, <4>2
      <3>2. \A i \in DOMAIN queue' : ~Carries(i)'
        BY <3>1 DEF Carries
      <3>3. Typed'
        BY <1>1, <1>2, <1>5, <3>1 DEF TransportInv, Typed, TransportTypeOK, Origin
      <3>4. Ordered' /\ EndIsLast' /\ WelcomeFirst'
        BY <1>2, <3>1, <3>2 DEF TransportInv, Ordered, EndIsLast, WelcomeFirst
      <3> QED
        BY <1>7, <1>8, <2>3, <3>3, <3>4 DEF TransportInv
    <2>5. CASE call.kind # "lost"
      <3>1. Carries(1) /\ got' = call.n /\ call.n \in got + 1 .. spoken /\ call = queue[1].call
        BY <1>1, <1>10, <2>1, <2>5 DEF TransportInv, Ordered, Carries
      <3>2. status' = "connected"
        <4>1. CASE call.kind = "welcome"
          BY <2>1, <4>1 DEF StatusAfter
        <4>2. CASE call.kind # "welcome"
          <5>1. status # "connecting"
            <6>1. \A j \in 1 .. 1 : j = 1
              OBVIOUS
            <6>2. ~WelcomeQueued(1)
              BY <1>1, <4>2 DEF WelcomeQueued
            <6> QED
              BY <1>1, <3>1, <6>1, <6>2 DEF TransportInv, WelcomeFirst
          <5> QED
            BY <2>1, <2>2, <2>5, <4>2, <5>1 DEF StatusAfter
        <4> QED
          BY <4>1, <4>2
      <3>3. Typed'
        BY <1>1, <1>2, <1>4, <1>5, <1>6, <2>2, <3>1, <3>2
          DEF TransportInv, Typed, TransportTypeOK, Origin
      <3>4. Ordered'
        <4>1. \A i \in DOMAIN queue' : Carries(i)' =>
                /\ got' < queue'[i].call.n
                /\ queue'[i].call.n \in got + 1 .. spoken
          <5>1. \A i \in DOMAIN queue' : 1 < i + 1
            BY <1>1
          <5> QED
            BY <1>1, <1>3, <3>1, <5>1 DEF TransportInv, Ordered
        <4>2. \A j \in DOMAIN wire' : got' < wire'[j].n /\ wire'[j].n \in got + 1 .. spoken
          BY <1>1, <1>2, <3>1 DEF TransportInv, Ordered
        <4>3. \A i, j \in DOMAIN queue' :
                Carries(i)' /\ Carries(j)' /\ i < j => queue'[i].call.n < queue'[j].call.n
          BY <1>1, <1>3 DEF TransportInv, Ordered
        <4>4. \A i \in DOMAIN queue', j \in DOMAIN wire' :
                Carries(i)' => queue'[i].call.n < wire'[j].n
          BY <1>2, <1>3 DEF TransportInv, Ordered
        <4>5. \A n \in got + 1 .. spoken : got' < n => n \in got' + 1 .. spoken'
          BY <1>2, <1>4, <1>6, <3>1
        <4>6. \A i, j \in DOMAIN wire' : i < j => wire'[i].n < wire'[j].n
          BY <1>2 DEF TransportInv, Ordered
        <4> QED
          BY <4>1, <4>2, <4>3, <4>4, <4>5, <4>6 DEF Ordered
      <3>5. EndIsLast'
        <4>1. \A i, j \in DOMAIN queue' : j + 1 <= i + 1 => j <= i
          BY <1>1
        <4> QED
          BY <1>2, <1>3, <3>2, <4>1 DEF TransportInv, EndIsLast
      <3>6. WelcomeFirst'
        BY <1>2, <3>2 DEF TransportInv, WelcomeFirst
      <3> QED
        BY <1>7, <1>8, <2>3, <3>3, <3>4, <3>5, <3>6 DEF TransportInv
    <2> QED
      BY <2>4, <2>5
  <1> QED
    BY <1>9, <1>10

LEMMA NextKeeps == TransportInv /\ [Next]_vars => TransportInv'
  <1> SUFFICES ASSUME TransportInv, [Next]_vars PROVE TransportInv'
    OBVIOUS
  <1>1. spoken \in Nat /\ serverSeq \in Nat
    BY Bounds DEF TransportInv, Typed, TransportTypeOK
  <1>2. CASE Welcomes
    <2> PICK raw \in RawState :
          Speak([kind |-> "welcome", n |-> spoken + 1, seq |-> serverSeq, raw |-> raw])
      BY <1>2 DEF Welcomes
    <2> DEFINE frame == [kind |-> "welcome", n |-> spoken + 1, seq |-> serverSeq, raw |-> raw]
    <2>1. frame \in Frame
      BY <1>1 DEF Frame
    <2> QED
      BY <2>1, SpeakKeeps
  <1>3. CASE Speaks
    <2>1. ASSUME NEW raw \in RawState,
                 Speak([kind |-> "snapshot", n |-> spoken + 1, seq |-> serverSeq, raw |-> raw])
          PROVE  TransportInv'
      <3> DEFINE frame == [kind |-> "snapshot", n |-> spoken + 1, seq |-> serverSeq, raw |-> raw]
      <3>1. frame \in Frame
        BY <1>1 DEF Frame
      <3> QED
        BY <2>1, <3>1, SpeakKeeps
    <2>2. ASSUME NEW raw \in RawDelta,
                 Speak([kind |-> "delta", n |-> spoken + 1, seq |-> serverSeq + 1, raw |-> raw])
          PROVE  TransportInv'
      <3> DEFINE frame == [kind |-> "delta", n |-> spoken + 1, seq |-> serverSeq + 1, raw |-> raw]
      <3>1. frame \in Frame
        BY <1>1 DEF Frame
      <3> QED
        BY <2>2, <3>1, SpeakKeeps
    <2>3. ASSUME NEW kind \in {"event", "junk"}, Speak([kind |-> kind, n |-> spoken + 1])
          PROVE  TransportInv'
      <3> DEFINE frame == [kind |-> kind, n |-> spoken + 1]
      <3>1. frame \in Frame /\ frame.kind = kind
        BY <1>1 DEF Frame
      <3> QED
        BY <2>3, <3>1, SpeakKeeps
    <2> QED
      BY <1>3, <2>1, <2>2, <2>3 DEF Speaks
  <1>4. CASE UNCHANGED vars
    <2>1. Channels'
      BY <1>4, ChannelsUntouched DEF vars, TransportInv, Channels
    <2> QED
      BY <1>4, <2>1 DEF vars, network, TransportInv, Channels, SentIsAccepted, HeardAsRelayed,
                        AsksOnlyPastInt
  <1> QED
    BY <1>2, <1>3, <1>4, ConnectKeeps, DisconnectKeeps, AppSendsKeeps, RunNextKeeps,
       NetOpenKeeps, NetMessageKeeps, NetEndKeeps, RoomMovesOnKeeps, CutKeeps DEF Next

-----------------------------------------------------------------------------

THEOREM TransportInvariant == Spec => []TransportInv
  <1> QED
    BY InitKeeps, NextKeeps, PTL DEF Spec

THEOREM TransportTypes == Spec => []TransportTypeOK
  <1>1. TransportInv => TransportTypeOK
    BY DEF TransportInv, Typed
  <1> QED
    BY <1>1, TransportInvariant, PTL

(* The server accepts every delta of this client. *)
THEOREM SentAccepted == Spec => []SentIsAccepted
  <1>1. TransportInv => SentIsAccepted
    BY DEF TransportInv
  <1> QED
    BY <1>1, TransportInvariant, PTL

(* The client takes what the server lets pass as it is. *)
THEOREM HeardRelayed == Spec => []HeardAsRelayed
  <1>1. TransportInv => HeardAsRelayed
    BY DEF TransportInv
  <1> QED
    BY <1>1, TransportInvariant, PTL

(* The defensive request for a snapshot stays unused below IntMax. *)
THEOREM NoNeedlessRequest == Spec => []AsksOnlyPastInt
  <1>1. TransportInv => AsksOnlyPastInt
    BY DEF TransportInv
  <1> QED
    BY <1>1, TransportInvariant, PTL

-----------------------------------------------------------------------------
(* The refinement.                                                         *)

Over == socket \in {"none", "closed"} \/ cut

LEMMA LinkStep == TransportInv /\ TransportInv' /\ [Next]_vars => [L!LinkNext]_(L!linkVars)
  <1> SUFFICES ASSUME TransportInv, TransportInv', [Next]_vars
               PROVE  L!LinkNext \/ UNCHANGED L!linkVars
    OBVIOUS
  <1> DEFINE Still == /\ attempt' = attempt /\ spoken' = spoken /\ got' = got
                      /\ status' = status
  <1>1. ASSUME NEW helloValid \in BOOLEAN, ConnectRequested(helloValid)
        PROVE  L!Ask
    BY <1>1 DEF ConnectRequested, L!Ask
  <1>2. CASE DisconnectRequested
    BY <1>2 DEF DisconnectRequested, L!HangUp, L!LinkNext
  <1>3. ASSUME Still, Over' = Over PROVE UNCHANGED L!linkVars
    BY <1>3 DEF Over, L!linkVars
  <1>4. CASE AppSends \/ RoomMovesOn \/ NetMessage \/ UNCHANGED vars
    <2>1. Still /\ socket' = socket /\ cut' = cut
      BY <1>4 DEF AppSends, RoomMovesOn, NetMessage, vars, network, user
    <2> QED
      BY <1>3, <2>1 DEF Over
  <1>5. CASE NetOpen
    <2>1. Still /\ ~cut /\ cut' = cut /\ socket = "connecting" /\ socket' = "open"
      BY <1>5 DEF NetOpen, user
    <2>2. Over' = Over
      BY <2>1 DEF Over
    <2> QED
      BY <1>3, <2>1, <2>2
  <1>6. CASE NetEnd
    <2>1. Still /\ cut /\ cut' = cut
      BY <1>6 DEF NetEnd, user
    <2>2. Over' = Over
      BY <2>1 DEF Over
    <2> QED
      BY <1>3, <2>1, <2>2
  <1>7. CASE Cut
    <2>1. Still /\ cut' = TRUE
      BY <1>7 DEF Cut, user
    <2> QED
      BY <2>1 DEF L!End, L!LinkNext
  <1>8. ASSUME NEW frame, Speak(frame) PROVE L!Speak
    <2>1. /\ socket = "open" /\ ~cut /\ spoken' = spoken + 1
          /\ socket' = socket /\ cut' = cut
          /\ attempt' = attempt /\ got' = got /\ status' = status
      BY <1>8 DEF Speak, user
    <2> QED
      BY <2>1 DEF L!Speak
  <1>9. CASE RunNext
    <2>1. /\ attempt' = attempt /\ spoken' = spoken /\ socket' = socket /\ cut' = cut
      BY <1>9 DEF RunNext, network
    <2>2. Over' = Over
      BY <2>1 DEF Over
    <2>3. /\ queue # <<>> /\ queue \in Seq(Closure) /\ 1 \in DOMAIN queue
          /\ Head(queue) = queue[1] /\ \A i \in 1 .. 1 : i = 1
      BY <1>9, TailFacts DEF RunNext, TransportInv, Typed
    <2>4. CASE ~Live(1)
      <3>1. Still
        BY <1>9, <2>1, <2>3, <2>4 DEF RunNext, Live
      <3> QED
        BY <1>3, <2>2, <3>1
    <2>5. CASE Live(1) /\ queue[1].call.kind = "lost"
      <3>1. status' = "down" /\ got' = got
        BY <1>9, <2>3, <2>5 DEF RunNext, Live, StatusAfter
      <3>2. status \in {"connecting", "connected"} /\ socket \in {"none", "closed"}
        BY <2>3, <2>5 DEF TransportInv, Typed, TransportTypeOK, EndIsLast
      <3> QED
        BY <2>1, <3>1, <3>2 DEF L!Fail, L!LinkNext
    <2>6. CASE Live(1) /\ queue[1].call.kind # "lost"
      <3>1. status' = StatusAfter(queue[1].call) /\ got' = queue[1].call.n
        BY <1>9, <2>3, <2>6 DEF RunNext, Live
      <3>2. status \in {"connecting", "connected"} /\ got' \in got + 1 .. spoken
        BY <2>3, <2>6, <3>1
          DEF TransportInv, Typed, TransportTypeOK, EndIsLast, Ordered, Carries
      <3>3. status' = "connected"
        <4>1. CASE queue[1].call.kind = "welcome"
          BY <3>1, <4>1 DEF StatusAfter
        <4>2. CASE queue[1].call.kind # "welcome"
          <5>1. status # "connecting"
            BY <2>3, <2>6, <4>2 DEF TransportInv, WelcomeFirst, WelcomeQueued, Carries
          <5> QED
            BY <2>6, <3>1, <3>2, <4>2, <5>1 DEF StatusAfter
        <4> QED
          BY <4>1, <4>2
      <3> QED
        BY <2>1, <3>2, <3>3 DEF L!Hear, L!LinkNext
    <2> QED
      BY <2>4, <2>5, <2>6
  <1> QED
    BY <1>1, <1>2, <1>4, <1>5, <1>6, <1>7, <1>8, <1>9
      DEF Next, Welcomes, Speaks, L!LinkNext

(* Whoever waits for the callbacks of a connection hears of that one only, *)
(* in order, from its welcome to its end.                                  *)
THEOREM TransportImplementsLink == Spec => LinkSpec
  <1>1. Init => L!LinkInit
    BY DEF Init, L!LinkInit
  <1> QED
    BY <1>1, LinkStep, TransportInvariant, PTL DEF Spec, LinkSpec, L!LinkSpec
=============================================================================
