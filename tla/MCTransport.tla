----------------------------- MODULE MCTransport -----------------------------
(* Transport with small ranges and the deltas and states of one deck. *)
EXTENDS Transport

MCLow  == [f \in NumericField \cup {"loopSeconds"} |-> 0]
MCHigh == [f \in NumericField \cup {"loopSeconds"} |-> 2]

N(n) == <<"number", n>>
Points(i, o) == <<"object", [inSeconds |-> N(i), outSeconds |-> N(o)]>>

State(track, playing, position, loop) ==
    [trackId |-> track, playing |-> playing, positionSeconds |-> position, gain |-> 1,
     playbackRate |-> 1, pitchOffsetSemitones |-> 0, loop |-> loop, repeat |-> FALSE]

MCDefaultState == State(NoTrackId, FALSE, 0, NoLoopPoints)

MCRawDelta ==
    {[positionSeconds |-> N(2), loop |-> Points(0, 2)],
     [loop |-> Points(3, 4), gain |-> N(-1)],
     [gain |-> <<"string", "loud">>]}

MCRawState ==
    {Built(State("song", TRUE, 2, [inSeconds |-> 1, outSeconds |-> 2])),
     [trackId |-> Null, playing |-> <<"boolean", FALSE>>]}

MCLocalEdit ==
    {[playing |-> TRUE], [playing |-> FALSE, positionSeconds |-> -1],
     [trackId |-> NoTrackId, playing |-> FALSE, positionSeconds |-> 0],
     [loop |-> [inSeconds |-> 1, outSeconds |-> 3]],
     [loop |-> [inSeconds |-> 2, outSeconds |-> 3]], [gain |-> 3]}

MCLocalState ==
    {MCDefaultState, State("song", TRUE, 3, [inSeconds |-> 2, outSeconds |-> 3])}
=============================================================================
