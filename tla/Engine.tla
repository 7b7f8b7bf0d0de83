------------------------------- MODULE Engine -------------------------------
(***************************************************************************)
(* One deck's audio engine, as the functions its calls and its render      *)
(* blocks compute (client/src/engine/BufferPlaybackSource.cpp, behind      *)
(* JuceAudioEngine.cpp).  What the two threads do to each other within one *)
(* call is the subject of module Handoff; here a call is one step, and a   *)
(* block is two: what it reads and computes, and its store to the play     *)
(* flag.                                                                   *)
(*                                                                         *)
(* A block delivers one output frame and pulls as many source frames as    *)
(* the playback rate says, so the fractional carry of the pull is left     *)
(* out; source and device have one sample rate.  Samples, gain and pitch   *)
(* are left out.                                                           *)
(***************************************************************************)
EXTENDS Integers

CONSTANTS
    Track,          \* track ids
    NoTrack,        \* the empty id, and the null buffer
    Frames,         \* frames of each track; 0: this client cannot decode it
    Rate,           \* playback rates, in source frames for each output frame
    UnityRate,      \* the rate an engine starts with
    Latency,        \* TimeStretcher::outputLatencyFrames()
    Discontinuity,  \* a seek further than this resets the stretcher (one second)
    NoLoop          \* no loop, or an inactive LoopState

Loop == [in : Nat, out : Nat]

ASSUME EngineAssumption ==
    /\ NoTrack \notin Track
    /\ Frames \in [Track -> Nat]
    /\ Rate \subseteq Nat \ {0}
    /\ UnityRate \in Rate
    /\ Latency \in Nat
    /\ Discontinuity \in Nat
    /\ NoLoop \notin Loop

NoSeek == -1

Playable == {t \in Track : Frames[t] > 0}

Least(a, b) == IF a < b THEN a ELSE b

Most(a, b) == IF a > b THEN a ELSE b

EngineState ==
    [audio    : Playable \cup {NoTrack},  \* activeBuffer_
     playing  : BOOLEAN,                  \* playing_
     position : Int,                      \* positionSamples_, less the latency
     seek     : Nat \cup {NoSeek},        \* pendingSeekSamples_, if seekPending_
     resetDue : BOOLEAN,                  \* forceStretcherReset_
     loop     : Loop \cup {NoLoop},       \* the active loop slot
     repeat   : BOOLEAN,                  \* repeat_
     rate     : Rate,                     \* rate_
     lagged   : Nat,                      \* lastLaggedSourceFrames_
     produced : Nat,                      \* producedOutputFrames_, up to Latency
     drain    : Nat,                      \* drainFramesRemaining_
     stopDue  : BOOLEAN]                  \* the block under way will clear playing_

SilentEngine ==
    [audio |-> NoTrack, playing |-> FALSE, position |-> 0, seek |-> NoSeek,
     resetDue |-> FALSE, loop |-> NoLoop, repeat |-> TRUE, rate |-> UnityRate,
     lagged |-> 0, produced |-> 0, drain |-> 0, stopDue |-> FALSE]

-----------------------------------------------------------------------------
(* Calls of the message thread.                                            *)

(* MUTANT: the old track's loop survives. *)
LoadKeepingLoop(e, audio) ==
    [e EXCEPT !.audio = audio, !.resetDue = TRUE, !.seek = 0]

(* load: back to the start, no loop; rate and repeat stay. *)
Load(e, audio) ==
    [e EXCEPT !.audio = audio, !.resetDue = TRUE, !.seek = 0, !.loop = NoLoop]

(* requestSeek: without audio there is no sample rate, hence frame 0. *)
RequestSeek(e, frame) ==
    LET target   == IF e.audio = NoTrack THEN 0 ELSE frame
        distance == Most(target - e.position, e.position - target)
        far      == IF e.audio = NoTrack THEN 0 ELSE Discontinuity
    IN  [e EXCEPT !.seek = target, !.resetDue = @ \/ distance > far]

(* The pull interpolates between a frame and its successor. *)
LastRenderable(audio) == Frames[audio] - 1

(* A loop as setLoop stores it for a loaded track. *)
Fitted(loop, audio) ==
    [in  |-> Least(loop.in, LastRenderable(audio)),
     out |-> Least(loop.out, LastRenderable(audio))]

SetLoop(e, loop) ==
    [e EXCEPT !.loop =
        IF loop = NoLoop \/ e.audio = NoTrack THEN NoLoop ELSE Fitted(loop, e.audio)]

(* getCurrentPositionSeconds *)
ReportedPosition(e) == IF e.audio = NoTrack THEN 0 ELSE e.position

-----------------------------------------------------------------------------
(* Render blocks, on the audio thread.                                     *)

(* wrapPositionWithinRange: what lies past the end re-enters at the start. *)
WrapWithin(p, from, to) ==
    IF from < to /\ p >= to THEN from + ((p - from) % (to - from)) ELSE p

(* MUTANT: repeat is only for decks without a loop. *)
RepeatUnlessLoop(e, p) ==
    LET last == LastRenderable(e.audio)
    IN  IF e.loop # NoLoop THEN WrapWithin(p, e.loop.in, e.loop.out)
        ELSE IF e.repeat /\ p >= last THEN WrapWithin(p, 0, last) ELSE p

(* The loop wraps first; repeat acts on what is still past the end. *)
Wrapped(e, p) ==
    LET last   == LastRenderable(e.audio)
        inLoop == IF e.loop = NoLoop THEN p ELSE WrapWithin(p, e.loop.in, e.loop.out)
    IN  IF e.repeat /\ inLoop >= last THEN WrapWithin(inLoop, 0, last) ELSE inLoop

InTrack(e, p) == 0 <= p /\ p < LastRenderable(e.audio)

(* The pull head after n frames.  Where it runs dry it stays. *)
PullHead(e, start) ==
    LET head[n \in Nat] ==
            IF n = 0 THEN start
            ELSE LET p == Wrapped(e, head[n - 1])
                 IN  IF InTrack(e, p) THEN p + 1 ELSE p
    IN  head

RanDry(e, start) == ~InTrack(e, Wrapped(e, PullHead(e, start)[e.rate - 1]))

(* A block with audio to play.  The raw head is where the last block left  *)
(* it: the reported position and what was subtracted from it then.  The    *)
(* tail of a track that ran dry is drained before the engine stops.        *)
Rendered(e) ==
    LET start    == e.position + e.lagged
        dry      == RanDry(e, start)
        armed    == IF e.drain = 0 THEN Latency + 1 ELSE e.drain
        drain    == IF dry THEN armed - 1 ELSE 0
        produced == Least(e.produced + 1, Latency)
        lagged   == produced * e.rate
    IN  [e EXCEPT !.position = PullHead(e, start)[e.rate] - lagged,
                  !.lagged   = lagged,
                  !.produced = produced,
                  !.drain    = drain,
                  !.stopDue  = dry /\ drain = 0]

ResetTaken(e) ==
    IF e.resetDue
    THEN [e EXCEPT !.resetDue = FALSE, !.lagged = 0, !.produced = 0, !.drain = 0]
    ELSE e

SeekTaken(e) ==
    IF e.seek = NoSeek THEN e ELSE [e EXCEPT !.position = e.seek, !.seek = NoSeek]

(* MUTANT: the tail, once armed again in every dry block, never drains. *)
DrainRearmed(e) ==
    LET ready == SeekTaken(ResetTaken(e))
    IN  IF ready.audio = NoTrack THEN [ready EXCEPT !.stopDue = TRUE]
        ELSE IF ready.playing THEN Rendered([ready EXCEPT !.drain = 0]) ELSE ready

(* getNextAudioBlock, up to its store to the play flag. *)
BlockStarted(e) ==
    LET ready == SeekTaken(ResetTaken(e))
    IN  IF ready.audio = NoTrack THEN [ready EXCEPT !.stopDue = TRUE]
        ELSE IF ready.playing THEN Rendered(ready) ELSE ready

(* The store: whatever was asked for since the block began. *)
BlockFinished(e) == [e EXCEPT !.playing = FALSE, !.stopDue = FALSE]

(* Whether a block can go on for ever. *)
Endless(e) == e.repeat \/ (e.loop # NoLoop /\ e.loop.in < e.loop.out)
=============================================================================
