-------------------------------- MODULE Deck --------------------------------
(***************************************************************************)
(* One deck of one client: its stored PlaybackState (StateManager), the    *)
(* controls that change it (DeckComponent, MainComponent::loadTrackToDeck),*)
(* the adapter that drives the audio engine from it and polls the engine   *)
(* for the end of a track (EngineAdapter), and the clock that publishes    *)
(* the controller's position (PositionClock).                              *)
(*                                                                         *)
(* The message thread runs one action at a time; render blocks of the      *)
(* audio thread come between any two of them, and a block that is about to *)
(* stop the engine does so in a step of its own.  The playhead that the    *)
(* deck displays runs on the wall clock between changes: the model takes   *)
(* any of Places for it.  Gain, pitch and the crossfader are left out.     *)
(***************************************************************************)
EXTENDS Engine, BeatSync

CONSTANTS
    Grid,           \* the beat grid that analysis finds in each track
    Places,         \* positions of the displayed playhead, and of the slider
    ResumeEpsilon,  \* this close to the end, Play starts over (half a second)
    OtherDecks,     \* what the sync button may find on the other deck
    Incoming,       \* deltas and snapshots of this deck that may arrive
    NoGesture       \* no loop gesture is in flight

Field == {"track", "playing", "position", "rate", "loop", "repeat"}

(* The track of a gesture is kept for the properties only. *)
Gesture == [at : Nat, stash : Loop \cup {NoLoop}, track : Track]

ASSUME DeckAssumption ==
    /\ Grid \in [Track -> BeatGrid]
    /\ Rate = MinRate .. MaxRate
    /\ Places \subseteq Nat
    /\ ResumeEpsilon \in Nat
    /\ OtherDecks \subseteq DeckSyncInfo
    /\ NoGesture \notin Gesture
    /\ \A d \in Incoming :
        /\ DOMAIN d \subseteq Field
        /\ "track" \in DOMAIN d => "position" \in DOMAIN d
        /\ "track" \in DOMAIN d => d["track"] \in Track \cup {NoTrack}
        /\ "playing" \in DOMAIN d => d["playing"] \in BOOLEAN
        /\ "position" \in DOMAIN d => d["position"] \in Int
        /\ "rate" \in DOMAIN d => d["rate"] \in Rate
        /\ "loop" \in DOMAIN d => d["loop"] \in Loop \cup {NoLoop}
        /\ "repeat" \in DOMAIN d => d["repeat"] \in BOOLEAN

VARIABLES
    state,         \* StateManager::states_, this deck's PlaybackState
    standing,      \* "controller"; "observer" of one; "free": nobody controls
    engine,        \* the deck's AudioEngine
    beats,         \* EngineAdapter::cachedBeatGrid_, lastAnalyzedTrackId_
    polling,       \* EngineAdapter's 10 Hz timer runs
    clockRunning,  \* PositionClock's 5 s timer runs
    gesture        \* DeckComponent: loop-in point and the loop it put aside

vars == <<state, standing, engine, beats, polling, clockRunning, gesture>>

PlaybackState ==
    [track    : Track \cup {NoTrack},
     playing  : BOOLEAN,
     position : 0 .. MaxPosition,
     rate     : Rate,
     loop     : [in : 0 .. MaxPosition, out : 0 .. MaxPosition] \cup {NoLoop},
     repeat   : BOOLEAN]

Init ==
    /\ state = [track |-> NoTrack, playing |-> FALSE, position |-> 0,
                rate |-> UnityRate, loop |-> NoLoop, repeat |-> TRUE]
    /\ standing = "free"
    /\ engine = SilentEngine
    /\ beats = [grid |-> NoGrid, track |-> NoTrack]
    /\ polling = FALSE
    /\ clockRunning = FALSE
    /\ gesture = NoGesture

-----------------------------------------------------------------------------
(* StateManager::applyDelta and its listeners.  A delta is a function on   *)
(* the fields it carries.                                                  *)

(* MUTANT: points from outside the range are stored as they come. *)
UnclampedDelta(d) == d

(* ranges::clamp: a loop that ends before it starts is no loop. *)
ClampedLoop(l) ==
    LET fit == [in  |-> Within(0, MaxPosition, l.in),
                out |-> Within(0, MaxPosition, l.out)]
    IN  IF fit.in < fit.out THEN fit ELSE NoLoop

Clamped(d) ==
    [f \in DOMAIN d |->
        CASE f = "position" -> Within(0, MaxPosition, d[f])
          [] f = "loop" /\ d[f] # NoLoop -> ClampedLoop(d[f])
          [] OTHER -> d[f]]

(* Playing always comes with a position. *)
Injected(d) ==
    IF "playing" \in DOMAIN d /\ "position" \notin DOMAIN d /\ d["playing"]
    THEN [f \in DOMAIN d \cup {"position"} |->
            IF f = "position" THEN state.position ELSE d[f]]
    ELSE d

Merged(s, d) == [f \in Field |-> IF f \in DOMAIN d THEN d[f] ELSE s[f]]

(* A track that is empty, unknown or cannot be decoded is silence. *)
Resolve(track) == IF track \in Playable THEN track ELSE NoTrack

(* MUTANT: a load after the seek takes the engine back to the start. *)
SeekThenLoad(e, d) ==
    LET has(f)  == f \in DOMAIN d
        sought  == IF has("position") THEN RequestSeek(e, d["position"]) ELSE e
        loaded  == IF has("track") THEN Load(sought, Resolve(d["track"])) ELSE sought
        rated   == IF has("rate") THEN [loaded EXCEPT !.rate = d["rate"]] ELSE loaded
        looping == IF has("loop") THEN SetLoop(rated, d["loop"]) ELSE rated
        again   == IF has("repeat") THEN [looping EXCEPT !.repeat = d["repeat"]] ELSE looping
    IN  IF has("playing") THEN [again EXCEPT !.playing = d["playing"]] ELSE again

(* EngineAdapter::handleDelta: the engine calls, in their order. *)
Driven(e, d) ==
    LET has(f)  == f \in DOMAIN d
        loaded  == IF has("track") THEN Load(e, Resolve(d["track"])) ELSE e
        sought  == IF has("position") THEN RequestSeek(loaded, d["position"]) ELSE loaded
        rated   == IF has("rate") THEN [sought EXCEPT !.rate = d["rate"]] ELSE sought
        looping == IF has("loop") THEN SetLoop(rated, d["loop"]) ELSE rated
        again   == IF has("repeat") THEN [looping EXCEPT !.repeat = d["repeat"]] ELSE looping
    IN  IF has("playing") THEN [again EXCEPT !.playing = d["playing"]] ELSE again

(* A loaded track is analysed, unless it was the last one to be. *)
Analyzed(b, track) ==
    IF Resolve(track) = NoTrack THEN [grid |-> NoGrid, track |-> NoTrack]
    ELSE IF track = b.track THEN b
    ELSE [grid |-> Grid[track], track |-> track]

(* A new track ends a loop gesture on the old one. *)
GestureAfter(g, d) == IF "track" \in DOMAIN d THEN NoGesture ELSE g

(* What a change does to everything that listens. *)
Changed(d) ==
    /\ state' = Merged(state, d)
    /\ engine' = Driven(engine, d)
    /\ beats' = IF "track" \in DOMAIN d THEN Analyzed(beats, d["track"]) ELSE beats
    /\ polling' = IF "playing" \in DOMAIN d THEN d["playing"] ELSE polling
    /\ clockRunning' = IF "playing" \in DOMAIN d
                       THEN standing = "controller" /\ d["playing"]
                       ELSE clockRunning
    /\ UNCHANGED standing

LocalDelta(d) == Changed(Injected(Clamped(d)))

-----------------------------------------------------------------------------
(* What the user does.                                                     *)

Permitted == standing # "observer"

(* deckControlEnabled *)
ControlEnabled == state.track # NoTrack /\ Permitted

Duration(track) == IF track = NoTrack THEN 0 ELSE Frames[track]

(* MUTANT: only a playhead at the very end starts over. *)
ResumeWhereItStopped ==
    LET at == ReportedPosition(engine)
    IN  IF Duration(state.track) > 0 /\ ~engine.playing /\ at >= Duration(state.track)
        THEN 0 ELSE at

(* computeResumePositionSeconds *)
ResumePosition ==
    LET at       == ReportedPosition(engine)
        duration == Duration(state.track)
    IN  IF duration > 0 /\ ~engine.playing /\ at >= duration - ResumeEpsilon
        THEN 0 ELSE at

TogglePlay ==
    /\ ControlEnabled
    /\ IF state.playing
       THEN LocalDelta([playing |-> FALSE])
       ELSE LocalDelta([position |-> ResumePosition, playing |-> TRUE])
    /\ UNCHANGED gesture

DragPosition(p) ==
    /\ ControlEnabled
    /\ p <= Duration(state.track)
    /\ LocalDelta([position |-> p])
    /\ UNCHANGED gesture

MoveRate(r) ==
    /\ ControlEnabled
    /\ LocalDelta([rate |-> r])
    /\ UNCHANGED gesture

ToggleRepeat ==
    /\ ControlEnabled
    /\ LocalDelta([repeat |-> ~state.repeat])
    /\ UNCHANGED gesture

(* Loop In marks a point, and puts an active loop aside. *)
LoopIn(p) ==
    /\ ControlEnabled
    /\ gesture = NoGesture
    /\ gesture' = [at |-> p, stash |-> state.loop, track |-> state.track]
    /\ IF state.loop # NoLoop
       THEN LocalDelta([loop |-> NoLoop])
       ELSE UNCHANGED <<state, standing, engine, beats, polling, clockRunning>>

(* Pressed again, it brings that loop back. *)
CancelLoopIn ==
    /\ ControlEnabled
    /\ gesture # NoGesture
    /\ gesture' = NoGesture
    /\ IF gesture.stash # NoLoop
       THEN LocalDelta([loop |-> gesture.stash])
       ELSE UNCHANGED <<state, standing, engine, beats, polling, clockRunning>>

LoopOut(p) ==
    /\ ControlEnabled
    /\ gesture # NoGesture
    /\ IF p > gesture.at
       THEN /\ LocalDelta([loop |-> [in |-> gesture.at, out |-> p]])
            /\ gesture' = NoGesture
       ELSE CancelLoopIn

LoopClear ==
    /\ ControlEnabled
    /\ LocalDelta([loop |-> NoLoop])
    /\ gesture' = NoGesture

ThisDeck ==
    [grid |-> beats.grid, position |-> ReportedPosition(engine), rate |-> state.rate]

SyncClicked(other) ==
    /\ ControlEnabled
    /\ CanSync(ThisDeck, other)
    /\ LocalDelta([rate     |-> MatchedRate(ThisDeck, other),
                   position |-> NudgedPosition(ThisDeck, other, Duration(state.track))])
    /\ UNCHANGED gesture

LoadTrack(t) ==
    /\ Permitted
    /\ LET d == [track |-> t, playing |-> FALSE, position |-> 0]
       IN  LocalDelta(d) /\ gesture' = GestureAfter(gesture, d)

-----------------------------------------------------------------------------
(* What the room, the timers and the audio device do.                      *)

IsSnapshot(d) == DOMAIN d = Field

(* Changes come from another controller, snapshots when the server sends   *)
(* one.                                                                    *)
RemoteDelta(d) ==
    /\ DOMAIN d # {}
    /\ standing = "observer" \/ IsSnapshot(d)
    /\ Changed(Clamped(d))
    /\ gesture' = GestureAfter(gesture, d)

(* PositionClock::updateTimerState *)
ClockFor(newStanding) == newStanding = "controller" /\ state.playing

(* applyRoleToUI: a gesture in flight stays. *)
RoleChange(newStanding) ==
    /\ standing' = newStanding
    /\ clockRunning' = ClockFor(newStanding)
    /\ UNCHANGED <<state, engine, beats, polling, gesture>>

(* MUTANT: only who may control corrects the state. *)
PollIfPermitted ==
    /\ polling
    /\ Permitted
    /\ state.playing /\ ~engine.playing
    /\ LocalDelta([playing |-> FALSE])
    /\ UNCHANGED gesture

(* checkForSelfStop: the state follows an engine that stopped by itself.   *)
PollTimer ==
    /\ polling
    /\ state.playing /\ ~engine.playing
    /\ LocalDelta([playing |-> FALSE])
    /\ UNCHANGED gesture

(* emitResyncNow *)
ClockTimer ==
    /\ clockRunning
    /\ standing = "controller" /\ state.playing
    /\ LocalDelta([position |-> ReportedPosition(engine)])
    /\ UNCHANGED gesture

BeginBlock ==
    /\ ~engine.stopDue
    /\ engine' = BlockStarted(engine)
    /\ UNCHANGED <<state, standing, beats, polling, clockRunning, gesture>>

EndBlock ==
    /\ engine.stopDue
    /\ engine' = BlockFinished(engine)
    /\ UNCHANGED <<state, standing, beats, polling, clockRunning, gesture>>

-----------------------------------------------------------------------------
Next ==
    \/ TogglePlay
    \/ \E p \in Places : DragPosition(p)
    \/ \E r \in Rate : MoveRate(r)
    \/ ToggleRepeat
    \/ \E p \in Places : LoopIn(p)
    \/ CancelLoopIn
    \/ \E p \in Places : LoopOut(p)
    \/ LoopClear
    \/ \E other \in OtherDecks : SyncClicked(other)
    \/ \E t \in Track : LoadTrack(t)
    \/ \E d \in Incoming : RemoteDelta(d)
    \/ \E r \in {"free", "controller", "observer"} : RoleChange(r)
    \/ PollTimer
    \/ ClockTimer
    \/ BeginBlock
    \/ EndBlock

Spec == Init /\ [][Next]_vars

(* The audio device keeps asking for blocks and the 10 Hz timer keeps      *)
(* firing; nothing is asked of the user, the room or the clock.            *)
Fairness == WF_vars(BeginBlock) /\ WF_vars(EndBlock) /\ WF_vars(PollTimer)

FairSpec == Spec /\ Fairness

-----------------------------------------------------------------------------
(* What is stored is always in range, wherever it came from: a position    *)
(* read from an engine that has just wrapped may be negative, and a delta  *)
(* may carry anything.                                                     *)
DeckTypeOK ==
    /\ state \in PlaybackState
    /\ standing \in {"free", "controller", "observer"}
    /\ engine \in EngineState
    /\ beats \in [grid : BeatGrid, track : Track \cup {NoTrack}]
    /\ polling \in BOOLEAN
    /\ clockRunning \in BOOLEAN
    /\ gesture \in Gesture \cup {NoGesture}

(* Whatever the order of loads, seeks, loops, snapshots and blocks, the    *)
(* engine plays what the state says or less: silence for a track it cannot *)
(* decode, no sound that the state calls stopped, no loop of another       *)
(* track, and the beat grid of the audio it holds.                         *)
EngineFollowsState ==
    /\ engine.audio = Resolve(state.track)
    /\ engine.rate = state.rate /\ engine.repeat = state.repeat
    /\ engine.playing => state.playing
    /\ engine.loop # NoLoop =>
        /\ engine.audio # NoTrack /\ state.loop # NoLoop
        /\ engine.loop = Fitted(state.loop, engine.audio)
    /\ beats.track = engine.audio
    /\ beats.grid = IF engine.audio = NoTrack THEN NoGrid ELSE Grid[engine.audio]

(* A seek that no block has taken yet is to the stored position: of the    *)
(* seeks of one delta, or of several between two blocks, the last one      *)
(* counts, and the rewind of a load is not it.                             *)
PendingSeekIsAsked ==
    engine.seek # NoSeek =>
        engine.seek = IF engine.audio = NoTrack THEN 0 ELSE state.position

(* The end of a track is looked for exactly while the deck plays, and the  *)
(* position is published exactly while the controller's deck plays.        *)
TimersFollow ==
    /\ polling = state.playing
    /\ clockRunning = (standing = "controller" /\ state.playing)

(* A loop-in point is never carried to another track, whoever loads it.    *)
GestureOfThisTrack == gesture # NoGesture => gesture.track = state.track

(* Everything that listens to the state agrees with it at any moment: the  *)
(* engine, the timers and the loop gesture, whoever made the last change   *)
(* and in whatever order changes of role, track and play came.             *)
ListenersFollow == EngineFollowsState /\ TimersFollow /\ GestureOfThisTrack

(* A block of a deck that repeats or loops never runs into the end of the  *)
(* track: the loop is fitted to the audio that is there, the loop wraps    *)
(* before the whole track does, and a loop that lies behind the playhead   *)
(* leaves the repeat in force.  (A track of one frame has nothing to play: *)
(* the pull interpolates between two.)                                     *)
EndlessNeverRunsDry ==
    [][/\ BeginBlock /\ engine.playing /\ engine.audio # NoTrack
       /\ LastRenderable(engine.audio) > 0 /\ Endless(engine)
       => ~engine'.stopDue /\ engine'.drain = 0]_vars

(* Pressing Play on a stopped deck is heard: the first frame that the next *)
(* block pulls lies in the track, also when the engine stopped itself at   *)
(* the end, where it reports a position behind the one it pulls from.      *)
ResumeMakesSound ==
    [][TogglePlay /\ engine'.playing /\ engine'.audio # NoTrack
       /\ LastRenderable(engine'.audio) > Latency * MaxRate =>
        LET ready == SeekTaken(ResetTaken(engine'))
        IN  InTrack(ready, Wrapped(ready, ready.position + ready.lagged))]_vars

(* After the sync button the next beats of the two decks coincide, unless  *)
(* the nudge was dropped or the tempo is out of range.                     *)
ToNextBeat(grid, position) == grid.interval - Phase(grid, position)

BeatsCoincide ==
    [][\A other \in OtherDecks :
        /\ SyncClicked(other)
        /\ state'.position = ThisDeck.position + Nudge(ThisDeck, other)
        /\ state'.rate * other.grid.interval = other.rate * ThisDeck.grid.interval
        => ToNextBeat(beats.grid, state'.position) * other.rate
            = ToNextBeat(other.grid, other.position) * state'.rate]_vars

(* Displayed as playing, a deck plays, or soon shows that it stopped:      *)
(* whether the track ended, could not be loaded, or a block stopped the    *)
(* engine just after Play.                                                 *)
SoundSettles == []<>(state.playing => engine.playing)

(* A track that nothing repeats comes to its end, unless it is sought.     *)
TrackEnds == []<>(~engine.playing \/ Endless(engine) \/ engine.seek # NoSeek)

(* A load always clears the loop (docs/plan/checklists/M5-host.md:112).    *)
LoadClearsLoop == [][\A t \in Track : LoadTrack(t) => state'.loop = NoLoop]_vars
=============================================================================
