----------------------------- MODULE DeckProofs -----------------------------
(***************************************************************************)
(* Proofs about Deck, for every track list, render rate, latency, set of   *)
(* incoming changes and position bound.  The first part does not look into *)
(* what the pull loop of a block computes: that the listeners agree needs  *)
(* only that a block leaves the audio, the loop, the repeat flag and the   *)
(* rate alone, takes the seek, and never starts an engine.  The second     *)
(* part follows the pull head, for the types and for what is heard.        *)
(***************************************************************************)
EXTENDS Deck, Recursion

EngineField ==
    {"audio", "playing", "position", "seek", "resetDue", "loop", "repeat",
     "rate", "lagged", "produced", "drain", "stopDue"}

IsEngine(e) == e = [f \in EngineField |-> e[f]]

-----------------------------------------------------------------------------
(* The engine calls.                                                       *)

(* load: silence or the track, from its start, without a loop. *)
LEMMA LoadEffect ==
    ASSUME NEW e, IsEngine(e), NEW audio
    PROVE  /\ IsEngine(Load(e, audio))
           /\ Load(e, audio).audio = audio
           /\ Load(e, audio).seek = 0
           /\ Load(e, audio).loop = NoLoop
           /\ Load(e, audio).repeat = e.repeat
           /\ Load(e, audio).rate = e.rate
           /\ Load(e, audio).playing = e.playing
  BY DEF IsEngine, EngineField, Load

(* requestSeek: nothing but the seek and the reset flag. *)
LEMMA SeekEffect ==
    ASSUME NEW e, IsEngine(e), NEW frame
    PROVE  /\ IsEngine(RequestSeek(e, frame))
           /\ RequestSeek(e, frame).seek = IF e.audio = NoTrack THEN 0 ELSE frame
           /\ RequestSeek(e, frame).audio = e.audio
           /\ RequestSeek(e, frame).loop = e.loop
           /\ RequestSeek(e, frame).repeat = e.repeat
           /\ RequestSeek(e, frame).rate = e.rate
           /\ RequestSeek(e, frame).playing = e.playing
  BY DEF IsEngine, EngineField, RequestSeek

(* setLoop: nothing but the loop. *)
LEMMA SetLoopEffect ==
    ASSUME NEW e, IsEngine(e), NEW loop
    PROVE  /\ IsEngine(SetLoop(e, loop))
           /\ SetLoop(e, loop).loop =
                IF loop = NoLoop \/ e.audio = NoTrack THEN NoLoop
                ELSE Fitted(loop, e.audio)
           /\ SetLoop(e, loop).audio = e.audio
           /\ SetLoop(e, loop).seek = e.seek
           /\ SetLoop(e, loop).repeat = e.repeat
           /\ SetLoop(e, loop).rate = e.rate
           /\ SetLoop(e, loop).playing = e.playing
  BY DEF IsEngine, EngineField, SetLoop

(* The engine after a change, field by field. *)
LEMMA DrivenEffect ==
    ASSUME NEW e, IsEngine(e), NEW d
    PROVE  /\ IsEngine(Driven(e, d))
           /\ Driven(e, d).audio =
                IF "track" \in DOMAIN d THEN Resolve(d["track"]) ELSE e.audio
           /\ Driven(e, d).seek =
                IF "position" \in DOMAIN d
                THEN IF Driven(e, d).audio = NoTrack THEN 0 ELSE d["position"]
                ELSE IF "track" \in DOMAIN d THEN 0 ELSE e.seek
           /\ Driven(e, d).loop =
                IF "loop" \in DOMAIN d
                THEN IF d["loop"] = NoLoop \/ Driven(e, d).audio = NoTrack THEN NoLoop
                     ELSE Fitted(d["loop"], Driven(e, d).audio)
                ELSE IF "track" \in DOMAIN d THEN NoLoop ELSE e.loop
           /\ Driven(e, d).repeat =
                IF "repeat" \in DOMAIN d THEN d["repeat"] ELSE e.repeat
           /\ Driven(e, d).rate = IF "rate" \in DOMAIN d THEN d["rate"] ELSE e.rate
           /\ Driven(e, d).playing =
                IF "playing" \in DOMAIN d THEN d["playing"] ELSE e.playing
<1> DEFINE has(f)  == f \in DOMAIN d
           loaded  == IF has("track") THEN Load(e, Resolve(d["track"])) ELSE e
           sought  == IF has("position") THEN RequestSeek(loaded, d["position"])
                      ELSE loaded
           rated   == IF has("rate") THEN [sought EXCEPT !.rate = d["rate"]] ELSE sought
           looping == IF has("loop") THEN SetLoop(rated, d["loop"]) ELSE rated
           again   == IF has("repeat") THEN [looping EXCEPT !.repeat = d["repeat"]]
                      ELSE looping
           done    == IF has("playing") THEN [again EXCEPT !.playing = d["playing"]]
                      ELSE again
<1>1. /\ IsEngine(loaded)
      /\ loaded.audio = IF has("track") THEN Resolve(d["track"]) ELSE e.audio
      /\ loaded.seek = IF has("track") THEN 0 ELSE e.seek
      /\ loaded.loop = IF has("track") THEN NoLoop ELSE e.loop
      /\ loaded.repeat = e.repeat /\ loaded.rate = e.rate
      /\ loaded.playing = e.playing
  BY LoadEffect
<1> HIDE DEF loaded
<1>2. /\ IsEngine(sought)
      /\ sought.audio = loaded.audio
      /\ sought.seek = IF has("position")
                       THEN IF loaded.audio = NoTrack THEN 0 ELSE d["position"]
                       ELSE loaded.seek
      /\ sought.loop = loaded.loop
      /\ sought.repeat = loaded.repeat /\ sought.rate = loaded.rate
      /\ sought.playing = loaded.playing
  BY <1>1, SeekEffect
<1> HIDE DEF sought
<1>3. /\ IsEngine(rated)
      /\ rated.audio = sought.audio /\ rated.seek = sought.seek
      /\ rated.loop = sought.loop /\ rated.repeat = sought.repeat
      /\ rated.rate = IF has("rate") THEN d["rate"] ELSE sought.rate
      /\ rated.playing = sought.playing
  BY <1>2 DEF IsEngine, EngineField
<1> HIDE DEF rated
<1>4. /\ IsEngine(looping)
      /\ looping.loop = IF has("loop")
                        THEN IF d["loop"] = NoLoop \/ rated.audio = NoTrack
                             THEN NoLoop ELSE Fitted(d["loop"], rated.audio)
                        ELSE rated.loop
      /\ looping.audio = rated.audio /\ looping.seek = rated.seek
      /\ looping.repeat = rated.repeat /\ looping.rate = rated.rate
      /\ looping.playing = rated.playing
  BY <1>3, SetLoopEffect
<1> HIDE DEF looping
<1>5. /\ IsEngine(again)
      /\ again.audio = looping.audio /\ again.seek = looping.seek
      /\ again.loop = looping.loop /\ again.rate = looping.rate
      /\ again.repeat = IF has("repeat") THEN d["repeat"] ELSE looping.repeat
      /\ again.playing = looping.playing
  BY <1>4 DEF IsEngine, EngineField
<1> HIDE DEF again
<1>6. /\ IsEngine(done)
      /\ done.audio = again.audio /\ done.seek = again.seek
      /\ done.loop = again.loop /\ done.rate = again.rate
      /\ done.repeat = again.repeat
      /\ done.playing = IF has("playing") THEN d["playing"] ELSE again.playing
  BY <1>5 DEF IsEngine, EngineField
<1>7. Driven(e, d) = done
  BY DEF Driven, done, again, looping, rated, sought, loaded, has
<1> HIDE DEF done
<1> QED
  BY <1>1, <1>2, <1>3, <1>4, <1>5, <1>6, <1>7 DEF has

(* A block leaves alone what it only reads, and has taken the seek. *)
LEMMA BlockEffect ==
    ASSUME NEW e, IsEngine(e)
    PROVE  /\ IsEngine(BlockStarted(e))
           /\ BlockStarted(e).audio = e.audio
           /\ BlockStarted(e).loop = e.loop
           /\ BlockStarted(e).repeat = e.repeat
           /\ BlockStarted(e).rate = e.rate
           /\ BlockStarted(e).playing = e.playing
           /\ BlockStarted(e).seek = NoSeek
<1> DEFINE ready == SeekTaken(ResetTaken(e))
<1>1. /\ IsEngine(ready) /\ ready.audio = e.audio /\ ready.loop = e.loop
      /\ ready.repeat = e.repeat /\ ready.rate = e.rate
      /\ ready.playing = e.playing /\ ready.seek = NoSeek
  BY DEF IsEngine, EngineField, SeekTaken, ResetTaken
<1>2. BlockStarted(e) =
        IF ready.audio = NoTrack THEN [ready EXCEPT !.stopDue = TRUE]
        ELSE IF ready.playing THEN Rendered(ready) ELSE ready
  BY DEF BlockStarted
<1> HIDE DEF ready
<1> DEFINE start    == ready.position + ready.lagged
           dry      == RanDry(ready, start)
           armed    == IF ready.drain = 0 THEN Latency + 1 ELSE ready.drain
           left     == IF dry THEN armed - 1 ELSE 0
           produced == Least(ready.produced + 1, Latency)
           lagged   == produced * ready.rate
           head     == PullHead(ready, start)[ready.rate] - lagged
<1>3. Rendered(ready) = [ready EXCEPT !.position = head, !.lagged = lagged,
                                      !.produced = produced, !.drain = left,
                                      !.stopDue = dry /\ left = 0]
  BY DEF Rendered
<1> HIDE DEF head, lagged, produced, left, dry
<1>4. /\ IsEngine(Rendered(ready)) /\ Rendered(ready).audio = ready.audio
      /\ Rendered(ready).loop = ready.loop /\ Rendered(ready).repeat = ready.repeat
      /\ Rendered(ready).rate = ready.rate /\ Rendered(ready).playing = ready.playing
      /\ Rendered(ready).seek = ready.seek
  BY <1>1, <1>3 DEF IsEngine, EngineField
<1>5. CASE ready.audio = NoTrack
  BY <1>1, <1>2, <1>5 DEF IsEngine, EngineField
<1>6. CASE ready.audio # NoTrack /\ ready.playing
  BY <1>1, <1>2, <1>4, <1>6
<1>7. CASE ready.audio # NoTrack /\ ~ready.playing
  BY <1>1, <1>2, <1>7
<1> QED
  BY <1>5, <1>6, <1>7

-----------------------------------------------------------------------------
(* The changes.                                                            *)

(* ranges::clamp touches positions and loops only. *)
LEMMA ClampedFields ==
    ASSUME NEW d
    PROVE  /\ DOMAIN Clamped(d) = DOMAIN d
           /\ \A f \in DOMAIN d : f \notin {"position", "loop"} => Clamped(d)[f] = d[f]
  BY DEF Clamped

(* What every delta of a caller, and of the room, has in common. *)
Wellformed(d) ==
    /\ "track" \in DOMAIN d => "position" \in DOMAIN d
    /\ "playing" \in DOMAIN d => d["playing"] \in BOOLEAN

LEMMA ClampedWellformed ==
    ASSUME NEW d, Wellformed(d)
    PROVE  Wellformed(Clamped(d))
  BY ClampedFields DEF Wellformed

LEMMA InjectedWellformed ==
    ASSUME NEW d, Wellformed(d)
    PROVE  /\ Wellformed(Injected(d))
           /\ "track" \in DOMAIN Injected(d) <=> "track" \in DOMAIN d
           /\ "track" \in DOMAIN d => Injected(d)["track"] = d["track"]
  BY DEF Wellformed, Injected

(* The invariant that is inductive. *)
DeckInv ==
    /\ IsEngine(engine)
    /\ state["playing"] \in BOOLEAN
    /\ EngineFollowsState
    /\ PendingSeekIsAsked
    /\ TimersFollow

(* The stored fields after a change. *)
LEMMA MergedFields ==
    ASSUME NEW s, NEW d
    PROVE  \A f \in Field : Merged(s, d)[f] = IF f \in DOMAIN d THEN d[f] ELSE s[f]
  BY DEF Merged

LEMMA ChangedKeepsDeckInv ==
    ASSUME NEW d, Wellformed(d), DeckInv, Changed(d)
    PROVE  DeckInv'
<1>1. /\ IsEngine(engine') /\ engine' = Driven(engine, d)
      /\ state' = Merged(state, d)
  BY DrivenEffect DEF DeckInv, Changed
<1>2. \A f \in {"track", "playing", "position", "rate", "loop", "repeat"} :
        state'[f] = IF f \in DOMAIN d THEN d[f] ELSE state[f]
  BY <1>1, MergedFields DEF Field
<1>3. state'["playing"] \in BOOLEAN
  BY <1>2 DEF Wellformed, DeckInv
<1>4. engine'.audio = Resolve(state'.track)
  BY <1>1, <1>2, DrivenEffect DEF DeckInv, EngineFollowsState
<1>5. engine'.rate = state'.rate /\ engine'.repeat = state'.repeat
  BY <1>1, <1>2, DrivenEffect DEF DeckInv, EngineFollowsState
<1>6. engine'.playing => state'.playing
  <2>1. engine'.playing = IF "playing" \in DOMAIN d THEN d["playing"] ELSE engine.playing
    BY <1>1, DrivenEffect DEF DeckInv
  <2>2. state'.playing = IF "playing" \in DOMAIN d THEN d["playing"] ELSE state.playing
    BY <1>2
  <2>3. engine.playing => state.playing
    BY DEF DeckInv, EngineFollowsState
  <2> QED
    BY <2>1, <2>2, <2>3
<1>7. engine'.loop # NoLoop =>
        /\ engine'.audio # NoTrack /\ state'.loop # NoLoop
        /\ engine'.loop = Fitted(state'.loop, engine'.audio)
  BY <1>1, <1>2, DrivenEffect DEF DeckInv, EngineFollowsState
<1>8. /\ beats'.track = engine'.audio
      /\ beats'.grid = IF engine'.audio = NoTrack THEN NoGrid ELSE Grid[engine'.audio]
  <2>1. beats' = IF "track" \in DOMAIN d THEN Analyzed(beats, d["track"]) ELSE beats
    BY DEF Changed
  <2>2. engine'.audio = IF "track" \in DOMAIN d THEN Resolve(d["track"]) ELSE engine.audio
    BY <1>1, DrivenEffect DEF DeckInv
  <2> QED
    BY <2>1, <2>2 DEF Analyzed, Resolve, DeckInv, EngineFollowsState
<1>9. PendingSeekIsAsked'
  BY <1>1, <1>2, DrivenEffect DEF PendingSeekIsAsked, DeckInv, Wellformed
<1>10. TimersFollow'
  <2>1. polling' = IF "playing" \in DOMAIN d THEN d["playing"] ELSE polling
    BY DEF Changed
  <2>2. state'.playing = IF "playing" \in DOMAIN d THEN d["playing"] ELSE state.playing
    BY <1>2
  <2>3. clockRunning' = IF "playing" \in DOMAIN d
                        THEN standing = "controller" /\ d["playing"] ELSE clockRunning
    BY DEF Changed
  <2>4. standing' = standing
    BY DEF Changed
  <2> QED
    BY <2>1, <2>2, <2>3, <2>4 DEF TimersFollow, DeckInv
<1> QED
  BY <1>1, <1>3, <1>4, <1>5, <1>6, <1>7, <1>8, <1>9, <1>10
  DEF DeckInv, EngineFollowsState

(* A change made on this client. *)
LEMMA LocalKeepsDeckInv ==
    ASSUME NEW d, Wellformed(d), DeckInv, LocalDelta(d)
    PROVE  DeckInv' /\ ("track" \notin DOMAIN d => state'.track = state.track)
<1> DEFINE c == Injected(Clamped(d))
<1>1. Wellformed(c) /\ ("track" \in DOMAIN c <=> "track" \in DOMAIN d)
  BY ClampedWellformed, InjectedWellformed, ClampedFields
<1>2. Changed(c)
  BY DEF LocalDelta
<1> HIDE DEF c
<1>3. "track" \notin DOMAIN d => state'.track = state.track
  BY <1>1, <1>2, MergedFields DEF Changed, Field
<1> QED
  BY <1>1, <1>2, <1>3, ChangedKeepsDeckInv

-----------------------------------------------------------------------------
LEMMA DeckInit ==
    ASSUME Init
    PROVE  DeckInv /\ GestureOfThisTrack
<1>1. IsEngine(SilentEngine)
  BY DEF SilentEngine, IsEngine, EngineField
<1>2. /\ engine = SilentEngine /\ beats = [grid |-> NoGrid, track |-> NoTrack]
      /\ state = [track |-> NoTrack, playing |-> FALSE, position |-> 0,
                  rate |-> UnityRate, loop |-> NoLoop, repeat |-> TRUE]
      /\ polling = FALSE /\ clockRunning = FALSE /\ standing = "free"
      /\ gesture = NoGesture
  BY DEF Init
<1>3. EngineFollowsState
  BY <1>2 DEF SilentEngine, EngineFollowsState, Resolve
<1>4. PendingSeekIsAsked /\ TimersFollow /\ GestureOfThisTrack
  BY <1>2 DEF SilentEngine, PendingSeekIsAsked, TimersFollow, GestureOfThisTrack
<1> QED
  BY <1>1, <1>2, <1>3, <1>4 DEF DeckInv

(* The user's actions change no track, but for a load, which ends the      *)
(* gesture.                                                                *)
LEMMA ControlsKeepDeckInv ==
    ASSUME DeckInv, GestureOfThisTrack,
           \/ TogglePlay \/ ToggleRepeat \/ CancelLoopIn \/ LoopClear
           \/ \E p \in Places : DragPosition(p) \/ LoopIn(p) \/ LoopOut(p)
           \/ \E r \in Rate : MoveRate(r)
           \/ \E other \in OtherDecks : SyncClicked(other)
           \/ \E t \in Track : LoadTrack(t)
    PROVE  DeckInv' /\ GestureOfThisTrack'
<1>1. ASSUME NEW d, Wellformed(d), "track" \notin DOMAIN d, LocalDelta(d),
             \/ gesture' = gesture
             \/ gesture' = NoGesture
             \/ gesture'.track = state.track
      PROVE  DeckInv' /\ GestureOfThisTrack'
  BY <1>1, LocalKeepsDeckInv DEF GestureOfThisTrack
<1>2. ASSUME UNCHANGED <<state, standing, engine, beats, polling, clockRunning>>,
             gesture' = NoGesture \/ gesture'.track = state.track
      PROVE  DeckInv' /\ GestureOfThisTrack'
  BY <1>2 DEF DeckInv, EngineFollowsState, PendingSeekIsAsked, TimersFollow,
              GestureOfThisTrack
<1>3. CASE TogglePlay
  <2>1. CASE state.playing
    BY <1>1, <1>3, <2>1 DEF TogglePlay, Wellformed
  <2>2. CASE ~state.playing
    BY <1>1, <1>3, <2>2 DEF TogglePlay, Wellformed
  <2> QED
    BY <2>1, <2>2
<1>4. CASE ToggleRepeat
  BY <1>1, <1>4 DEF ToggleRepeat, Wellformed
<1>5. CASE CancelLoopIn
  BY <1>1, <1>2, <1>5 DEF CancelLoopIn, Wellformed
<1>6. CASE LoopClear
  BY <1>1, <1>6 DEF LoopClear, Wellformed
<1>7. ASSUME NEW p \in Places, DragPosition(p)
      PROVE  DeckInv' /\ GestureOfThisTrack'
  BY <1>1, <1>7 DEF DragPosition, Wellformed
<1>8. ASSUME NEW p \in Places, LoopIn(p)
      PROVE  DeckInv' /\ GestureOfThisTrack'
  BY <1>1, <1>2, <1>8 DEF LoopIn, Wellformed
<1>9. ASSUME NEW p \in Places, LoopOut(p)
      PROVE  DeckInv' /\ GestureOfThisTrack'
  <2>1. CASE p > gesture.at
    BY <1>1, <1>9, <2>1 DEF LoopOut, Wellformed
  <2>2. CASE ~(p > gesture.at)
    BY <1>5, <1>9, <2>2 DEF LoopOut
  <2> QED
    BY <2>1, <2>2
<1>10. ASSUME NEW r \in Rate, MoveRate(r)
       PROVE  DeckInv' /\ GestureOfThisTrack'
  BY <1>1, <1>10 DEF MoveRate, Wellformed
<1>11. ASSUME NEW other \in OtherDecks, SyncClicked(other)
       PROVE  DeckInv' /\ GestureOfThisTrack'
  BY <1>1, <1>11 DEF SyncClicked, Wellformed
<1>12. ASSUME NEW t \in Track, LoadTrack(t)
       PROVE  DeckInv' /\ GestureOfThisTrack'
  <2> DEFINE d == [track |-> t, playing |-> FALSE, position |-> 0]
  <2>1. Wellformed(d) /\ LocalDelta(d) /\ gesture' = NoGesture
    BY <1>12 DEF LoadTrack, GestureAfter, Wellformed
  <2> QED
    BY <2>1, LocalKeepsDeckInv DEF GestureOfThisTrack
<1> QED
  BY <1>3, <1>4, <1>5, <1>6, <1>7, <1>8, <1>9, <1>10, <1>11, <1>12

LEMMA DeckNext ==
    ASSUME DeckInv, GestureOfThisTrack, [Next]_vars
    PROVE  DeckInv' /\ GestureOfThisTrack'
<1>1. ASSUME NEW d \in Incoming, RemoteDelta(d)
      PROVE  DeckInv' /\ GestureOfThisTrack'
  <2>1. Wellformed(Clamped(d)) /\ DOMAIN Clamped(d) = DOMAIN d
    BY DeckAssumption, ClampedWellformed, ClampedFields DEF Wellformed
  <2>2. Changed(Clamped(d)) /\ gesture' = GestureAfter(gesture, d)
    BY <1>1 DEF RemoteDelta
  <2>3. "track" \notin DOMAIN d => state'.track = state.track
    BY <2>1, <2>2, MergedFields DEF Changed, Field
  <2> QED
    BY <2>1, <2>2, <2>3, ChangedKeepsDeckInv DEF GestureAfter, GestureOfThisTrack
<1>2. ASSUME NEW r \in {"free", "controller", "observer"}, RoleChange(r)
      PROVE  DeckInv' /\ GestureOfThisTrack'
  BY <1>2 DEF RoleChange, ClockFor, DeckInv, EngineFollowsState, PendingSeekIsAsked,
              TimersFollow, GestureOfThisTrack
<1>3. CASE PollTimer
  <2> DEFINE d == [playing |-> FALSE]
  <2>1. LocalDelta(d) /\ gesture' = gesture
    BY <1>3 DEF PollTimer
  <2>2. Wellformed(d) /\ "track" \notin DOMAIN d
    BY DEF Wellformed
  <2> HIDE DEF d
  <2> QED
    BY <2>1, <2>2, LocalKeepsDeckInv DEF GestureOfThisTrack
<1>4. CASE ClockTimer
  <2> DEFINE d == [position |-> ReportedPosition(engine)]
  <2>1. LocalDelta(d) /\ gesture' = gesture
    BY <1>4 DEF ClockTimer
  <2>2. Wellformed(d) /\ "track" \notin DOMAIN d
    BY DEF Wellformed
  <2> HIDE DEF d
  <2> QED
    BY <2>1, <2>2, LocalKeepsDeckInv DEF GestureOfThisTrack
<1>5. CASE BeginBlock
  <2>1. /\ engine' = BlockStarted(engine)
        /\ UNCHANGED <<state, standing, beats, polling, clockRunning, gesture>>
    BY <1>5 DEF BeginBlock
  <2> QED
    BY <2>1, BlockEffect DEF DeckInv, EngineFollowsState, PendingSeekIsAsked,
                             TimersFollow, GestureOfThisTrack
<1>6. CASE EndBlock
  <2>1. /\ engine' = [engine EXCEPT !.playing = FALSE, !.stopDue = FALSE]
        /\ UNCHANGED <<state, standing, beats, polling, clockRunning, gesture>>
    BY <1>6 DEF EndBlock, BlockFinished
  <2>2. /\ IsEngine(engine') /\ engine'.audio = engine.audio
        /\ engine'.seek = engine.seek /\ engine'.loop = engine.loop
        /\ engine'.repeat = engine.repeat /\ engine'.rate = engine.rate
        /\ engine'.playing = FALSE
    BY <2>1 DEF DeckInv, IsEngine, EngineField
  <2> QED
    BY <2>1, <2>2 DEF DeckInv, EngineFollowsState, PendingSeekIsAsked, TimersFollow,
                      GestureOfThisTrack
<1>7. CASE UNCHANGED vars
  BY <1>7 DEF vars, DeckInv, EngineFollowsState, PendingSeekIsAsked, TimersFollow,
              GestureOfThisTrack
<1> QED
  BY <1>1, <1>2, <1>3, <1>4, <1>5, <1>6, <1>7, ControlsKeepDeckInv DEF Next

THEOREM DeckInvariant == Spec => [](DeckInv /\ GestureOfThisTrack)
<1>1. Init => DeckInv /\ GestureOfThisTrack
  BY DeckInit
<1>2. DeckInv /\ GestureOfThisTrack /\ [Next]_vars => (DeckInv /\ GestureOfThisTrack)'
  BY DeckNext
<1> QED
  BY <1>1, <1>2, PTL DEF Spec

(* Whatever the order of loads, seeks, loops, snapshots, blocks and role   *)
(* changes: the engine plays what the state says, or less; the two timers  *)
(* run exactly while they have something to look at; and a loop-in point   *)
(* is never carried to another track.                                      *)
THEOREM ListenersAgree == Spec => []ListenersFollow
<1>1. DeckInv /\ GestureOfThisTrack => ListenersFollow
  BY DEF DeckInv, ListenersFollow
<1> QED
  BY <1>1, DeckInvariant, PTL

(* A seek that no block has taken yet is to the stored position.           *)
THEOREM SeekIsAsked == Spec => []PendingSeekIsAsked
<1>1. DeckInv => PendingSeekIsAsked
  BY DEF DeckInv
<1> QED
  BY <1>1, DeckInvariant, PTL

-----------------------------------------------------------------------------
(* The pull head.                                                          *)

(* Wrapping leaves a position alone, or puts it into the range.            *)
LEMMA WrapWithinIs ==
    ASSUME NEW p \in Int, NEW from \in Int, NEW to \in Int
    PROVE  /\ WrapWithin(p, from, to) \in Int
           /\ from < to /\ p >= to =>
                from <= WrapWithin(p, from, to) /\ WrapWithin(p, from, to) < to
           /\ ~(from < to /\ p >= to) => WrapWithin(p, from, to) = p
<1>1. CASE from < to /\ p >= to
  <2>1. to - from \in Nat \ {0} /\ p - from \in Int
    BY <1>1
  <2>2. PICK r \in Int : r = (p - from) % (to - from) /\ 0 <= r /\ r < to - from
    BY <2>1
  <2>3. WrapWithin(p, from, to) = from + r
    BY <1>1, <2>2 DEF WrapWithin
  <2> QED
    BY <1>1, <2>2, <2>3
<1>2. CASE ~(from < to /\ p >= to)
  BY <1>2 DEF WrapWithin
<1> QED
  BY <1>1, <1>2

LEMMA WrapWithinKeeps ==
    ASSUME NEW p \in Nat, NEW from \in Nat, NEW to \in Nat
    PROVE  WrapWithin(p, from, to) \in Nat
<1>1. p \in Int /\ from \in Int /\ to \in Int
  OBVIOUS
<1>2. PICK w \in Int : w = WrapWithin(p, from, to)
  BY <1>1, WrapWithinIs
<1>3. from < to /\ p >= to => from <= w
  BY <1>1, <1>2, WrapWithinIs
<1>4. ~(from < to /\ p >= to) => w = p
  BY <1>1, <1>2, WrapWithinIs
<1> QED
  BY <1>2, <1>3, <1>4

LEMMA PlayableFrames ==
    ASSUME NEW audio \in Playable
    PROVE  /\ Frames[audio] \in Nat /\ Frames[audio] > 0
           /\ LastRenderable(audio) \in Nat /\ LastRenderable(audio) = Frames[audio] - 1
  BY EngineAssumption DEF Playable, LastRenderable

(* One turn of the pull loop.                                              *)
Pulled(e, p) ==
    IF InTrack(e, Wrapped(e, p)) THEN Wrapped(e, p) + 1 ELSE Wrapped(e, p)

(* The two wraps together, on an engine that has a track. *)
LEMMA WrappedIs ==
    ASSUME NEW e, e.audio \in Playable, e.loop \in Loop \cup {NoLoop}, NEW p \in Int
    PROVE  /\ Wrapped(e, p) \in Int
           /\ p >= 0 => Wrapped(e, p) >= 0
<1> DEFINE last   == LastRenderable(e.audio)
           inLoop == IF e.loop = NoLoop THEN p ELSE WrapWithin(p, e.loop.in, e.loop.out)
<1>1. last \in Nat
  BY PlayableFrames
<1>2. inLoop \in Int /\ (p >= 0 => inLoop >= 0)
  <2>1. CASE e.loop = NoLoop
    BY <2>1
  <2>2. CASE e.loop # NoLoop
    <3>1. e.loop \in Loop
      BY <2>2
    <3>2. PICK from \in Nat, to \in Nat : from = e.loop.in /\ to = e.loop.out
      BY <3>1 DEF Loop
    <3>3. inLoop = WrapWithin(p, from, to)
      BY <2>2, <3>2
    <3>4. inLoop \in Int
      BY <3>3, WrapWithinIs
    <3>5. ASSUME p >= 0 PROVE inLoop >= 0
      <4>1. p \in Nat
        BY <3>5
      <4>2. inLoop \in Nat
        BY <3>3, <4>1, WrapWithinKeeps
      <4> QED
        BY <4>2
    <3> QED
      BY <3>4, <3>5
  <2> QED
    BY <2>1, <2>2
<1>3. Wrapped(e, p) = IF e.repeat /\ inLoop >= last THEN WrapWithin(inLoop, 0, last) ELSE inLoop
  BY DEF Wrapped
<1> HIDE DEF last, inLoop
<1>4. WrapWithin(inLoop, 0, last) \in Int /\ (inLoop >= 0 => WrapWithin(inLoop, 0, last) >= 0)
  <2>1. last \in Int /\ 0 \in Int /\ 0 \in Nat
    BY <1>1
  <2>2. WrapWithin(inLoop, 0, last) \in Int
    BY <1>2, <2>1, WrapWithinIs
  <2>3. ASSUME inLoop >= 0 PROVE WrapWithin(inLoop, 0, last) \in Nat
    <3>1. inLoop \in Nat
      BY <1>2, <2>3
    <3> QED
      BY <1>1, <2>1, <3>1, WrapWithinKeeps
  <2> QED
    BY <2>2, <2>3
<1> QED
  BY <1>2, <1>3, <1>4

LEMMA PulledIs ==
    ASSUME NEW e, e.audio \in Playable, e.loop \in Loop \cup {NoLoop}
    PROVE  /\ \A p \in Int : Pulled(e, p) \in Int
           /\ \A p \in Nat : Pulled(e, p) \in Nat
<1>1. ASSUME NEW p \in Int
      PROVE  Pulled(e, p) \in Int /\ (p >= 0 => Pulled(e, p) >= 0)
  <2>1. PICK w \in Int : w = Wrapped(e, p) /\ (p >= 0 => w >= 0)
    BY WrappedIs
  <2>2. Pulled(e, p) = w + 1 \/ Pulled(e, p) = w
    BY <2>1 DEF Pulled
  <2> QED
    BY <2>1, <2>2
<1> QED
  BY <1>1

(* The pull head, turn by turn, in any set that a turn does not leave.     *)
LEMMA PullHeadIs ==
    ASSUME NEW e, NEW V, NEW start \in V, \A p \in V : Pulled(e, p) \in V
    PROVE  \A n \in Nat : PullHead(e, start)[n] \in V
<1> DEFINE Is(f) == f = [n \in Nat |-> IF n = 0 THEN start
                                       ELSE LET p == Wrapped(e, f[n - 1])
                                            IN  IF InTrack(e, p) THEN p + 1 ELSE p]
           step  == [x \in (Nat \ {0}) \X V |-> Pulled(e, x[2])]
           head  == CHOOSE f : Is(f)
<1>1. step \in [(Nat \ {0}) \X V -> V]
  OBVIOUS
<1>2. PICK f \in [Nat -> V] : FollowsOn(f, start, step)
  <2> HIDE DEF step
  <2> QED
    BY <1>1, RecursionOverNat
<1>3. ASSUME NEW i \in Nat \ {0} PROVE f[i] = Pulled(e, f[i - 1])
  <2>1. f[i] = step[<<i, f[i - 1]>>]
    BY <1>2 DEF FollowsOn
  <2>2. i - 1 \in Nat
    OBVIOUS
  <2>3. <<i, f[i - 1]>> \in (Nat \ {0}) \X V
    BY <1>2, <2>2
  <2> QED
    BY <2>1, <2>3
<1>4. Is(f)
  BY <1>2, <1>3 DEF Pulled, FollowsOn
<1>5. Is(head)
  BY <1>4
<1>6. PullHead(e, start) = head
  BY DEF PullHead
<1> HIDE DEF head
<1>7. head[0] = start /\ \A i \in Nat \ {0} : head[i] = Pulled(e, head[i - 1])
  BY <1>5 DEF Pulled
<1> DEFINE S == {n \in Nat : head[n] \in V}
<1>8. 0 \in S
  BY <1>7
<1>9. ASSUME NEW n \in Nat, n \in S PROVE n + 1 \in S
  <2>1. n + 1 \in Nat \ {0} /\ (n + 1) - 1 = n /\ head[n] \in V
    BY <1>9
  <2>2. head[n + 1] = Pulled(e, head[n])
    BY <1>7, <2>1
  <2> QED
    BY <2>1, <2>2
<1> HIDE DEF S
<1>10. Nat \subseteq S
  BY <1>8, <1>9, InductionOverNat
<1> QED
  BY <1>6, <1>10 DEF S

-----------------------------------------------------------------------------
(* The engine's types, call by call, and what its pull head needs.         *)

(* A reset always comes with a seek, the raw pull head is never before the *)
(* track, and what was subtracted from it is no more than the latency.     *)
HeadOK(e) ==
    /\ e.resetDue => e.seek # NoSeek
    /\ e.position + e.lagged >= 0
    /\ e.lagged <= Latency * MaxRate

EngineOK(e) == e \in EngineState /\ HeadOK(e)

(* Field by field. *)
FieldsOK(e) ==
    /\ e.audio \in Playable \cup {NoTrack} /\ e.playing \in BOOLEAN
    /\ e.position \in Int /\ e.seek \in Nat \cup {NoSeek}
    /\ e.resetDue \in BOOLEAN /\ e.loop \in Loop \cup {NoLoop}
    /\ e.repeat \in BOOLEAN /\ e.rate \in Rate /\ e.lagged \in Nat
    /\ e.produced \in Nat /\ e.drain \in Nat /\ e.stopDue \in BOOLEAN

LEMMA EngineFields ==
    ASSUME NEW e
    PROVE  e \in EngineState <=> IsEngine(e) /\ FieldsOK(e)
<1>1. ASSUME e \in EngineState PROVE IsEngine(e) /\ FieldsOK(e)
  BY <1>1 DEF EngineState, IsEngine, EngineField, FieldsOK
<1>2. ASSUME IsEngine(e), FieldsOK(e) PROVE e \in EngineState
  BY <1>2 DEF EngineState, IsEngine, EngineField, FieldsOK
<1> QED
  BY <1>1, <1>2

LEMMA EngineOKIs ==
    ASSUME NEW e
    PROVE  EngineOK(e) <=> IsEngine(e) /\ FieldsOK(e) /\ HeadOK(e)
  BY EngineFields DEF EngineOK

LEMMA LoadOK ==
    ASSUME NEW e, EngineOK(e), NEW audio \in Playable \cup {NoTrack}
    PROVE  EngineOK(Load(e, audio))
<1>1. IsEngine(e) /\ FieldsOK(e) /\ HeadOK(e)
  BY EngineOKIs
<1> DEFINE l == Load(e, audio)
<1>2. /\ IsEngine(l) /\ l.audio = audio /\ l.seek = 0 /\ l.loop = NoLoop
      /\ l.repeat = e.repeat /\ l.rate = e.rate /\ l.playing = e.playing
  BY <1>1, LoadEffect
<1>3. /\ l.position = e.position /\ l.resetDue = TRUE /\ l.lagged = e.lagged
      /\ l.produced = e.produced /\ l.drain = e.drain /\ l.stopDue = e.stopDue
  BY <1>1 DEF Load, IsEngine, EngineField
<1> HIDE DEF l
<1>4. FieldsOK(l)
  <2>1. l.audio \in Playable \cup {NoTrack} /\ l.loop \in Loop \cup {NoLoop}
    BY <1>2
  <2>4. l.seek \in Nat \cup {NoSeek}
    BY <1>2
  <2>5. l.resetDue \in BOOLEAN
    BY <1>3
  <2>2. /\ l.playing \in BOOLEAN /\ l.repeat \in BOOLEAN /\ l.rate \in Rate
        /\ l.stopDue \in BOOLEAN
    BY <1>1, <1>2, <1>3 DEF FieldsOK
  <2>3. l.position \in Int /\ l.lagged \in Nat /\ l.produced \in Nat /\ l.drain \in Nat
    BY <1>1, <1>2, <1>3 DEF FieldsOK
  <2> QED
    BY <2>1, <2>2, <2>3, <2>4, <2>5 DEF FieldsOK
<1>5. HeadOK(l)
  <2>1. l.seek # NoSeek
    BY <1>2 DEF NoSeek
  <2> QED
    BY <1>1, <1>3, <2>1 DEF HeadOK
<1>6. EngineOK(l)
  BY <1>2, <1>4, <1>5, EngineOKIs
<1> QED
  BY <1>6 DEF l

LEMMA SeekOK ==
    ASSUME NEW e, EngineOK(e), NEW frame \in Nat
    PROVE  /\ EngineOK(RequestSeek(e, frame))
           /\ RequestSeek(e, frame).position = e.position
           /\ RequestSeek(e, frame).lagged = e.lagged
<1>1. IsEngine(e) /\ FieldsOK(e) /\ HeadOK(e)
  BY EngineOKIs
<1> DEFINE l == RequestSeek(e, frame)
<1>2. /\ IsEngine(l) /\ l.seek = (IF e.audio = NoTrack THEN 0 ELSE frame)
      /\ l.audio = e.audio /\ l.loop = e.loop /\ l.repeat = e.repeat
      /\ l.rate = e.rate /\ l.playing = e.playing
  BY <1>1, SeekEffect
<1>3. /\ l.position = e.position /\ l.lagged = e.lagged
      /\ l.produced = e.produced /\ l.drain = e.drain /\ l.stopDue = e.stopDue
  BY <1>1 DEF RequestSeek, IsEngine, EngineField
<1>4. l.resetDue \in BOOLEAN
  <2> DEFINE distance == Most((IF e.audio = NoTrack THEN 0 ELSE frame) - e.position,
                              e.position - (IF e.audio = NoTrack THEN 0 ELSE frame))
             far      == IF e.audio = NoTrack THEN 0 ELSE Discontinuity
  <2>1. l.resetDue = (e.resetDue \/ distance > far)
    BY <1>1 DEF RequestSeek, IsEngine, EngineField
  <2> HIDE DEF distance, far
  <2> QED
    BY <2>1
<1> HIDE DEF l
<1>5. FieldsOK(l)
  BY <1>1, <1>2, <1>3, <1>4 DEF FieldsOK
<1>6. l.seek \in Nat
  BY <1>2
<1>7. HeadOK(l)
  BY <1>1, <1>3, <1>6 DEF HeadOK, NoSeek
<1>8. EngineOK(l)
  BY <1>2, <1>5, <1>7, EngineOKIs
<1> QED
  BY <1>3, <1>8 DEF l

LEMMA FittedTyped ==
    ASSUME NEW loop \in Loop, NEW audio \in Playable
    PROVE  /\ Fitted(loop, audio) \in Loop
           /\ Fitted(loop, audio).out <= LastRenderable(audio)
<1>1. PICK from \in Nat, to \in Nat, last \in Nat :
        from = loop.in /\ to = loop.out /\ last = LastRenderable(audio)
  BY PlayableFrames DEF Loop
<1>2. Least(from, last) \in Nat /\ Least(to, last) \in Nat /\ Least(to, last) <= last
  BY DEF Least
<1>3. Fitted(loop, audio) = [in |-> Least(from, last), out |-> Least(to, last)]
  BY <1>1 DEF Fitted
<1> QED
  BY <1>1, <1>2, <1>3 DEF Loop

LEMMA SetLoopOK ==
    ASSUME NEW e, EngineOK(e), NEW loop \in Loop \cup {NoLoop}
    PROVE  EngineOK(SetLoop(e, loop))
<1>1. IsEngine(e) /\ FieldsOK(e) /\ HeadOK(e)
  BY EngineOKIs
<1> DEFINE l == SetLoop(e, loop)
<1>2. /\ IsEngine(l)
      /\ l.loop = (IF loop = NoLoop \/ e.audio = NoTrack THEN NoLoop
                   ELSE Fitted(loop, e.audio))
      /\ l.audio = e.audio /\ l.seek = e.seek /\ l.repeat = e.repeat
      /\ l.rate = e.rate /\ l.playing = e.playing
  BY <1>1, SetLoopEffect
<1>3. /\ l.position = e.position /\ l.lagged = e.lagged /\ l.resetDue = e.resetDue
      /\ l.produced = e.produced /\ l.drain = e.drain /\ l.stopDue = e.stopDue
  BY <1>1 DEF SetLoop, IsEngine, EngineField
<1> HIDE DEF l
<1>4. l.loop \in Loop \cup {NoLoop}
  BY <1>1, <1>2, FittedTyped DEF FieldsOK
<1>5. FieldsOK(l)
  BY <1>1, <1>2, <1>3, <1>4 DEF FieldsOK
<1>6. HeadOK(l)
  BY <1>1, <1>2, <1>3 DEF HeadOK
<1>7. EngineOK(l)
  BY <1>2, <1>5, <1>6, EngineOKIs
<1> QED
  BY <1>7 DEF l

(* The plain stores: rate, repeat, play flag, and the end of a block. *)
LEMMA StoresOK ==
    ASSUME NEW e, EngineOK(e), NEW rate \in Rate, NEW flag \in BOOLEAN
    PROVE  /\ EngineOK([e EXCEPT !.rate = rate])
           /\ EngineOK([e EXCEPT !.repeat = flag])
           /\ EngineOK([e EXCEPT !.playing = flag])
           /\ EngineOK([e EXCEPT !.stopDue = flag])
<1>1. e \in EngineState /\ HeadOK(e)
  BY DEF EngineOK
<1>2. /\ [e EXCEPT !.rate = rate] \in EngineState
      /\ [e EXCEPT !.repeat = flag] \in EngineState
      /\ [e EXCEPT !.playing = flag] \in EngineState
      /\ [e EXCEPT !.stopDue = flag] \in EngineState
  BY <1>1 DEF EngineState
<1>3. /\ HeadOK([e EXCEPT !.rate = rate]) /\ HeadOK([e EXCEPT !.repeat = flag])
      /\ HeadOK([e EXCEPT !.playing = flag]) /\ HeadOK([e EXCEPT !.stopDue = flag])
  BY <1>1 DEF EngineState, HeadOK
<1> QED
  BY <1>2, <1>3 DEF EngineOK

-----------------------------------------------------------------------------
(* The types of a change.                                                  *)

StoredLoop == [in : 0 .. MaxPosition, out : 0 .. MaxPosition]

(* What a caller, or the room, may hand over. *)
Typed(d) ==
    /\ DOMAIN d \subseteq Field
    /\ "track" \in DOMAIN d => d["track"] \in Track \cup {NoTrack}
    /\ "playing" \in DOMAIN d => d["playing"] \in BOOLEAN
    /\ "position" \in DOMAIN d => d["position"] \in Int
    /\ "rate" \in DOMAIN d => d["rate"] \in Rate
    /\ "loop" \in DOMAIN d => d["loop"] \in Loop \cup {NoLoop}
    /\ "repeat" \in DOMAIN d => d["repeat"] \in BOOLEAN

(* What is stored and driven: in range. *)
Ranged(d) ==
    /\ Typed(d)
    /\ "position" \in DOMAIN d => d["position"] \in 0 .. MaxPosition
    /\ "loop" \in DOMAIN d => d["loop"] \in StoredLoop \cup {NoLoop}

LEMMA WithinIs ==
    ASSUME NEW low \in Int, NEW high \in Int, low <= high, NEW x \in Int
    PROVE  /\ Within(low, high, x) \in low .. high
           /\ low <= x => Within(low, high, x) <= x
           /\ x <= low => Within(low, high, x) = low
  BY DEF Within

LEMMA StoredLoopIsLoop == StoredLoop \subseteq Loop
<1>1. 0 .. MaxPosition \subseteq Nat
  BY RangeAssumption
<1> QED
  BY <1>1 DEF StoredLoop, Loop

LEMMA ClampedLoopIs ==
    ASSUME NEW l \in Loop
    PROVE  ClampedLoop(l) \in StoredLoop \cup {NoLoop}
<1>1. l.in \in Int /\ l.out \in Int
  BY DEF Loop
<1>2. /\ Within(0, MaxPosition, l.in) \in 0 .. MaxPosition
      /\ Within(0, MaxPosition, l.out) \in 0 .. MaxPosition
  <2>1. 0 \in Int /\ MaxPosition \in Int /\ 0 <= MaxPosition
    BY RangeAssumption
  <2> QED
    BY <1>1, <2>1, WithinIs
<1> QED
  BY <1>2 DEF ClampedLoop, StoredLoop

LEMMA ClampedRanged ==
    ASSUME NEW d, Typed(d)
    PROVE  Ranged(Clamped(d))
<1>1. /\ DOMAIN Clamped(d) = DOMAIN d
      /\ \A f \in DOMAIN d : f \notin {"position", "loop"} => Clamped(d)[f] = d[f]
  BY ClampedFields
<1>2. ASSUME "position" \in DOMAIN d
      PROVE  Clamped(d)["position"] \in 0 .. MaxPosition
  <2>1. Clamped(d)["position"] = Within(0, MaxPosition, d["position"])
    BY <1>2 DEF Clamped
  <2> QED
    BY <1>2, <2>1, RangeAssumption, WithinIs DEF Typed
<1>3. ASSUME "loop" \in DOMAIN d
      PROVE  Clamped(d)["loop"] \in StoredLoop \cup {NoLoop}
  <2>1. Clamped(d)["loop"] = IF d["loop"] # NoLoop THEN ClampedLoop(d["loop"]) ELSE d["loop"]
    BY <1>3 DEF Clamped
  <2>2. d["loop"] \in Loop \cup {NoLoop}
    BY <1>3 DEF Typed
  <2> QED
    BY <2>1, <2>2, ClampedLoopIs
<1> HIDE DEF Clamped
<1>4. 0 .. MaxPosition \subseteq Int
  OBVIOUS
<1>5. Typed(Clamped(d))
  BY <1>1, <1>2, <1>3, <1>4, StoredLoopIsLoop DEF Typed
<1> QED
  BY <1>1, <1>2, <1>3, <1>5 DEF Ranged

(* The position that comes with play is the stored one. *)
LEMMA InjectedRanged ==
    ASSUME NEW d, Ranged(d), state["position"] \in 0 .. MaxPosition
    PROVE  Ranged(Injected(d))
<1> DEFINE i == Injected(d)
<1>1. CASE i = d
  BY <1>1
<1>2. CASE i # d
  <2>1. /\ DOMAIN i = DOMAIN d \cup {"position"} /\ "position" \notin DOMAIN d
        /\ i["position"] = state["position"]
        /\ \A f \in DOMAIN d : i[f] = d[f]
    BY <1>2 DEF Injected
  <2> HIDE DEF i
  <2>2. 0 .. MaxPosition \subseteq Int /\ "position" \in Field
    BY DEF Field
  <2>3. Typed(i)
    BY <2>1, <2>2 DEF Typed, Ranged
  <2>4. Ranged(i)
    BY <2>1, <2>3 DEF Ranged
  <2> QED
    BY <2>4 DEF i
<1> QED
  BY <1>1, <1>2

(* The engine after a change. *)
LEMMA ResolveTyped ==
    ASSUME NEW t
    PROVE  Resolve(t) \in Playable \cup {NoTrack}
  BY DEF Resolve

LEMMA DrivenOK ==
    ASSUME NEW e, EngineOK(e), NEW d, Ranged(d)
    PROVE  EngineOK(Driven(e, d))
<1> DEFINE has(f)  == f \in DOMAIN d
           loaded  == IF has("track") THEN Load(e, Resolve(d["track"])) ELSE e
           sought  == IF has("position") THEN RequestSeek(loaded, d["position"])
                      ELSE loaded
           rated   == IF has("rate") THEN [sought EXCEPT !.rate = d["rate"]] ELSE sought
           looping == IF has("loop") THEN SetLoop(rated, d["loop"]) ELSE rated
           again   == IF has("repeat") THEN [looping EXCEPT !.repeat = d["repeat"]]
                      ELSE looping
           done    == IF has("playing") THEN [again EXCEPT !.playing = d["playing"]]
                      ELSE again
<1>1. EngineOK(loaded)
  BY LoadOK, ResolveTyped
<1> HIDE DEF loaded
<1>2. EngineOK(sought)
  <2>1. has("position") => d["position"] \in Nat
    BY RangeAssumption DEF Ranged
  <2> QED
    BY <1>1, <2>1, SeekOK
<1> HIDE DEF sought
<1>3. EngineOK(rated)
  <2>1. has("rate") => d["rate"] \in Rate
    BY DEF Ranged, Typed
  <2> QED
    BY <1>2, <2>1, StoresOK
<1> HIDE DEF rated
<1>4. EngineOK(looping)
  <2>1. has("loop") => d["loop"] \in Loop \cup {NoLoop}
    BY DEF Ranged, Typed
  <2> QED
    BY <1>3, <2>1, SetLoopOK
<1> HIDE DEF looping
<1>5. UnityRate \in Rate
  BY EngineAssumption
<1>6. EngineOK(again)
  <2>1. has("repeat") => d["repeat"] \in BOOLEAN
    BY DEF Ranged, Typed
  <2> QED
    BY <1>4, <1>5, <2>1, StoresOK
<1> HIDE DEF again
<1>7. EngineOK(done)
  <2>1. has("playing") => d["playing"] \in BOOLEAN
    BY DEF Ranged, Typed
  <2> QED
    BY <1>5, <1>6, <2>1, StoresOK
<1>8. Driven(e, d) = done
  BY DEF Driven, done, again, looping, rated, sought, loaded, has
<1> QED
  BY <1>7, <1>8

-----------------------------------------------------------------------------
(* The types of a block.                                                   *)

(* The engine once a block has taken reset and seek. *)
Ready(e) == SeekTaken(ResetTaken(e))

LEMMA ReadyOK ==
    ASSUME NEW e, EngineOK(e)
    PROVE  /\ EngineOK(Ready(e))
           /\ Ready(e).position = IF e.seek = NoSeek THEN e.position ELSE e.seek
           /\ Ready(e).lagged = IF e.resetDue THEN 0 ELSE e.lagged
           /\ Ready(e).audio = e.audio /\ Ready(e).loop = e.loop
           /\ Ready(e).repeat = e.repeat /\ Ready(e).rate = e.rate
           /\ Ready(e).playing = e.playing
<1>1. IsEngine(e) /\ FieldsOK(e) /\ HeadOK(e)
  BY EngineOKIs
<1> DEFINE l == Ready(e)
<1>2. IsEngine(l)
  BY <1>1 DEF Ready, SeekTaken, ResetTaken, IsEngine, EngineField
<1>3. /\ l.audio = e.audio /\ l.loop = e.loop /\ l.repeat = e.repeat /\ l.rate = e.rate
      /\ l.playing = e.playing /\ l.stopDue = e.stopDue
  BY <1>1 DEF Ready, SeekTaken, ResetTaken, IsEngine, EngineField
<1>4. /\ l.position = IF e.seek = NoSeek THEN e.position ELSE e.seek
      /\ l.lagged = IF e.resetDue THEN 0 ELSE e.lagged
      /\ l.seek = NoSeek
      /\ l.resetDue = IF e.resetDue THEN FALSE ELSE e.resetDue
  BY <1>1 DEF Ready, SeekTaken, ResetTaken, IsEngine, EngineField
<1>5. /\ l.produced = IF e.resetDue THEN 0 ELSE e.produced
      /\ l.drain = IF e.resetDue THEN 0 ELSE e.drain
  BY <1>1 DEF Ready, SeekTaken, ResetTaken, IsEngine, EngineField
<1> HIDE DEF l
<1>6. ~l.resetDue /\ l.resetDue \in BOOLEAN
  BY <1>1, <1>4 DEF FieldsOK
<1>7. FieldsOK(l)
  <2>1. /\ l.audio \in Playable \cup {NoTrack} /\ l.loop \in Loop \cup {NoLoop}
        /\ l.rate \in Rate
    BY <1>1, <1>3 DEF FieldsOK
  <2>2. l.playing \in BOOLEAN /\ l.repeat \in BOOLEAN /\ l.stopDue \in BOOLEAN
    BY <1>1, <1>3 DEF FieldsOK
  <2>3. l.lagged \in Nat /\ l.produced \in Nat /\ l.drain \in Nat
    BY <1>1, <1>4, <1>5 DEF FieldsOK
  <2>4. l.position \in Int /\ l.seek \in Nat \cup {NoSeek}
    BY <1>1, <1>4 DEF FieldsOK
  <2> QED
    BY <1>6, <2>1, <2>2, <2>3, <2>4 DEF FieldsOK
<1>8. HeadOK(l)
  <2>1. l.lagged \in Nat /\ l.lagged <= Latency * MaxRate
    <3>1. Latency * MaxRate \in Nat
      BY EngineAssumption, RangeAssumption
    <3> QED
      BY <1>1, <1>4, <3>1 DEF FieldsOK, HeadOK
  <2>2. l.position + l.lagged >= 0
    <3>1. CASE e.seek = NoSeek
      <4>1. l.position = e.position /\ l.lagged = e.lagged
        BY <1>1, <1>4, <3>1 DEF HeadOK
      <4> QED
        BY <1>1, <4>1 DEF HeadOK
    <3>2. CASE e.seek # NoSeek
      <4>1. l.position \in Nat
        BY <1>1, <1>4, <3>2 DEF FieldsOK
      <4> QED
        BY <2>1, <4>1
    <3> QED
      BY <3>1, <3>2
  <2> QED
    BY <1>6, <2>1, <2>2 DEF HeadOK
<1>9. EngineOK(l)
  BY <1>2, <1>7, <1>8, EngineOKIs
<1> QED
  BY <1>3, <1>4, <1>9 DEF l

LEMMA RateIs ==
    ASSUME NEW r \in Rate
    PROVE  r \in Nat /\ r # 0 /\ r <= MaxRate
  BY EngineAssumption, RangeAssumption, DeckAssumption

LEMMA ProductBound ==
    ASSUME NEW a \in Nat, NEW b \in Nat, NEW c \in Nat, NEW d \in Nat, a <= c, b <= d
    PROVE  a * b \in Nat /\ a * b <= c * d
<1>1. a * b <= c * b
  <2>1. (c - a) * b >= 0
    OBVIOUS
  <2> QED
    BY <2>1
<1>2. c * b <= c * d
  <2>1. c * (d - b) >= 0
    OBVIOUS
  <2> QED
    BY <2>1
<1> QED
  BY <1>1, <1>2

(* The pull head of an engine that is in order stays in the numbers. *)
LEMMA HeadInNat ==
    ASSUME NEW e, EngineOK(e), e.audio # NoTrack
    PROVE  \A n \in Nat : PullHead(e, e.position + e.lagged)[n] \in Nat
<1>1. /\ e.audio \in Playable /\ e.loop \in Loop \cup {NoLoop}
      /\ e.position + e.lagged \in Nat
  BY EngineOKIs DEF FieldsOK, HeadOK
<1>2. \A p \in Nat : Pulled(e, p) \in Nat
  BY <1>1, PulledIs
<1> QED
  BY <1>1, <1>2, PullHeadIs

LEMMA RenderedOK ==
    ASSUME NEW e, EngineOK(e), e.audio # NoTrack
    PROVE  EngineOK(Rendered(e))
<1>1. IsEngine(e) /\ FieldsOK(e) /\ HeadOK(e)
  BY EngineOKIs
<1> DEFINE start    == e.position + e.lagged
           dry      == RanDry(e, start)
           armed    == IF e.drain = 0 THEN Latency + 1 ELSE e.drain
           left     == IF dry THEN armed - 1 ELSE 0
           produced == Least(e.produced + 1, Latency)
           lagged   == produced * e.rate
           head     == PullHead(e, start)[e.rate]
           l        == Rendered(e)
<1>2. l = [e EXCEPT !.position = head - lagged, !.lagged = lagged,
                    !.produced = produced, !.drain = left,
                    !.stopDue = dry /\ left = 0]
  BY DEF Rendered
<1>3. e.rate \in Nat /\ e.rate <= MaxRate
  BY <1>1, RateIs DEF FieldsOK
<1>4. head \in Nat
  BY <1>3, HeadInNat
<1>5. produced \in Nat /\ produced <= Latency /\ Latency \in Nat /\ MaxRate \in Nat
  BY <1>1, EngineAssumption, RangeAssumption DEF FieldsOK, Least
<1>6. left \in Nat
  <2>1. e.drain \in Nat /\ Latency \in Nat
    BY <1>1, EngineAssumption DEF FieldsOK
  <2>2. armed \in Nat /\ armed # 0
    BY <2>1
  <2> HIDE DEF armed, dry
  <2> QED
    BY <2>2
<1> HIDE DEF head, produced, left, dry
<1>7. lagged \in Nat /\ lagged <= Latency * MaxRate
  BY <1>3, <1>5, ProductBound
<1> HIDE DEF lagged
<1> HIDE DEF l
<1>8. IsEngine(l)
  BY <1>1, <1>2 DEF IsEngine, EngineField
<1>9. /\ l.audio = e.audio /\ l.playing = e.playing /\ l.seek = e.seek
      /\ l.resetDue = e.resetDue /\ l.loop = e.loop /\ l.repeat = e.repeat
      /\ l.rate = e.rate
  BY <1>1, <1>2 DEF IsEngine, EngineField
<1>10. /\ l.position = head - lagged /\ l.lagged = lagged /\ l.produced = produced
       /\ l.drain = left /\ l.stopDue = (dry /\ left = 0)
  BY <1>1, <1>2 DEF IsEngine, EngineField
<1>11. FieldsOK(l)
  <2>1. /\ l.audio \in Playable \cup {NoTrack} /\ l.loop \in Loop \cup {NoLoop}
        /\ l.rate \in Rate /\ l.seek \in Nat \cup {NoSeek}
    BY <1>1, <1>9 DEF FieldsOK
  <2>2. l.playing \in BOOLEAN /\ l.repeat \in BOOLEAN /\ l.resetDue \in BOOLEAN
    BY <1>1, <1>9 DEF FieldsOK
  <2>3. l.stopDue \in BOOLEAN
    BY <1>10
  <2>4. l.position \in Int /\ l.lagged \in Nat /\ l.produced \in Nat /\ l.drain \in Nat
    BY <1>4, <1>5, <1>6, <1>7, <1>10
  <2> QED
    BY <2>1, <2>2, <2>3, <2>4 DEF FieldsOK
<1>12. HeadOK(l)
  <2>1. l.resetDue => l.seek # NoSeek
    BY <1>1, <1>9 DEF HeadOK
  <2>2. l.position + l.lagged >= 0
    BY <1>4, <1>7, <1>10
  <2>3. l.lagged <= Latency * MaxRate
    BY <1>7, <1>10
  <2> QED
    BY <2>1, <2>2, <2>3 DEF HeadOK
<1>13. EngineOK(l)
  BY <1>8, <1>11, <1>12, EngineOKIs
<1> QED
  BY <1>13 DEF l

LEMMA BlockOK ==
    ASSUME NEW e, EngineOK(e)
    PROVE  EngineOK(BlockStarted(e)) /\ EngineOK(BlockFinished(e))
<1>1. BlockStarted(e) =
        IF Ready(e).audio = NoTrack THEN [Ready(e) EXCEPT !.stopDue = TRUE]
        ELSE IF Ready(e).playing THEN Rendered(Ready(e)) ELSE Ready(e)
  BY DEF BlockStarted, Ready
<1>2. EngineOK(Ready(e)) /\ UnityRate \in Rate
  BY ReadyOK, EngineAssumption
<1>3. EngineOK([Ready(e) EXCEPT !.stopDue = TRUE])
  BY <1>2, StoresOK
<1>4. Ready(e).audio # NoTrack => EngineOK(Rendered(Ready(e)))
  BY <1>2, RenderedOK
<1>5. EngineOK(BlockFinished(e))
  <2> DEFINE stopped == [e EXCEPT !.playing = FALSE]
  <2>1. EngineOK(stopped)
    BY <1>2, StoresOK
  <2>2. EngineOK([stopped EXCEPT !.stopDue = FALSE])
    <3> HIDE DEF stopped
    <3> QED
      BY <1>2, <2>1, StoresOK
  <2>3. BlockFinished(e) = [stopped EXCEPT !.stopDue = FALSE]
    BY EngineOKIs DEF BlockFinished, IsEngine, EngineField
  <2> QED
    BY <2>2, <2>3
<1> QED
  BY <1>1, <1>2, <1>3, <1>4, <1>5

-----------------------------------------------------------------------------
(* The types of the sync button.                                           *)

LEMMA PhaseIs ==
    ASSUME NEW grid \in BeatGrid, grid.interval > 0, NEW position \in Int
    PROVE  /\ Phase(grid, position) \in Nat
           /\ Phase(grid, position) < grid.interval
<1>1. PICK i \in Nat \ {0}, f \in Nat : i = grid.interval /\ f = grid.first
  BY DEF BeatGrid
<1>2. position - f \in Int
  OBVIOUS
<1>3. (position - f) % i \in Int /\ 0 <= (position - f) % i /\ (position - f) % i < i
  BY <1>1, <1>2
<1> QED
  BY <1>1, <1>3 DEF Phase

LEMMA TargetPhaseIs ==
    ASSUME NEW this \in DeckSyncInfo, NEW other \in DeckSyncInfo, CanSync(this, other)
    PROVE  /\ TargetPhase(this, other) \in Nat
           /\ TargetPhase(this, other) < this.grid.interval
<1>1. /\ this.grid \in BeatGrid /\ other.grid \in BeatGrid /\ other.position \in Int
      /\ this.grid.interval > 0 /\ other.grid.interval > 0
  BY DEF DeckSyncInfo, CanSync
<1>2. PICK i \in Nat \ {0}, o \in Nat \ {0} : i = this.grid.interval /\ o = other.grid.interval
  BY <1>1 DEF BeatGrid
<1>3. PICK a \in Nat : a = Phase(other.grid, other.position)
  BY <1>1, PhaseIs
<1>4. a * i \in Nat
  BY <1>2
<1>5. (a * i) \div o \in Int
  BY <1>2, <1>4
<1>6. PICK q \in Int : q = (a * i) \div o
  BY <1>5
<1>7. q % i \in Int /\ 0 <= q % i /\ q % i < i
  BY <1>2, <1>6
<1>8. TargetPhase(this, other) = q % i
  BY <1>2, <1>3, <1>6 DEF TargetPhase
<1> QED
  BY <1>2, <1>7, <1>8

LEMMA NudgeIs ==
    ASSUME NEW this \in DeckSyncInfo, NEW other \in DeckSyncInfo, CanSync(this, other)
    PROVE  /\ Nudge(this, other) \in Int
           /\ LET turn == TargetPhase(this, other) - Phase(this.grid, this.position)
              IN  \/ Nudge(this, other) = turn
                  \/ Nudge(this, other) = turn - this.grid.interval
                  \/ Nudge(this, other) = turn + this.grid.interval
<1>1. /\ this.grid \in BeatGrid /\ this.position \in Int /\ this.grid.interval > 0
  BY DEF DeckSyncInfo, CanSync
<1>2. PICK i \in Nat \ {0} : i = this.grid.interval
  BY <1>1 DEF BeatGrid
<1>3. PICK t \in Nat : t = TargetPhase(this, other)
  BY TargetPhaseIs
<1>4. PICK p \in Nat : p = Phase(this.grid, this.position)
  BY <1>1, PhaseIs
<1>5. Nudge(this, other) =
        IF 2 * (t - p) > i THEN t - p - i ELSE IF 2 * (t - p) < -i THEN t - p + i ELSE t - p
  BY <1>2, <1>3, <1>4 DEF Nudge
<1> QED
  BY <1>2, <1>3, <1>4, <1>5

LEMMA NudgedPositionIs ==
    ASSUME NEW this \in DeckSyncInfo, NEW other \in DeckSyncInfo, CanSync(this, other),
           NEW duration \in Nat
    PROVE  NudgedPosition(this, other, duration) \in 0 .. MaxPosition
<1>1. this.position \in Int /\ this.position + Nudge(this, other) \in Int
  BY NudgeIs DEF DeckSyncInfo
<1>2. PICK x \in Int : NudgedPosition(this, other, duration) = Within(0, MaxPosition, x)
  BY <1>1 DEF NudgedPosition
<1>3. 0 \in Int /\ MaxPosition \in Int /\ 0 <= MaxPosition
  BY RangeAssumption
<1> QED
  BY <1>2, <1>3, WithinIs

LEMMA MatchedRateIs ==
    ASSUME NEW this \in DeckSyncInfo, NEW other \in DeckSyncInfo, CanSync(this, other)
    PROVE  MatchedRate(this, other) \in Rate
<1>1. /\ this.grid \in BeatGrid /\ other.grid \in BeatGrid /\ other.rate \in Nat
      /\ other.grid.interval > 0
  BY DEF DeckSyncInfo, CanSync
<1>2. PICK i \in Nat, o \in Nat \ {0}, r \in Nat :
        i = this.grid.interval /\ o = other.grid.interval /\ r = other.rate
  BY <1>1 DEF BeatGrid
<1>3. r * i \in Nat
  BY <1>2
<1>4. (r * i) \div o \in Int
  BY <1>2, <1>3
<1>5. MatchedRate(this, other) = Within(MinRate, MaxRate, (r * i) \div o)
  BY <1>2 DEF MatchedRate
<1>6. MinRate \in Int /\ MaxRate \in Int /\ MinRate <= MaxRate
  BY RangeAssumption
<1>7. Within(MinRate, MaxRate, (r * i) \div o) \in MinRate .. MaxRate
  BY <1>4, <1>6, WithinIs
<1> QED
  BY <1>5, <1>7, DeckAssumption

-----------------------------------------------------------------------------
(* The types of the deck.                                                  *)

(* What is inductive. *)
TypeInv == DeckTypeOK /\ HeadOK(engine)

LEMMA StateParts ==
    ASSUME TypeInv
    PROVE  /\ DOMAIN state = Field
           /\ state["track"] \in Track \cup {NoTrack} /\ state["playing"] \in BOOLEAN
           /\ state["position"] \in 0 .. MaxPosition /\ state["rate"] \in Rate
           /\ state["loop"] \in StoredLoop \cup {NoLoop} /\ state["repeat"] \in BOOLEAN
  BY DEF TypeInv, DeckTypeOK, PlaybackState, Field, StoredLoop

(* Storing a change in range keeps the state in range. *)
LEMMA MergedTyped ==
    ASSUME TypeInv, NEW d, Ranged(d)
    PROVE  Merged(state, d) \in PlaybackState
<1> DEFINE m == Merged(state, d)
<1>1. m = [f \in Field |-> IF f \in DOMAIN d THEN d[f] ELSE state[f]]
  BY DEF Merged
<1>2. /\ m["track"] \in Track \cup {NoTrack} /\ m["playing"] \in BOOLEAN
      /\ m["rate"] \in Rate /\ m["repeat"] \in BOOLEAN
  BY <1>1, StateParts DEF Field, Ranged, Typed
<1>3. /\ m["position"] \in 0 .. MaxPosition
      /\ m["loop"] \in StoredLoop \cup {NoLoop}
  BY <1>1, StateParts DEF Field, Ranged
<1>4. m = [track |-> m["track"], playing |-> m["playing"], position |-> m["position"],
           rate |-> m["rate"], loop |-> m["loop"], repeat |-> m["repeat"]]
  <2>1. m = [f \in Field |-> m[f]]
    BY <1>1
  <2> HIDE DEF m
  <2> QED
    BY <2>1 DEF Field
<1> HIDE DEF m
<1>5. m \in PlaybackState
  BY <1>2, <1>3, <1>4 DEF PlaybackState, StoredLoop
<1> QED
  BY <1>5 DEF m

LEMMA AnalyzedTyped ==
    ASSUME NEW b \in [grid : BeatGrid, track : Track \cup {NoTrack}],
           NEW t \in Track \cup {NoTrack}
    PROVE  Analyzed(b, t) \in [grid : BeatGrid, track : Track \cup {NoTrack}]
<1>1. NoGrid \in BeatGrid
  BY DEF NoGrid, BeatGrid
<1>2. CASE Resolve(t) = NoTrack
  BY <1>1, <1>2 DEF Analyzed
<1>3. CASE Resolve(t) # NoTrack
  <2>1. t \in Track
    BY <1>3 DEF Resolve, Playable
  <2>2. Grid[t] \in BeatGrid
    BY <2>1, DeckAssumption
  <2> QED
    BY <1>3, <2>1, <2>2 DEF Analyzed
<1> QED
  BY <1>2, <1>3

(* All but the gesture. *)
TypeBut ==
    /\ state \in PlaybackState
    /\ standing \in {"free", "controller", "observer"}
    /\ EngineOK(engine)
    /\ beats \in [grid : BeatGrid, track : Track \cup {NoTrack}]
    /\ polling \in BOOLEAN
    /\ clockRunning \in BOOLEAN

LEMMA TypeInvIs == TypeInv <=> TypeBut /\ gesture \in Gesture \cup {NoGesture}
  BY DEF TypeInv, DeckTypeOK, TypeBut, EngineOK

LEMMA ChangedTyped ==
    ASSUME TypeInv, NEW d, Ranged(d), Changed(d)
    PROVE  TypeBut'
<1>1. TypeBut
  BY TypeInvIs
<1>2. state' \in PlaybackState
  BY MergedTyped DEF Changed
<1>3. EngineOK(engine')
  BY <1>1, DrivenOK DEF TypeBut, Changed
<1>4. beats' \in [grid : BeatGrid, track : Track \cup {NoTrack}]
  <2>1. "track" \in DOMAIN d => d["track"] \in Track \cup {NoTrack}
    BY DEF Ranged, Typed
  <2>2. beats' = IF "track" \in DOMAIN d THEN Analyzed(beats, d["track"]) ELSE beats
    BY DEF Changed
  <2> QED
    BY <1>1, <2>1, <2>2, AnalyzedTyped DEF TypeBut
<1>5. polling' \in BOOLEAN /\ clockRunning' \in BOOLEAN
  <2>1. "playing" \in DOMAIN d => d["playing"] \in BOOLEAN
    BY DEF Ranged, Typed
  <2>2. polling' \in BOOLEAN
    BY <1>1, <2>1 DEF TypeBut, Changed
  <2>3. clockRunning' \in BOOLEAN
    BY <1>1, <2>1 DEF TypeBut, Changed
  <2> QED
    BY <2>2, <2>3
<1>6. standing' \in {"free", "controller", "observer"}
  BY <1>1 DEF TypeBut, Changed
<1> QED
  BY <1>2, <1>3, <1>4, <1>5, <1>6 DEF TypeBut

LEMMA LocalTyped ==
    ASSUME TypeInv, NEW d, Typed(d), LocalDelta(d)
    PROVE  TypeBut'
<1>1. Ranged(Clamped(d))
  BY ClampedRanged
<1> DEFINE c == Clamped(d)
<1> HIDE DEF c
<1>2. Ranged(Injected(c))
  BY <1>1, StateParts, InjectedRanged DEF c
<1>3. Changed(Injected(c))
  BY DEF LocalDelta, c
<1> DEFINE i == Injected(c)
<1> HIDE DEF i
<1> QED
  BY <1>2, <1>3, ChangedTyped DEF i

LEMMA TypeInit ==
    ASSUME Init
    PROVE  TypeInv
<1>1. /\ 0 \in 0 .. MaxPosition /\ UnityRate \in Rate
  BY RangeAssumption, EngineAssumption
<1>2. state \in PlaybackState
  BY <1>1 DEF Init, PlaybackState
<1>3. IsEngine(SilentEngine)
  BY DEF SilentEngine, IsEngine, EngineField
<1>4. FieldsOK(SilentEngine)
  BY <1>1 DEF SilentEngine, FieldsOK
<1>5. HeadOK(SilentEngine)
  <2>1. Latency * MaxRate \in Nat
    BY EngineAssumption, RangeAssumption
  <2> QED
    BY <2>1 DEF SilentEngine, HeadOK
<1>6. EngineOK(engine)
  BY <1>3, <1>4, <1>5, EngineOKIs DEF Init
<1>7. beats \in [grid : BeatGrid, track : Track \cup {NoTrack}]
  BY DEF Init, NoGrid, BeatGrid
<1>8. TypeBut /\ gesture \in Gesture \cup {NoGesture}
  BY <1>2, <1>6, <1>7 DEF Init, TypeBut
<1> QED
  BY <1>8, TypeInvIs

(* What the sync button compares. *)
LEMMA ThisDeckTyped ==
    ASSUME TypeInv
    PROVE  ThisDeck \in DeckSyncInfo
<1>1. ReportedPosition(engine) \in Int
  <2>1. engine.position \in Int
    BY TypeInvIs, EngineOKIs DEF TypeBut, FieldsOK
  <2> QED
    BY <2>1 DEF ReportedPosition
<1>2. beats.grid \in BeatGrid
  BY DEF TypeInv, DeckTypeOK
<1>3. state.rate \in Nat
  BY StateParts, RateIs
<1> QED
  BY <1>1, <1>2, <1>3 DEF ThisDeck, DeckSyncInfo

LEMMA DurationTyped ==
    ASSUME TypeInv
    PROVE  Duration(state.track) \in Nat
<1>1. state.track \in Track \cup {NoTrack}
  BY StateParts
<1> QED
  BY <1>1, EngineAssumption DEF Duration

LEMMA ResumeTyped ==
    ASSUME TypeInv
    PROVE  ResumePosition \in Int
<1>1. engine.position \in Int
  BY TypeInvIs, EngineOKIs DEF TypeBut, FieldsOK
<1>2. ReportedPosition(engine) \in Int
  BY <1>1 DEF ReportedPosition
<1> QED
  BY <1>2 DEF ResumePosition

(* The controls that leave the gesture alone. *)
LEMMA PlainControlsTyped ==
    ASSUME TypeInv,
           \/ TogglePlay \/ ToggleRepeat
           \/ \E p \in Places : DragPosition(p)
           \/ \E r \in Rate : MoveRate(r)
           \/ \E other \in OtherDecks : SyncClicked(other)
    PROVE  TypeInv'
<1>1. ASSUME NEW d, Typed(d), LocalDelta(d), UNCHANGED gesture
      PROVE  TypeInv'
  <2>1. TypeBut'
    BY <1>1, LocalTyped
  <2>2. gesture' \in Gesture \cup {NoGesture}
    BY <1>1 DEF TypeInv, DeckTypeOK
  <2> QED
    BY <2>1, <2>2 DEF TypeInv, DeckTypeOK, TypeBut, EngineOK
<1>2. CASE TogglePlay
  <2>1. CASE state.playing
    <3>1. Typed([playing |-> FALSE])
      BY DEF Typed, Field
    <3> QED
      BY <1>1, <1>2, <2>1, <3>1 DEF TogglePlay
  <2>2. CASE ~state.playing
    <3>1. Typed([position |-> ResumePosition, playing |-> TRUE])
      BY ResumeTyped DEF Typed, Field
    <3> QED
      BY <1>1, <1>2, <2>2, <3>1 DEF TogglePlay
  <2> QED
    BY <2>1, <2>2
<1>3. CASE ToggleRepeat
  <2>1. Typed([repeat |-> ~state.repeat])
    BY DEF Typed, Field
  <2> QED
    BY <1>1, <1>3, <2>1 DEF ToggleRepeat
<1>4. ASSUME NEW p \in Places, DragPosition(p) PROVE TypeInv'
  <2>1. Typed([position |-> p])
    BY <1>4, DeckAssumption DEF Typed, Field
  <2> QED
    BY <1>1, <1>4, <2>1 DEF DragPosition
<1>5. ASSUME NEW r \in Rate, MoveRate(r) PROVE TypeInv'
  <2>1. Typed([rate |-> r])
    BY <1>5 DEF Typed, Field
  <2> QED
    BY <1>1, <1>5, <2>1 DEF MoveRate
<1>6. ASSUME NEW other \in OtherDecks, SyncClicked(other) PROVE TypeInv'
  <2> DEFINE rate == MatchedRate(ThisDeck, other)
             to   == NudgedPosition(ThisDeck, other, Duration(state.track))
  <2>1. other \in DeckSyncInfo /\ CanSync(ThisDeck, other) /\ ThisDeck \in DeckSyncInfo
    BY <1>6, ThisDeckTyped, DeckAssumption DEF SyncClicked
  <2>2. rate \in Rate
    BY <2>1, MatchedRateIs
  <2>3. to \in 0 .. MaxPosition
    BY <2>1, DurationTyped, NudgedPositionIs
  <2>4. LocalDelta([rate |-> rate, position |-> to]) /\ UNCHANGED gesture
    BY <1>6 DEF SyncClicked
  <2> HIDE DEF rate, to
  <2>5. to \in Int
    BY <2>3
  <2>6. Typed([rate |-> rate, position |-> to])
    BY <2>2, <2>5 DEF Typed, Field
  <2> QED
    BY <1>1, <2>4, <2>6
<1> QED
  BY <1>2, <1>3, <1>4, <1>5, <1>6

(* The controls of a loop gesture. *)
LEMMA CancelTyped ==
    ASSUME TypeInv, CancelLoopIn
    PROVE  TypeInv'
<1>1. gesture \in Gesture /\ gesture' = NoGesture
  BY DEF CancelLoopIn, TypeInv, DeckTypeOK
<1>2. CASE gesture.stash # NoLoop
  <2> DEFINE d == [loop |-> gesture.stash]
  <2>1. LocalDelta(d)
    BY <1>2 DEF CancelLoopIn
  <2>2. gesture.stash \in Loop
    BY <1>1, <1>2 DEF Gesture
  <2>3. Typed(d)
    BY <2>2 DEF Typed, Field
  <2> HIDE DEF d
  <2>4. TypeBut'
    BY <2>1, <2>3, LocalTyped
  <2> QED
    BY <1>1, <2>4 DEF TypeInv, DeckTypeOK, TypeBut, EngineOK
<1>3. CASE gesture.stash = NoLoop
  <2>1. UNCHANGED <<state, standing, engine, beats, polling, clockRunning>>
    BY <1>3 DEF CancelLoopIn
  <2> QED
    BY <1>1, <2>1 DEF TypeInv, DeckTypeOK
<1> QED
  BY <1>2, <1>3

LEMMA LoopControlsTyped ==
    ASSUME TypeInv,
           \/ CancelLoopIn \/ LoopClear
           \/ \E p \in Places : LoopIn(p) \/ LoopOut(p)
    PROVE  TypeInv'
<1>1. CASE CancelLoopIn
  BY <1>1, CancelTyped
<1>2. Typed([loop |-> NoLoop])
  BY DEF Typed, Field
<1>3. CASE LoopClear
  <2>1. TypeBut'
    BY <1>2, <1>3, LocalTyped DEF LoopClear
  <2>2. gesture' = NoGesture
    BY <1>3 DEF LoopClear
  <2> QED
    BY <2>1, <2>2 DEF TypeInv, DeckTypeOK, TypeBut, EngineOK
<1>4. ASSUME NEW p \in Places, LoopIn(p) PROVE TypeInv'
  <2>1. p \in Nat /\ state.track \in Track /\ state.loop \in Loop \cup {NoLoop}
    BY <1>4, DeckAssumption, StateParts, StoredLoopIsLoop DEF LoopIn, ControlEnabled
  <2>2. gesture' = [at |-> p, stash |-> state.loop, track |-> state.track]
    BY <1>4 DEF LoopIn
  <2>3. gesture' \in Gesture
    BY <2>1, <2>2 DEF Gesture
  <2>4. CASE state.loop # NoLoop
    <3>1. TypeBut'
      BY <1>2, <1>4, <2>4, LocalTyped DEF LoopIn
    <3> QED
      BY <2>3, <3>1 DEF TypeInv, DeckTypeOK, TypeBut, EngineOK
  <2>5. CASE state.loop = NoLoop
    <3>1. UNCHANGED <<state, standing, engine, beats, polling, clockRunning>>
      BY <1>4, <2>5 DEF LoopIn
    <3> QED
      BY <2>3, <3>1 DEF TypeInv, DeckTypeOK
  <2> QED
    BY <2>4, <2>5
<1>5. ASSUME NEW p \in Places, LoopOut(p) PROVE TypeInv'
  <2>1. CASE p > gesture.at
    <3> DEFINE loop == [in |-> gesture.at, out |-> p]
    <3>1. LocalDelta([loop |-> loop]) /\ gesture' = NoGesture /\ gesture \in Gesture
      BY <1>5, <2>1 DEF LoopOut, TypeInv, DeckTypeOK
    <3>2. loop \in Loop
      BY <1>5, <3>1, DeckAssumption DEF Gesture, Loop
    <3> HIDE DEF loop
    <3>3. Typed([loop |-> loop])
      BY <3>2 DEF Typed, Field
    <3>4. TypeBut'
      BY <3>1, <3>3, LocalTyped
    <3> QED
      BY <3>1, <3>4 DEF TypeInv, DeckTypeOK, TypeBut, EngineOK
  <2>2. CASE ~(p > gesture.at)
    BY <1>5, <2>2, CancelTyped DEF LoopOut
  <2> QED
    BY <2>1, <2>2
<1> QED
  BY <1>1, <1>3, <1>4, <1>5

(* Every step keeps the types, and what the pull head needs. *)
LEMMA TypeNext ==
    ASSUME TypeInv, [Next]_vars
    PROVE  TypeInv'
<1>1. ASSUME NEW t \in Track, LoadTrack(t) PROVE TypeInv'
  <2> DEFINE d == [track |-> t, playing |-> FALSE, position |-> 0]
  <2>1. LocalDelta(d) /\ gesture' = NoGesture
    BY <1>1 DEF LoadTrack, GestureAfter
  <2>2. Typed(d)
    BY DEF Typed, Field
  <2> HIDE DEF d
  <2>3. TypeBut'
    BY <2>1, <2>2, LocalTyped
  <2> QED
    BY <2>1, <2>3 DEF TypeInv, DeckTypeOK, TypeBut, EngineOK
<1>2. ASSUME NEW d \in Incoming, RemoteDelta(d) PROVE TypeInv'
  <2>1. Typed(d)
    BY DeckAssumption DEF Typed
  <2>2. Changed(Clamped(d)) /\ gesture' = GestureAfter(gesture, d)
    BY <1>2 DEF RemoteDelta
  <2>3. TypeBut'
    BY <2>1, <2>2, ClampedRanged, ChangedTyped
  <2>4. gesture' \in Gesture \cup {NoGesture}
    BY <2>2 DEF TypeInv, DeckTypeOK, GestureAfter
  <2> QED
    BY <2>3, <2>4 DEF TypeInv, DeckTypeOK, TypeBut, EngineOK
<1>3. ASSUME NEW r \in {"free", "controller", "observer"}, RoleChange(r) PROVE TypeInv'
  <2>1. /\ standing' = r /\ clockRunning' = (r = "controller" /\ state.playing)
        /\ UNCHANGED <<state, engine, beats, polling, gesture>>
    BY <1>3 DEF RoleChange, ClockFor
  <2>2. clockRunning' \in BOOLEAN
    BY <2>1
  <2> QED
    BY <2>1, <2>2 DEF TypeInv, DeckTypeOK
<1>4. CASE PollTimer
  <2>1. Typed([playing |-> FALSE])
    BY DEF Typed, Field
  <2>2. TypeBut' /\ gesture' = gesture
    BY <1>4, <2>1, LocalTyped DEF PollTimer
  <2> QED
    BY <2>2 DEF TypeInv, DeckTypeOK, TypeBut, EngineOK
<1>5. CASE ClockTimer
  <2>1. ReportedPosition(engine) \in Int
    <3>1. engine.position \in Int
      BY TypeInvIs, EngineOKIs DEF TypeBut, FieldsOK
    <3> QED
      BY <3>1 DEF ReportedPosition
  <2>2. Typed([position |-> ReportedPosition(engine)])
    BY <2>1 DEF Typed, Field
  <2>3. TypeBut' /\ gesture' = gesture
    BY <1>5, <2>2, LocalTyped DEF ClockTimer
  <2> QED
    BY <2>3 DEF TypeInv, DeckTypeOK, TypeBut, EngineOK
<1>6. CASE BeginBlock \/ EndBlock
  <2>1. /\ engine' = BlockStarted(engine) \/ engine' = BlockFinished(engine)
        /\ UNCHANGED <<state, standing, beats, polling, clockRunning, gesture>>
    BY <1>6 DEF BeginBlock, EndBlock
  <2>2. EngineOK(engine')
    BY <2>1, BlockOK, TypeInvIs DEF TypeBut
  <2> QED
    BY <2>1, <2>2 DEF TypeInv, DeckTypeOK, EngineOK
<1>7. CASE UNCHANGED vars
  BY <1>7 DEF vars, TypeInv, DeckTypeOK
<1> QED
  BY <1>1, <1>2, <1>3, <1>4, <1>5, <1>6, <1>7, PlainControlsTyped, LoopControlsTyped
  DEF Next

(* What is stored is in range, wherever it came from, and the engine keeps *)
(* to its own types: in particular its pull head never gets before the     *)
(* track, although the position it reports may.                            *)
THEOREM DeckTyped == Spec => []TypeInv
<1>1. Init => TypeInv
  BY TypeInit
<1>2. TypeInv /\ [Next]_vars => TypeInv'
  BY TypeNext
<1> QED
  BY <1>1, <1>2, PTL DEF Spec

THEOREM DeckTypesHold == Spec => []DeckTypeOK
<1>1. TypeInv => DeckTypeOK
  BY DEF TypeInv
<1> QED
  BY <1>1, DeckTyped, PTL

-----------------------------------------------------------------------------
(* What a block finds to pull.                                             *)

(* The active loop lies in the track. *)
LoopFits(e) == e.loop # NoLoop => e.loop.out <= LastRenderable(e.audio)

LEMMA LoopIsFitted ==
    ASSUME TypeInv, DeckInv
    PROVE  LoopFits(engine)
<1>1. CASE engine.loop = NoLoop
  BY <1>1 DEF LoopFits
<1>2. CASE engine.loop # NoLoop
  <2>1. /\ engine.audio # NoTrack /\ state.loop # NoLoop
        /\ engine.loop = Fitted(state.loop, engine.audio)
    BY <1>2 DEF DeckInv, EngineFollowsState
  <2>2. state.loop \in Loop
    BY <2>1, StateParts, StoredLoopIsLoop
  <2>3. engine.audio \in Playable
    BY <2>1, TypeInvIs, EngineOKIs DEF TypeBut, FieldsOK
  <2> QED
    BY <2>1, <2>2, <2>3, FittedTyped DEF LoopFits
<1> QED
  BY <1>1, <1>2

(* A frame in the track stays in it, and one past its end comes back when  *)
(* something makes it.                                                     *)
LEMMA WrappedInTrack ==
    ASSUME NEW e, EngineOK(e), e.audio # NoTrack, LoopFits(e), NEW p \in Nat,
           \/ p < LastRenderable(e.audio)
           \/ LastRenderable(e.audio) > 0 /\ Endless(e)
    PROVE  InTrack(e, Wrapped(e, p))
<1>1. e.audio \in Playable /\ e.loop \in Loop \cup {NoLoop} /\ e.repeat \in BOOLEAN
  BY EngineOKIs DEF FieldsOK
<1>2. PICK last \in Nat : last = LastRenderable(e.audio)
  BY <1>1, PlayableFrames
<1> DEFINE inLoop == IF e.loop = NoLoop THEN p ELSE WrapWithin(p, e.loop.in, e.loop.out)
<1>3. Wrapped(e, p) = IF e.repeat /\ inLoop >= last THEN WrapWithin(inLoop, 0, last) ELSE inLoop
  BY <1>2 DEF Wrapped
<1>4. /\ inLoop \in Nat
      /\ \/ inLoop < last
         \/ e.repeat /\ last > 0
  <2>1. CASE e.loop = NoLoop
    <3>1. inLoop = p
      BY <2>1
    <3>2. Endless(e) => e.repeat
      BY <2>1 DEF Endless
    <3> QED
      BY <1>2, <3>1, <3>2
  <2>2. CASE e.loop # NoLoop
    <3>1. PICK from \in Nat, to \in Nat : from = e.loop.in /\ to = e.loop.out
      BY <1>1, <2>2 DEF Loop
    <3>2. to <= last
      BY <1>2, <2>2, <3>1 DEF LoopFits
    <3>3. inLoop = WrapWithin(p, from, to)
      BY <2>2, <3>1
    <3>4. Endless(e) => e.repeat \/ from < to
      BY <3>1 DEF Endless
    <3> HIDE DEF inLoop
    <3>5. inLoop \in Nat
      BY <3>3, WrapWithinKeeps
    <3>6. CASE from < to /\ p >= to
      <4>1. p \in Int /\ from \in Int /\ to \in Int
        OBVIOUS
      <4>2. inLoop < to
        BY <3>3, <3>6, <4>1, WrapWithinIs
      <4> QED
        BY <3>2, <3>5, <4>2
    <3>7. CASE ~(from < to /\ p >= to)
      <4>1. p \in Int /\ from \in Int /\ to \in Int
        OBVIOUS
      <4>2. inLoop = p
        BY <3>3, <3>7, <4>1, WrapWithinIs
      <4>3. from < to => p < to
        BY <3>7
      <4> QED
        BY <1>2, <3>2, <3>4, <4>2, <4>3
    <3> QED
      BY <3>6, <3>7
  <2> QED
    BY <2>1, <2>2
<1> HIDE DEF inLoop
<1>5. CASE e.repeat /\ inLoop >= last
  <2>1. 0 < last /\ 0 \in Int /\ last \in Int /\ inLoop \in Int
    BY <1>4, <1>5
  <2>2. PICK w \in Int : w = WrapWithin(inLoop, 0, last) /\ 0 <= w /\ w < last
    BY <1>5, <2>1, WrapWithinIs
  <2> QED
    BY <1>2, <1>3, <1>5, <2>2 DEF InTrack
<1>6. CASE ~(e.repeat /\ inLoop >= last)
  <2>1. Wrapped(e, p) = inLoop /\ 0 <= inLoop /\ inLoop < last
    BY <1>3, <1>4, <1>6
  <2> QED
    BY <1>2, <2>1 DEF InTrack
<1> QED
  BY <1>5, <1>6

(* A block of an endless deck does not run dry. *)
LEMMA EndlessBlock ==
    ASSUME NEW e, EngineOK(e), LoopFits(e), e.playing, e.audio # NoTrack,
           LastRenderable(e.audio) > 0, Endless(e)
    PROVE  ~BlockStarted(e).stopDue /\ BlockStarted(e).drain = 0
<1> DEFINE r == Ready(e)
<1>1. /\ EngineOK(r) /\ r.audio = e.audio /\ r.loop = e.loop /\ r.repeat = e.repeat
      /\ r.playing = e.playing
  BY ReadyOK
<1>2. BlockStarted(e) = Rendered(r)
  BY <1>1 DEF BlockStarted, Ready
<1> HIDE DEF r
<1>3. LoopFits(r) /\ Endless(r) /\ r.audio # NoTrack /\ LastRenderable(r.audio) > 0
  BY <1>1 DEF LoopFits, Endless
<1>4. r.rate \in Nat /\ r.rate # 0
  BY <1>1, EngineOKIs, RateIs DEF FieldsOK
<1> DEFINE head == PullHead(r, r.position + r.lagged)[r.rate - 1]
<1>5. head \in Nat
  <2>1. r.rate - 1 \in Nat
    BY <1>4
  <2> QED
    BY <1>1, <1>3, <2>1, HeadInNat
<1>6. RanDry(r, r.position + r.lagged) = ~InTrack(r, Wrapped(r, head))
  BY DEF RanDry
<1> HIDE DEF head
<1>7. ~RanDry(r, r.position + r.lagged)
  BY <1>1, <1>3, <1>5, <1>6, WrappedInTrack
<1>8. Rendered(r).drain = 0 /\ ~Rendered(r).stopDue
  <2> DEFINE dry      == RanDry(r, r.position + r.lagged)
             armed    == IF r.drain = 0 THEN Latency + 1 ELSE r.drain
             left     == IF dry THEN armed - 1 ELSE 0
             produced == Least(r.produced + 1, Latency)
             lagged   == produced * r.rate
             at       == PullHead(r, r.position + r.lagged)[r.rate] - lagged
  <2>1. Rendered(r) = [r EXCEPT !.position = at, !.lagged = lagged,
                                !.produced = produced, !.drain = left,
                                !.stopDue = dry /\ left = 0]
    BY DEF Rendered
  <2>2. ~dry /\ left = 0
    BY <1>7
  <2> HIDE DEF at, lagged, produced, left, dry
  <2> QED
    BY <1>1, <2>1, <2>2, EngineOKIs DEF IsEngine, EngineField
<1> QED
  BY <1>2, <1>8

(* A deck that repeats or loops never runs into the end of its track.      *)
THEOREM EndlessPlaysOn == Spec => EndlessNeverRunsDry
<1>1. TypeInv /\ DeckInv /\ [Next]_vars =>
        [/\ BeginBlock /\ engine.playing /\ engine.audio # NoTrack
         /\ LastRenderable(engine.audio) > 0 /\ Endless(engine)
         => ~engine'.stopDue /\ engine'.drain = 0]_vars
  <2> SUFFICES ASSUME TypeInv, DeckInv, BeginBlock, engine.playing, engine.audio # NoTrack,
                      LastRenderable(engine.audio) > 0, Endless(engine)
               PROVE  ~engine'.stopDue /\ engine'.drain = 0
    OBVIOUS
  <2>1. engine' = BlockStarted(engine)
    BY DEF BeginBlock
  <2>2. EngineOK(engine) /\ LoopFits(engine)
    BY LoopIsFitted, TypeInvIs DEF TypeBut
  <2> QED
    BY <2>1, <2>2, EndlessBlock
<1> QED
  BY <1>1, DeckTyped, DeckInvariant, PTL DEF Spec, EndlessNeverRunsDry

-----------------------------------------------------------------------------
(* What Play starts.                                                       *)

(* The stretch before the end where Play starts over is longer than what   *)
(* the stretcher holds back, which is why it is half a second              *)
(* (MainComponent.cpp:158).                                                *)
EpsilonCoversLatency == ResumeEpsilon > Latency * MaxRate

(* Where a deck that is not playing resumes: with what was subtracted from *)
(* the pull head added again, this lies in the track.                      *)
LEMMA ResumeIsInside ==
    ASSUME TypeInv, DeckInv, EpsilonCoversLatency, ~state.playing,
           engine.audio # NoTrack, LastRenderable(engine.audio) > Latency * MaxRate,
           NEW lagged \in Nat, lagged <= Latency * MaxRate
    PROVE  Within(0, MaxPosition, ResumePosition) + lagged < LastRenderable(engine.audio)
<1>1. /\ engine.audio \in Playable /\ engine.position \in Int
      /\ ReportedPosition(engine) = engine.position
  BY TypeInvIs, EngineOKIs DEF TypeBut, FieldsOK, ReportedPosition
<1>2. state.track = engine.audio /\ ~engine.playing
  BY DEF DeckInv, EngineFollowsState, Resolve
<1>3. PICK last \in Nat : last = LastRenderable(engine.audio) /\ Frames[engine.audio] = last + 1
  BY <1>1, PlayableFrames
<1>4. Duration(state.track) = last + 1
  BY <1>2, <1>3 DEF Duration
<1>5. PICK at \in Int : at = engine.position
  BY <1>1
<1>6. ResumePosition = IF at >= last + 1 - ResumeEpsilon THEN 0 ELSE at
  <2>1. last + 1 > 0
    BY <1>3
  <2>2. ReportedPosition(engine) = at
    BY <1>1, <1>5
  <2> DEFINE duration == Duration(state.track)
             reported == ReportedPosition(engine)
             over     == duration > 0 /\ ~engine.playing /\ reported >= duration - ResumeEpsilon
  <2>3. ResumePosition = IF over THEN 0 ELSE reported
    BY DEF ResumePosition
  <2>4. over <=> at >= last + 1 - ResumeEpsilon
    <3>1. duration = last + 1 /\ reported = at /\ ResumeEpsilon \in Nat
      BY <1>4, <2>2, DeckAssumption
    <3> HIDE DEF duration, reported
    <3> QED
      BY <1>2, <2>1, <3>1
  <2> HIDE DEF over
  <2>5. reported = at
    BY <2>2
  <2> HIDE DEF reported
  <2> QED
    BY <2>3, <2>4, <2>5
<1>7. PICK held \in Nat : held = Latency * MaxRate
  BY EngineAssumption, RangeAssumption
<1>8. ResumeEpsilon \in Nat /\ ResumeEpsilon > held /\ last > held /\ lagged <= held
  BY <1>3, <1>7, DeckAssumption DEF EpsilonCoversLatency
<1>9. PICK w \in Int : w = Within(0, MaxPosition, ResumePosition) /\ w >= 0
  <2>1. 0 \in Int /\ MaxPosition \in Int /\ 0 <= MaxPosition
    BY RangeAssumption
  <2> QED
    BY <2>1, ResumeTyped, WithinIs
<1>10. 0 \in Int /\ MaxPosition \in Int /\ 0 <= MaxPosition
  BY RangeAssumption
<1>11. CASE at >= last + 1 - ResumeEpsilon \/ at <= 0
  <2>1. ResumePosition \in Int /\ ResumePosition <= 0
    BY <1>6, <1>11
  <2>2. w = 0
    BY <1>9, <1>10, <2>1, WithinIs
  <2> QED
    BY <1>3, <1>8, <1>9, <2>2
<1>12. CASE ~(at >= last + 1 - ResumeEpsilon) /\ at > 0
  <2>1. ResumePosition = at
    BY <1>6, <1>12
  <2>2. w <= at
    BY <1>9, <1>10, <1>12, <2>1, WithinIs
  <2>3. at < last + 1 - ResumeEpsilon
    BY <1>3, <1>8, <1>12
  <2>4. w + lagged < last
    BY <1>8, <2>2, <2>3
  <2> QED
    BY <1>3, <1>9, <2>4
<1> QED
  BY <1>11, <1>12

(* Play pressed on a stopped deck: the seek is to where it resumes.        *)
LEMMA PlaySeeks ==
    ASSUME TypeInv, DeckInv, TogglePlay, engine'.playing, engine'.audio # NoTrack
    PROVE  /\ ~state.playing /\ engine'.audio = engine.audio
           /\ engine'.seek = Within(0, MaxPosition, ResumePosition)
<1>1. IsEngine(engine)
  BY DEF DeckInv
<1>2. ASSUME state.playing PROVE FALSE
  <2> DEFINE d == [playing |-> FALSE]
  <2>1. LocalDelta(d)
    BY <1>2 DEF TogglePlay
  <2> DEFINE c == Injected(Clamped(d))
  <2>2. DOMAIN c = {"playing"} /\ c["playing"] = FALSE
    <3>1. DOMAIN Clamped(d) = {"playing"} /\ Clamped(d)["playing"] = FALSE
      BY ClampedFields
    <3> HIDE DEF d
    <3>2. Injected(Clamped(d)) = Clamped(d)
      BY <3>1 DEF Injected
    <3> QED
      BY <3>1, <3>2
  <2>3. engine' = Driven(engine, c)
    BY <2>1 DEF LocalDelta, Changed
  <2> HIDE DEF c
  <2>4. engine'.playing = FALSE
    BY <1>1, <2>2, <2>3, DrivenEffect
  <2> QED
    BY <2>4
<1> DEFINE d == [position |-> ResumePosition, playing |-> TRUE]
           c == Clamped(d)
           i == Injected(c)
<1>3. LocalDelta(d)
  BY <1>2 DEF TogglePlay
<1>4. /\ DOMAIN c = {"position", "playing"}
      /\ c["position"] = Within(0, MaxPosition, ResumePosition)
  <2>1. DOMAIN d = {"position", "playing"} /\ d["position"] = ResumePosition
    OBVIOUS
  <2> HIDE DEF d
  <2> QED
    BY <2>1 DEF Clamped
<1>5. engine' = Driven(engine, i)
  BY <1>3 DEF LocalDelta, Changed
<1> HIDE DEF c, d
<1>6. i = c
  BY <1>4 DEF Injected
<1>7. engine' = Driven(engine, c)
  BY <1>5, <1>6
<1>8. engine'.audio = engine.audio
  BY <1>1, <1>4, <1>7, DrivenEffect
<1>9. engine'.seek = c["position"]
  <2>1. engine'.seek = IF engine'.audio = NoTrack THEN 0 ELSE c["position"]
    BY <1>1, <1>4, <1>7, DrivenEffect
  <2> QED
    BY <2>1
<1> QED
  BY <1>2, <1>4, <1>8, <1>9

(* Pressing Play on a stopped deck is heard: the first frame that the next *)
(* block pulls lies in the track.                                          *)
LEMMA PlayIsHeard ==
    ASSUME TypeInv, DeckInv, TypeInv', DeckInv', EpsilonCoversLatency, TogglePlay,
           engine'.playing, engine'.audio # NoTrack,
           LastRenderable(engine'.audio) > Latency * MaxRate
    PROVE  InTrack(Ready(engine'),
                   Wrapped(Ready(engine'), Ready(engine').position + Ready(engine').lagged))
<1>1. PICK e : e = engine'
  OBVIOUS
<1>2. EngineOK(e) /\ LoopFits(e)
  <2>1. EngineOK(engine')
    BY DEF TypeInv, DeckTypeOK, EngineOK
  <2>2. LoopFits(engine')
    <3>1. CASE engine'.loop = NoLoop
      BY <3>1 DEF LoopFits
    <3>2. CASE engine'.loop # NoLoop
      <4>1. state'.loop # NoLoop /\ engine'.loop = Fitted(state'.loop, engine'.audio)
        BY <3>2 DEF DeckInv, EngineFollowsState
      <4>2. state'.loop \in Loop
        <5>1. state' \in PlaybackState
          BY DEF TypeInv, DeckTypeOK
        <5>2. state'.loop \in StoredLoop
          BY <4>1, <5>1 DEF PlaybackState, StoredLoop
        <5> QED
          BY <5>2, StoredLoopIsLoop
      <4>3. engine'.audio \in Playable
        BY <2>1, EngineOKIs DEF FieldsOK
      <4> QED
        BY <4>1, <4>2, <4>3, FittedTyped DEF LoopFits
    <3> QED
      BY <3>1, <3>2
  <2> QED
    BY <1>1, <2>1, <2>2
<1>3. /\ ~state.playing /\ e.audio = engine.audio /\ e.audio # NoTrack
      /\ e.seek = Within(0, MaxPosition, ResumePosition)
      /\ LastRenderable(e.audio) > Latency * MaxRate
  BY <1>1, PlaySeeks
<1> DEFINE r == Ready(e)
<1>4. /\ EngineOK(r) /\ r.audio = e.audio /\ r.loop = e.loop
      /\ r.position = IF e.seek = NoSeek THEN e.position ELSE e.seek
  BY <1>2, ReadyOK
<1> HIDE DEF r
<1>5. e.seek \in Nat /\ e.seek # NoSeek
  <2>1. 0 \in Int /\ MaxPosition \in Int /\ 0 <= MaxPosition
    BY RangeAssumption
  <2>2. e.seek \in 0 .. MaxPosition
    <3>1. ResumePosition \in Int
      BY ResumeTyped
    <3>2. Within(0, MaxPosition, ResumePosition) \in 0 .. MaxPosition
      BY <2>1, <3>1, WithinIs
    <3> QED
      BY <1>3, <3>2
  <2>3. e.seek \in Nat
    BY <2>2
  <2>4. PICK n \in Nat : n = e.seek
    BY <2>3
  <2> QED
    BY <2>4 DEF NoSeek
<1>6. r.position = e.seek
  BY <1>4, <1>5
<1>7. r.lagged \in Nat /\ r.lagged <= Latency * MaxRate
  BY <1>4, EngineOKIs DEF FieldsOK, HeadOK
<1>8. r.position + r.lagged < LastRenderable(r.audio)
  <2>1. Within(0, MaxPosition, ResumePosition) + r.lagged < LastRenderable(engine.audio)
    BY <1>3, <1>7, ResumeIsInside
  <2> QED
    BY <1>3, <1>4, <1>6, <2>1
<1>9. r.position + r.lagged \in Nat
  BY <1>5, <1>6, <1>7
<1>10. LoopFits(r) /\ r.audio # NoTrack
  BY <1>2, <1>3, <1>4 DEF LoopFits
<1>11. InTrack(r, Wrapped(r, r.position + r.lagged))
  BY <1>4, <1>8, <1>9, <1>10, WrappedInTrack
<1> QED
  BY <1>1, <1>11 DEF r

THEOREM PlayingIsHeard ==
    ASSUME EpsilonCoversLatency
    PROVE  Spec => ResumeMakesSound
<1> DEFINE Heard ==
        TogglePlay /\ engine'.playing /\ engine'.audio # NoTrack
        /\ LastRenderable(engine'.audio) > Latency * MaxRate =>
        LET ready == SeekTaken(ResetTaken(engine'))
        IN  InTrack(ready, Wrapped(ready, ready.position + ready.lagged))
<1>1. TypeInv /\ DeckInv /\ TypeInv' /\ DeckInv' /\ [Next]_vars => [Heard]_vars
  BY PlayIsHeard DEF Ready
<1> QED
  BY <1>1, DeckTyped, DeckInvariant, PTL DEF Spec, ResumeMakesSound

-----------------------------------------------------------------------------
(* The arithmetic of the beat.                                             *)

LEMMA QuotientAndRest ==
    ASSUME NEW a \in Int, NEW b \in Nat \ {0}
    PROVE  \E q \in Int, r \in Nat : q = a \div b /\ r = a % b /\ r < b /\ a = q * b + r
  OBVIOUS

LEMMA RestIsUnique ==
    ASSUME NEW b \in Nat \ {0}, NEW q \in Int, NEW r \in Nat, r < b,
           NEW p \in Int, NEW s \in Nat, s < b, q * b + r = p * b + s
    PROVE  q = p /\ r = s
<1>1. (q - p) * b = s - r
  OBVIOUS
<1>2. PICK k \in Int : k = q - p
  OBVIOUS
<1>3. k * b = s - r
  BY <1>1, <1>2
<1>4. s - r < b /\ s - r > -b
  OBVIOUS
<1>5. CASE k >= 1
  <2>1. (k - 1) * b >= 0
    BY <1>5
  <2>2. k * b >= b
    BY <2>1
  <2> QED
    BY <1>3, <1>4, <2>2
<1>6. CASE k <= -1
  <2>1. (-1 - k) * b >= 0
    BY <1>6
  <2>2. k * b <= -b
    BY <2>1
  <2> QED
    BY <1>3, <1>4, <2>2
<1>7. CASE k = 0
  BY <1>2, <1>3, <1>7
<1> QED
  BY <1>2, <1>5, <1>6, <1>7

(* So the rest of a sum is known from any way to write it. *)
LEMMA RestIs ==
    ASSUME NEW a \in Int, NEW b \in Nat \ {0}, NEW p \in Int, NEW s \in Nat, s < b,
           a = p * b + s
    PROVE  a \div b = p /\ a % b = s
<1>1. PICK q \in Int, r \in Nat : q = a \div b /\ r = a % b /\ r < b /\ a = q * b + r
  BY QuotientAndRest
<1>2. q = p /\ r = s
  BY <1>1, RestIsUnique
<1> QED
  BY <1>1, <1>2

(* A beat of length i against one of length o, a into it: t is as far into *)
(* the first, and what is left of both takes the same time.                *)
LEMMA SameTimeLeft ==
    ASSUME NEW i \in Nat \ {0}, NEW o \in Nat \ {0}, NEW a \in Nat, NEW t \in Nat,
           NEW r \in Nat, NEW s \in Nat, t * o = a * i, r * o = s * i
    PROVE  (i - t) * s = (o - a) * r
<1>1. ((i - t) * s) * o = (s * i) * o - (t * o) * s
  OBVIOUS
<1>2. (s * i) * o - (t * o) * s = (s * i) * o - (a * i) * s
  BY <1>1
<1>3. (s * i) * o - (a * i) * s = (s * i) * (o - a)
  OBVIOUS
<1>4. (s * i) * (o - a) = (r * o) * (o - a)
  OBVIOUS
<1>5. (r * o) * (o - a) = ((o - a) * r) * o
  OBVIOUS
<1>6. PICK x \in Int, y \in Int : x = (i - t) * s /\ y = (o - a) * r
  OBVIOUS
<1>7. x * o = y * o
  BY <1>1, <1>2, <1>3, <1>4, <1>5, <1>6
<1>8. (x - y) * o = 0
  BY <1>7
<1>9. x - y = 0
  BY <1>8
<1> QED
  BY <1>6, <1>9

(* Scaling the other deck's phase is exact, as it is with the reals that   *)
(* the code computes with.                                                 *)
ScalingIsExact ==
    \A other \in OtherDecks, t \in Track :
        other.grid.interval > 0 =>
            (Phase(other.grid, other.position) * Grid[t].interval) % other.grid.interval = 0

(* Where the nudge takes a deck, both decks have the same part of a beat   *)
(* behind them.                                                            *)
LEMMA NudgedPhase ==
    ASSUME NEW this \in DeckSyncInfo, NEW other \in DeckSyncInfo, CanSync(this, other),
           (Phase(other.grid, other.position) * this.grid.interval)
                % other.grid.interval = 0
    PROVE  LET there == Phase(this.grid, this.position + Nudge(this, other))
           IN  /\ there \in Nat
               /\ there * other.grid.interval
                    = Phase(other.grid, other.position) * this.grid.interval
<1>1. /\ this.grid \in BeatGrid /\ other.grid \in BeatGrid
      /\ this.position \in Int /\ other.position \in Int
      /\ this.grid.interval > 0 /\ other.grid.interval > 0
  BY DEF DeckSyncInfo, CanSync
<1>2. PICK i \in Nat \ {0}, f \in Nat, o \in Nat \ {0} :
        i = this.grid.interval /\ f = this.grid.first /\ o = other.grid.interval
  BY <1>1 DEF BeatGrid
<1>3. PICK a \in Nat : a = Phase(other.grid, other.position) /\ a < o
  BY <1>1, <1>2, PhaseIs
<1>4. a * i \in Nat
  BY <1>2, <1>3
<1>5. PICK c \in Nat : c = a * i
  BY <1>4
<1>6. c % o = 0
  BY <1>2, <1>3, <1>5
<1>7. PICK t \in Int : t = c \div o /\ c = t * o
  <2>1. PICK q \in Int, r \in Nat : q = c \div o /\ r = c % o /\ r < o /\ c = q * o + r
    BY <1>5, QuotientAndRest
  <2>2. c = q * o
    BY <1>6, <2>1
  <2> QED
    BY <2>1, <2>2
<1>8. t \in Nat /\ t < i
  <2>1. t >= 0
    <3>1. CASE t <= -1
      <4>1. (-1 - t) * o >= 0
        BY <3>1
      <4>2. t * o <= -o
        BY <4>1
      <4> QED
        BY <1>5, <1>7, <4>2
    <3> QED
      BY <3>1
  <2>2. t < i
    <3>1. CASE t >= i
      <4>1. (t - i) * o >= 0 /\ (o - a) * i > 0
        BY <1>3, <3>1
      <4>2. t * o >= i * o /\ o * i > a * i
        BY <4>1
      <4> QED
        BY <1>5, <1>7, <4>2
    <3> QED
      BY <3>1
  <2> QED
    BY <2>1, <2>2
<1>9. t % i = t
  <2>1. t = 0 * i + t
    OBVIOUS
  <2> QED
    BY <1>8, <2>1, RestIs
<1>10. TargetPhase(this, other) = t
  BY <1>2, <1>3, <1>5, <1>7, <1>9 DEF TargetPhase
<1>11. PICK at \in Int, q \in Int, p \in Nat :
         at = this.position /\ p = Phase(this.grid, this.position) /\ at - f = q * i + p
  <2>1. PICK at \in Int : at = this.position
    BY <1>1
  <2>2. at - f \in Int
    OBVIOUS
  <2>3. PICK q \in Int, p \in Nat :
          q = (at - f) \div i /\ p = (at - f) % i /\ p < i /\ at - f = q * i + p
    BY <1>2, <2>2, QuotientAndRest
  <2>4. p = Phase(this.grid, this.position)
    BY <1>2, <2>1, <2>3 DEF Phase
  <2> QED
    BY <2>1, <2>3, <2>4
<1>12. PICK n \in Int, k \in Int : n = Nudge(this, other) /\ n = t - p + k * i
  <2>1. PICK n \in Int : n = Nudge(this, other)
    BY NudgeIs
  <2>2. n = t - p \/ n = t - p - i \/ n = t - p + i
    BY <1>2, <1>10, <1>11, <2>1, NudgeIs
  <2>3. n = t - p + 0 * i \/ n = t - p + (-1) * i \/ n = t - p + 1 * i
    BY <2>2
  <2>4. 0 \in Int /\ -1 \in Int /\ 1 \in Int
    OBVIOUS
  <2> QED
    BY <2>1, <2>3, <2>4
<1>13. PICK x \in Int : x = at + n - f
  OBVIOUS
<1>14. x = (q + k) * i + t
  <2>1. x = (q * i + p) + (t - p + k * i)
    BY <1>11, <1>12, <1>13
  <2> QED
    BY <2>1
<1>15. x % i = t
  <2>1. q + k \in Int
    OBVIOUS
  <2> QED
    BY <1>8, <1>14, <2>1, RestIs
<1>16. Phase(this.grid, this.position + Nudge(this, other)) = t
  BY <1>2, <1>11, <1>12, <1>13, <1>15 DEF Phase
<1> QED
  BY <1>2, <1>3, <1>5, <1>7, <1>8, <1>16

(* After the sync button the next beats of the two decks coincide, unless  *)
(* the nudge was dropped or the tempo is out of range.                     *)
THEOREM SyncedBeatsMeet ==
    ASSUME ScalingIsExact
    PROVE  Spec => BeatsCoincide
<1> DEFINE Meet ==
        \A other \in OtherDecks :
            /\ SyncClicked(other)
            /\ state'.position = ThisDeck.position + Nudge(ThisDeck, other)
            /\ state'.rate * other.grid.interval = other.rate * ThisDeck.grid.interval
            => ToNextBeat(beats.grid, state'.position) * other.rate
                = ToNextBeat(other.grid, other.position) * state'.rate
<1>1. TypeInv /\ DeckInv /\ TypeInv' /\ [Next]_vars => [Meet]_vars
  <2> SUFFICES
        ASSUME TypeInv, DeckInv, TypeInv', NEW other \in OtherDecks, SyncClicked(other),
               state'.position = ThisDeck.position + Nudge(ThisDeck, other),
               state'.rate * other.grid.interval = other.rate * ThisDeck.grid.interval
        PROVE  ToNextBeat(beats.grid, state'.position) * other.rate
                = ToNextBeat(other.grid, other.position) * state'.rate
    OBVIOUS
  <2> DEFINE this == ThisDeck
  <2>1. /\ other \in DeckSyncInfo /\ CanSync(this, other) /\ this \in DeckSyncInfo
        /\ this.grid = beats.grid
    BY ThisDeckTyped, DeckAssumption DEF SyncClicked, ThisDeck
  <2> HIDE DEF this
  <2>2. this.grid.interval > 0 /\ other.grid.interval > 0
    BY <2>1 DEF CanSync
  <2>3. engine.audio \in Track /\ this.grid = Grid[engine.audio]
    <3>1. this.grid = IF engine.audio = NoTrack THEN NoGrid ELSE Grid[engine.audio]
      BY <2>1 DEF DeckInv, EngineFollowsState
    <3>2. NoGrid.interval = 0
      BY DEF NoGrid
    <3>3. engine.audio # NoTrack
      BY <2>2, <3>1, <3>2
    <3>4. engine.audio \in Playable \cup {NoTrack}
      BY TypeInvIs, EngineOKIs DEF TypeBut, FieldsOK
    <3> QED
      BY <3>1, <3>3, <3>4 DEF Playable
  <2>4. (Phase(other.grid, other.position) * this.grid.interval) % other.grid.interval = 0
    BY <2>2, <2>3 DEF ScalingIsExact
  <2>5. PICK i \in Nat \ {0}, o \in Nat \ {0}, s \in Nat :
          i = this.grid.interval /\ o = other.grid.interval /\ s = other.rate
    BY <2>1, <2>2 DEF DeckSyncInfo, BeatGrid
  <2>6. PICK r \in Nat : r = state'.rate
    <3>1. state'.rate \in Rate
      BY DEF TypeInv, DeckTypeOK, PlaybackState
    <3> QED
      BY <3>1, RateIs
  <2>7. r * o = s * i
    BY <2>5, <2>6 DEF this
  <2>8. PICK a \in Nat : a = Phase(other.grid, other.position)
    BY <2>1, <2>2, PhaseIs DEF DeckSyncInfo
  <2>9. PICK t \in Nat : t = Phase(beats.grid, state'.position) /\ t * o = a * i
    <3>1. state'.position = this.position + Nudge(this, other)
      BY DEF this
    <3> QED
      BY <2>1, <2>4, <2>5, <2>8, <3>1, NudgedPhase
  <2>10. (i - t) * s = (o - a) * r
    <3>1. t * o = a * i
      BY <2>9
    <3> HIDE DEF this
    <3> QED
      BY ONLY <2>7, <3>1, SameTimeLeft
  <2>11. /\ ToNextBeat(beats.grid, state'.position) = i - t
         /\ ToNextBeat(other.grid, other.position) = o - a
    BY <2>1, <2>5, <2>8, <2>9 DEF ToNextBeat
  <2> QED
    BY <2>5, <2>6, <2>10, <2>11
<1> QED
  BY <1>1, DeckTyped, DeckInvariant, PTL DEF Spec, BeatsCoincide
=============================================================================
