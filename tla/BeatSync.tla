------------------------------ MODULE BeatSync ------------------------------
(***************************************************************************)
(* The correction of the sync button (client/src/model/BeatSync.h), over   *)
(* whole frames: a tempo is its beat interval, 60 / bpm.  The divisions    *)
(* are exact when the instance chooses intervals that divide.              *)
(***************************************************************************)
EXTENDS Integers

CONSTANTS
    MinRate, MaxRate,  \* ranges::playbackRateMin and Max
    MaxPosition        \* ranges::positionSecondsMax, and loopSecondsMax

ASSUME RangeAssumption ==
    /\ MinRate \in Nat \ {0} /\ MaxRate \in Nat /\ MinRate <= MaxRate
    /\ MaxPosition \in Nat

BeatGrid == [interval : Nat, first : Nat]

(* Detection failed, or nothing is loaded. *)
NoGrid == [interval |-> 0, first |-> 0]

(* A deck as the other one's sync button sees it. *)
DeckSyncInfo == [grid : BeatGrid, position : Int, rate : Nat]

Within(low, high, x) == IF x < low THEN low ELSE IF x > high THEN high ELSE x

(* wrappedPhase: how far past its last beat a deck is. *)
Phase(grid, position) == (position - grid.first) % grid.interval

CanSync(this, other) == this.grid.interval > 0 /\ other.grid.interval > 0

(* The tempo that is audible on the other deck, over this track's own. *)
MatchedRate(this, other) ==
    Within(MinRate, MaxRate, (other.rate * this.grid.interval) \div other.grid.interval)

(* MUTANT: the other deck's phase is measured by this deck's beat. *)
PhaseByOwnBeat(this, other) ==
    LET ahead == Phase([other.grid EXCEPT !.interval = this.grid.interval], other.position)
    IN  ((ahead * this.grid.interval) \div other.grid.interval) % this.grid.interval

(* The other deck's phase, scaled to this deck's beat. *)
TargetPhase(this, other) ==
    LET ahead == Phase(other.grid, other.position)
    IN  ((ahead * this.grid.interval) \div other.grid.interval) % this.grid.interval

(* The shorter way round the beat. *)
Nudge(this, other) ==
    LET beat == this.grid.interval
        turn == TargetPhase(this, other) - Phase(this.grid, this.position)
    IN  IF 2 * turn > beat THEN turn - beat
        ELSE IF 2 * turn < -beat THEN turn + beat ELSE turn

(* A nudge out of the track is dropped, and the tempo match kept. *)
NudgedPosition(this, other, duration) ==
    LET target == this.position + Nudge(this, other)
    IN  Within(0, MaxPosition,
               IF duration > 0 /\ target \notin 0 .. duration
               THEN this.position ELSE target)
=============================================================================
