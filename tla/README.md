# DJ-App: specification and verification

DJ-App is a shared DJ desk. One server process is one *room*; every client
plays its own copies of the tracks, and one client at a time, the *controller*,
decides what all of them play. This directory holds TLA+ models of the parts
where that can go wrong, the TLC configurations that check them on small
instances, and proofs, checked by TLAPS, of what matters most.

## 1. The system

| part | source | state | operations |
|---|---|---|---|
| room domain | `server/src/room.js` | `clients` (id to connection), `decks`, `serverSeq`, `controllerId`; `conn.id` | `handleMessage` (hello, claimControl, releaseControl, delta, requestSnapshot), `handleDisconnect` |
| session | `server/src/server.js` | `records`, `preHelloCount`; per record two timers, `pendingHello`, `ejected`, `isAlive`, `consecutiveInvalid` | connection, message, ping, pong, close events; hello and terminate timers; heartbeat; `close()` |
| rate limiter | `server/src/server.js` (`refill`, `charge`) | `tokens`, `lastRefillMs`, `rateLimitedSince` | one charge per message, ping and pong |
| validation | `server/src/validate.js`, `protocol.js` | none | accept or reject a message |
| client session | `client/src/app/MainComponent.cpp` | `role_`, `ownClientId_`, `connected_`, `peers_` | welcome, snapshot, remote delta, role and peer events, connection change, full resync |
| state manager | `client/src/state/StateManager.cpp` | one `PlaybackState` per deck, listeners | `applyDelta(local or remote)` |
| publisher | `client/src/sync/SyncPublisher.cpp` | `pending_` per deck, `lastSendMs_` | forward, coalesce, timer |
| transport | `client/src/sync/WebSocketTransport.cpp` | socket, `alive_`, `lastSeenServerSeq_`, closures under way | connect, disconnect, send; Open, Message, Close, Error |
| serialization, ranges | `client/src/model/Serialization.cpp`, `Ranges.h` | none | build, parse, clamp |
| deck controls | `client/src/ui/DeckComponent.cpp` | `pendingLoopInSeconds_`, `stashedLoopOnArm_` | play, seek, rate, repeat, loop in/out/clear, sync, load |
| engine adapter, position clock | `client/src/engine/EngineAdapter.cpp`, `state/PositionClock.cpp` | timers, cached beat grid | deltas to engine calls, self-stop correction, 5 s resync |
| audio engine | `client/src/engine/BufferPlaybackSource.*` | atomics, loop slots, retire list; pull head, drain | calls of the message thread, render blocks of the audio thread |
| beat sync | `client/src/model/BeatSync.h` | none | matched rate and nudge |
| crossfader, listener list | `client/src/state/CrossfaderState.cpp`, `TokenListenerList.h` | position, tokens | re-entrant notification |
| repository, stretchers, detection, device, display | `client/src/repository`, `engine`, `ui` | | see section 6 |

How they interact. A client opens one WebSocket; frames keep their order in
each direction. The server runs one callback at a time: a frame is charged,
parsed and handed to the room, which answers through `conn.send` and tells
`server.js` the verdict, which decides what it costs the connection. The room
learns of a departure from the socket's close event only. On the client a
network thread checks the sequence number and queues each frame for the
message thread, where it changes the session state and, through the state
manager, the decks; listeners of the state manager are the publisher, the
engine adapters, the position clocks and the widgets. The audio thread takes
what the message thread leaves in atomics; the message thread learns from it
the position and, by polling, that it has stopped.

What is hard: connections that are half dead (ejected, mute, replaced by a new
one, their id drawn again); role changes and roster changes crossing on the
wire with edits; edits that are refused, coalesced or made offline; closures
queued by a connection that is gone; timers racing events; a clock that may be
set back; two threads without a lock; and an engine that stops by itself
while its deck is being changed. `PROJECT.json` lists the hazards at their
lines, with the properties that cover them.

## 2. The modules

| module | models | notes |
|---|---|---|
| `Protocol` | deck states, deltas and their merge, the messages | a deck is a function from fields to values; a delta a function on some of the fields |
| `Room` | `room.js`, one action per handler | `sent` is what the last call handed to `conn.send`, `closed` where it called `conn.close` |
| `ControlToken` | the abstract promise of a room | implemented by `Room` (`TokenSpec`) |
| `Client` | the client's handlers as functions on its state | `MainComponent`, `StateManager`, `SyncPublisher`, the sequence check |
| `DjSync` | `Room`, several `Client`s, and the channels between | the whole synchronisation |
| `Session` | the life of connections in `server.js` | room reduced to membership and control |
| `RateLimiter` | `refill` and `charge` | tokens in integer fractions, a clock that may be set back |
| `Wire` | what a field is as JSON; `validate.js`, `Serialization.cpp`, `Ranges.h`, the merge of the publisher | pure functions, both ends of the wire |
| `Transport` | `WebSocketTransport`, its two threads, the panel's status | over `Wire`; the server is an environment |
| `Link` | the abstract promise of a connection | implemented by `Transport` (`LinkSpec`) |
| `Engine` | what engine calls and render blocks compute | pull, wrap, drain, latency, seek, load, loop |
| `BeatSync` | the correction of the sync button | phases in whole frames |
| `Deck` | one deck of one client: state, controls, adapter, clock, engine | over `Engine` and `BeatSync` |
| `Handoff` | `BufferPlaybackSource`: what message thread and audio thread share | one action per access of the audio thread; a store buffer between the two |
| `RoomProofs`, `RateLimiterProofs`, `HandoffProofs`, `SessionProofs`, `DjSyncProofs`, `DeckProofs`, `TransportProofs` | | theorems |
| `Recursion` | | induction and recursion over the numbers, stated with sets and functions |
| `MCRoom`, `MCDjSync`, `MCSession`, `MCDeck`, `MCTransport` | | instances for TLC |

State and actions keep the names of the code. In `Room`, `connId` is `conn.id`,
which is never reset: a retired connection keeps its id while `clients` may
hold another connection under it. In `Client`, `local` is
`StateManager::states_`, `pending` is `SyncPublisher::pending_`, `lastSeen` is
`lastSeenServerSeq_`. In `DjSync` each connection is used once, so a client that
reconnects opens a fresh one while the server may still hold the old one (a
*ghost*). In `Session` a record has the fields of `server.js`'s record; `socket`
is the state of the ws socket, and the peer's behaviour (`PeerCloses`,
`GoMute`) is unconstrained.

In `Transport`, `wire` holds frames the network thread has not read, `queue` the
closures it has marshalled, each with the `alive_` flag it captured (its
attempt). `Wire` gives both sides their own reading of one JSON object: what
the server lets pass, what the client parses, what clamping makes of it.

In `Deck`, one action is one callback of the message thread with everything it
sets off: the state manager's clamping, injection and merge, the adapter's
engine calls in their order, the analysis, both timers and the gesture.
`Engine` gives the calls and blocks as functions on an engine record. A block is
two steps: what it reads and computes, and its store of false to the play flag;
calls come between the two. `Handoff` looks at the same calls word by word.

In `Handoff`, `memory` is what the audio thread sees of the atomics and of the
members of the loop slots; `storeBuffer` holds what the message thread has
stored and is not yet seen. Calls are numbered, and a buffer, a position, a loop
point or a play request is the number of its call, so that "older" can be said.
The message thread's stores appear one by one in their order, which covers
every interleaving of its statements with the audio thread's; only its reads of
`renderGeneration_` are steps of their own, because `load()` reads it after
stores that may not be seen yet. `PublicationLag` bounds how many blocks may
begin before a store is seen. C++ gives no such bound, hardware does (far below
one block); the comment at `retireMargin` relies on it. The order is that of
x86; on a processor that also reorders stores, the release stores keep the
pairs that matter in order.

Abstractions. Names, texts, close codes, the room code and logging are left
out. In `Room` and `DjSync` a delta is valid when it has a field, and "junk" stands
for what fails otherwise; the rules for fields are in `Wire`. In `DjSync` the
network and the message thread are one, and engines and positions are left out,
so the correction that an engine's stop at the end of a track makes to the
local state of any client, observers included (`docs/decisions.md:80` accepts
that), is in `Deck` only. In `Session` time is left out: an armed timer may fire
at any moment, which includes every real schedule except that heartbeats leave
a peer that answers time to answer (the interval is 15 s).

`Transport` carries one deck in a snapshot, and whole numbers: floats, and messages
over 4096 bytes, are left out. Its server is orderly: the welcome is the first
frame, deltas carry rising numbers. That much is a theorem about `Room` and the
channels (`SyncInvariant`, part `ChannelsRise`). What a closure does to roles and
peers is in `Client`; once-per-connection log guards are left out.

`Deck` has one deck of one client, whose place in the room is a *standing*
(controller; observer of one; free, when nobody controls). The playhead that the
deck displays between changes runs on the wall clock; the model takes any of
`Places` for it. Gain, pitch and the crossfader are left out. In `Engine` a block
delivers one output frame and pulls as many source frames as the rate says; the
fractional carry, the scratch buffers and the samples are left out.

In `Handoff` gain, rate, pitch, repeat and the stretcher's reset are left out
(each is a word of its own, related to no other), and rendering is reduced to
whether the track's tail has drained. Loading the same decoded track twice
counts as two buffers; the repository's cache, which keeps decoded tracks
alive today, is not relied on.

## 3. The runs

| run | checks | bounds |
|---|---|---|
| `room` | exact membership, control held by a member, no inherited control, writes told to the others, refinement of `ControlToken` | 4 connections, 3 ids, 2 places, 2 decks, 2 fields, 2 values, 2 writes |
| `dj_sync_roster` | caught-up clients know roster, roles and gating | 3 clients, 3 connections, 3 ids, 1 write |
| `dj_sync_decks` | decks converge; the defensive resync is never needed | 2 clients, 2 connections, 1 deck, 1 field, 3 writes |
| `session` | types, pre-hello count, deadlines, room and sockets, heartbeat, ejection; nobody lingers, a shutdown ends | 2 connections, 1 place, ceiling 1, 3 strikes |
| `limiter` | allowance, no ban before the clock is set back | clock to 9 ms, set back by up to 4, 8 messages, ban after 3 |
| `transport` | types, deltas read as relayed, own deltas accepted, no needless resync, refinement of `Link`, loss is shown | 2 attempts, 3 frames each, 2 on the wire, 2 closures, an int of at most 1, numbers 0 to 2 |
| `deck` | stored state in range, listeners agree with it, last seek counts, repeat and loop never run dry, Play is heard, beats meet; the display settles, tracks end | one track of 5 frames and one that cannot be decoded, rates 1 and 2, latency 1, 5 incoming changes |
| `handoff` | no use after free, seek value before flag, loop not older than buffer, where seeks are lost and loops torn | 4 calls of any kind, 2 blocks, margin and lag 1 |
| `dj_sync_snapshot`, `limiter_flood`, `handoff_position`, `deck_loop` | expected violations, see "Findings" | |

The type invariants of `Room`, `RateLimiter`, `Handoff` and `DjSync` are proved
(section 4), so no run spends time on them. The same holds for a publisher that
merges changes of several fields and a resync of two decks: these are the
theorems `CoalescingLosesNothing` and `ResyncCoversEveryDeck`, for any number of
fields and decks; the runs of `DjSync` keep one field of one deck.

Why the bounds are enough. More connections than ids and more candidates than
places make ids be drawn again and rooms be full; three clients give a
newcomer, a holder and a witness; two connections for one client give a ghost
and its successor. `MaxSeq` allows a write before, during and after a change
of control. `MaxUplink` holds a user's next click back while earlier ones are
under way (answers of the client program itself are not held back),
`MaxDownlink` the server while more frames than it are on the way to one client.
In `session` one connection over the ceiling, one that finds the room full and
one that waits while the other is torn down all occur; its safety properties
are proved for any number. In the limiter, the message cost, the rate and the
ban time are scaled down together: at 60 messages a second a token is refilled
three hundred times within the ban time; the instance twice.

In `transport` two attempts are one connection and the one that replaces it while
its closures wait; three frames are a welcome, a delta and one after it; with
an int of 1 the room's counter passes it within the run. Numeric ranges are 0
to 2, and edits and frames lie on both sides of them; a loop that clamping
leaves without length is among them. In `deck` the track of 5 frames is longer
than what two blocks at the greatest rate pull and what the stretcher holds
back, so a loop, a seek and the end fall into different blocks; incoming
changes are a loop written backwards, a stop, a track this client lacks, and
snapshots of both tracks, one of them past the end. In `handoff` four calls
allow a loop, a load, a play and a seek in any order, or three loads, of which
the third is the first that can free a buffer which the audio thread still
holds. With margin and lag 1, a buffer retired before the first block is freed
after the second; for the code's margin of 4, and any other, there is the
theorem `BuffersSafe`.

A model bound is always a conjunct marked `model bound`, or one of the
constants named above. Deadlock is checked except where the system may stop:
`Session` (all connections gone and the server closed), the limiter (the end of
its clock), `Handoff` (no audio device running and an idle user) and `Transport`
(its bounds used up and the user idle).

Fairness.

- `Session!Fairness`: the event loop fires armed timers, delivers the close event
  of a destroyed socket, repeats the heartbeat; a peer that answers at all
  answers a ping. Nothing is assumed of what peers send or when they leave.
  ws's own close timeout (30 s) is relied on only for sockets refused at
  admission: they have no record and no timer of the server's.
- `Transport!Fairness`: both threads of the client go on; a socket that is
  connecting opens or fails; a server that has accepted one answers its hello or
  closes it, by its hello deadline (`JoinsOrGoes` of `Session`).
- `Deck!Fairness`: the audio device keeps asking for blocks, and the 10 Hz timer
  keeps firing while it is armed. `SoundSettles` and `TrackEnds` need nothing of
  the user, the room or the position clock.

Timing assumption in `DjSync!ClickClaim`: a client does not claim while a change
of its own still waits in the publisher (33 ms at most). Without it
`DecksConverge` fails: a change kept from before a release is flushed after the
next claim, over what others wrote in between. It is listed among the hazards.

Every property has a mutant, a plausible bug in one mapped definition that
makes it fail (`MUTANT` operators beside the definitions).

## 4. The proofs

`RoomProofs`, for every set of connections, ids, decks, fields and values:

- `IInv == TypeOK /\ MembershipExact /\ ControllerIsMember` is inductive
  (`RoomInvariant`). Control alone is not: that the id in control is registered
  after a departure needs the registry to be exact, and the registry needs
  `connId` to be typed. `MembershipExact` is what makes a late call harmless: a
  connection that is `gone` is not a member though it keeps its id.
- `RoomTypes`, `RegistryExact`, `ControlHeldByMember` are its parts.
- `NoInheritance`: only a claim brings a connection into control; registration
  cannot, since the id in control is registered and a drawn id is not.
- `WritesToldToOthers`: only `HandleDelta` moves `serverSeq`, its sender is a
  member with the id in control, hence the holder.
- `RoomImplementsToken`: each handler maps to a join, a departure, a claim, a
  release, a write or a stutter of `ControlToken`, members being the registered
  ids. It uses `FiniteIds` (ids are four hex digits).

`DjSyncProofs`, for every set of clients, connections, decks, fields and values:

- `SyncInv` adds to `IInv` that links are exact (a connection belongs to one
  client, and an unused one carries nothing) and that numbers rise along each
  channel, from what its client has seen to the room's counter, with the welcome
  first (`ChannelsRise`). One call of the room is summed up by `RoomSpeaks`:
  what it hands a connection is a first welcome, or frames of the present
  number, or one delta of the next. `SyncInvariant` is the theorem,
  `SyncTypesHold` and `NeverAsksAgain` (the client never asks for a resync) its
  parts.
- `RostersConverge`: what is said is of `Replay(client, channel)`, the client
  once it has handled everything under way. One lemma for each call of the room
  shows that the frames it hands a member carry a client that knew the roster
  before to one that knows it after (`RostersKept`); a client's own handling of
  a frame moves it along its own replay. `ControlsFollowControl` follows: if
  nobody else that a client knows of controls, nobody does.
- `ControlStands`: at its end of a connection a client is in one of four
  standings (`Standing`): it has control and knows, has it and will hear, has
  none and knows, or gave it up and will hear. Each says which requests may be
  on the way up and which news on the way down; with `Greeting` (nothing is
  asked for before the welcome) this is inductive. It needs the assumption of
  `ClickClaim` below: a client that claims has nothing waiting to be sent.
- `AgreementSpreads`: while a client *leads* (it is in control, knows, and has
  not asked to give up), a field of a deck is either still on the way from it to
  the room, and then the last word that waits or travels is what it holds
  (`AheadRight`); or the room holds it so, and everybody else is bound to: the
  replay ends with that value, and after the last frame that sets the field
  their controls are closed (`Pinned`). `OthersGated` gives the closed controls,
  which is where rosters, roles and decks meet. `DecksSettle` reads this off
  when nothing is under way.
- `CoalescingLosesNothing`: a room that takes the merged change holds what it
  would hold after both; `ResyncCoversEveryDeck`: after a change of control each
  deck is announced, and replaces what the room held, whatever that was. The
  decks use `FiniteDecks`, and that a deck has a field at all.

`SessionProofs`, for every set of sockets, room size, ceiling and number of
strikes:

- `SInv` says from a connection's socket, record and membership which of its
  flags are set (`FlagsMean`, `SocketsMean`, `PulseMeans`, `CountExact`). That a
  slot is not given back twice needs `pendingHello` to mean what the count
  counts; that needs timers to end with the connection.
- `SessionTypes`, `SlotsExact`, `DeadlinesHold`, `RoomOfLiveSockets`,
  `LivingSpared`, `EjectedIsOut` follow: every safety property of the run.

`RateLimiterProofs`, for every cost, rate, burst and ban time:

- `LimiterTypes`: the bucket stays between empty and burst.
- `NoExtraService`: `tokens + served * Token <= Burst + lastRefillMs * Rate` is
  inductive, and `lastRefillMs` never passes the latest time shown.
- `BanUnreachable`, under `Rate * BanAfter >= Token`: until the clock is set
  back, during a deficit episode nothing is spent, so the bucket holds all that
  was refilled since; by the time the ban is due there is a token.

`TransportProofs`, for every range, set of tracks, frames, edits and bounds:

- `RoundTrip`: what the client writes for a delta in range, it reads back the
  same. `RelayedIsRead`: whatever the server's rules let pass, the client reads
  as it was written, and clamping leaves alone.
- `TransportInv`: frames on the wire and closures that will act are newer the
  later they come (`Ordered`), the end of a connection is the last thing heard
  of it (`EndIsLast`), the welcome is the first (`WelcomeFirst`), and numbers
  rise (`NumbersRise`). The alive flag is what makes it inductive: only closures
  of the present attempt will act.
- `TransportTypes`, `SentAccepted`, `HeardRelayed`, `NoNeedlessRequest` are
  parts; `TransportImplementsLink` maps every step to one of `Link` or a
  stutter.

`DeckProofs`, for every track list, rate, latency, set of incoming changes and
position bound:

- `DeckInvariant`: engine, beat cache and timers agree with the stored state,
  and a seek that waits is the stored position. For this a block need not be
  looked into: it leaves audio, loop, repeat and rate alone, takes the seek, and
  never starts an engine. A change that stores a track always carries a position
  (`Injected` and the assumption on incoming changes), which is why the rewind
  of a load never counts. `ListenersAgree` and `SeekIsAsked` are its parts.
- `DeckTyped`: `TypeInv` adds to the types what the pull head needs (`HeadOK`).
  The position that an engine reports may be negative just after a wrap; what
  the next block starts from, that position and what was subtracted from it, is
  not, because a reset, which forgets what was subtracted, never comes without a
  seek. `PullHeadIs` says that the pull head stays in any set that a turn of the
  loop does not leave (by `RecursionOverNat`). `DeckTypesHold` is the part that
  the run checks.
- `EndlessPlaysOn`: a wrap brings a frame past the end back (`WrappedInTrack`),
  and the loop is fitted to the audio that is there (`LoopIsFitted`, from
  `DeckInvariant`). The proof needs a track of two frames or more: one of a
  single frame repeats nothing, which the comment at
  `BufferPlaybackSource.cpp:312` allows; the property says so since this proof.
- `PlayingIsHeard`, under `ResumeEpsilon > Latency * MaxRate`: an engine that
  stopped at the end reports a position that far before it at most, so Play
  starts over. The code chose half a second for this reason
  (`MainComponent.cpp:158`); with less, Play at the end of a track can be
  silent.
- `SyncedBeatsMeet`, under `ScalingIsExact` (the scaled phase is a whole number
  of frames; the code computes with reals): the phase where the nudge leads,
  whichever way round, is the other deck's, scaled (`NudgedPhase`), and what is
  left of both beats takes the same time (`SameTimeLeft`).

`HandoffProofs`, for every margin, lag and number of calls and blocks:

- `HandoffTypes`.
- `SeekOrder`: values under way are in order of their calls, and a flag, seen or
  under way, is preceded by its value (`SeekInv`).
- `SeeksLostInWindow`: `RequestInv` adds that flags under way are newer than
  those before and than every request lost (`FlagsRise`), that a position comes
  from a value seen, at least as new as the flag that was tested
  (`PositionSeen`), and that the last request is applied, lost, or has its flag
  up or under way (`RequestKept`).
- `LoopsFollowBuffers` and `SlotsHoldTogether`: `LoopInv` speaks of every
  *view*, the memory after any number of the stores under way (`Sees`). In each,
  the points in use are of one call and no older than the buffer, and the other
  slot rests or is being written by a newer call (`ViewOK`); from one view to
  the next, points only become newer, and a slot is begun only when it rests
  (`StepOK`). `LoopsTaken` says what the audio thread's copies owe to the view
  they were taken from: a copied member that is no longer there means that the
  other slot has moved on.
- `BuffersSafe`, under `PublicationLag <= RetireMargin`: `BufferInv` says of
  every buffer that can be seen now or later that it is the latest, or that the
  store of its successor is still to come and its entry in the retire list is no
  older than that store (`BuffersCovered`). A store under way is no older than
  the lag (`LagBounded`), so what the audio thread takes was retired at most the
  lag ago (`BufferHeld`), and what is freed, longer ago than the margin.

`Recursion` has what the provers lack for data: induction and recursion over the
numbers (`InductionTo`, `InductionOverNat`, `RecursionTo`, `RecursionOverNat`),
with a set in the place of a predicate and a function in the place of an
operator, so that they can be cited. Replays, views and the pull head are
recursive functions and rest on it.

Assumptions are the named `ASSUME`s of the modules, which TLC evaluates, and the
hypotheses that a theorem states: `PublicationLag <= RetireMargin`, `Rate *
BanAfter >= Token`, `EpsilonCoversLatency` and `ScalingIsExact`, all true of the
instances that TLC checks.

Every safety property and every action property of the passing runs is the
subject of a theorem. Only model-checked is the liveness: `SilentPeerGone`,
`JoinsOrGoes`, `EjectedGone` and `ShutdownCompletes` of `Session`,
`SoundSettles` and `TrackEnds` of `Deck`, `LossIsShown` of `Transport`. They
rest on fairness, whose `ENABLED` the provers do not handle.

## 5. Findings

1. A snapshot does not replace the local state (`dj_sync_snapshot`):
   `docs/plan/02-protocol.md:51` against `MainComponent::applySnapshot`. A client
   that has played deck B alone and joins a room without one keeps its own.
2. A flood is not banned (`limiter_flood`): the comment at `server.js:121` against
   `charge`, where every served frame stops the ban clock.
3. A new buffer can be rendered for a block at the old position
   (`handoff_position`): the comment at `BufferPlaybackSource.cpp:47`.
4. Loading a track leaves the stored loop in place (`deck_loop`):
   `docs/plan/checklists/M5-host.md:112` against `MainComponent::loadTrackToDeck`. The
   engine's loop is cleared by the load, so the controller hears none; but the
   stored loop remains, the deck's playhead wraps by it, and a full resync or a
   snapshot hands it to others: a late joiner's engine loops while the
   controller's does not. In the proved `EngineFollowsState` this is why an engine's loop implies
   a stored one, and not the other way round.

## 6. Known limits of the code, and what is not modelled

Windows that the code leaves open, and that no text rules out in so many words:

- A seek whose flag is raised after the audio thread has read the value of an
  earlier one, and before it clears that one's flag, is lost.
  `SeekLostOnlyInWindow` shows that this is the only way to lose one. A delta
  with a track, a position, a loop and the play flag makes all four calls in a
  row (`EngineAdapter::handleDelta`), so this is not far-fetched.
- A loop changed twice while the audio thread copies a slot can give it one
  point of each change. `SingleChangeNeverTears` shows that one change cannot.
- The audio thread stores false to the play flag (no audio, end of track)
  whatever was requested since it looked, which undoes the request.
  `SoundSettles` shows that the stored state then follows the engine.
- The position clock publishes what the engine reports (`PositionClock.cpp:44`); just
  after a seek that no block has taken yet that is the old position, and the
  clock's delta seeks the engine back to it.
- A loop gesture survives the loss of control (`DeckComponent.cpp:411`); cancelled after control
  is free again, it restores the loop it had put aside over another client's.
- The full resync carries stored positions, not the ones the engines have
  reached (`MainComponent.cpp:346`); the clock corrects the room within five seconds.
- Past the range of an int the client takes a number for absent and asks for a
  snapshot at each delta; `AsksOnlyPastInt` shows that it does not before.
- Three invalid messages close a connection even when valid but refused ones
  lie between them (`server.js:304` resets the count on accepted messages only);
  `docs/plan/02-protocol.md:15` says "three consecutive invalid messages". The
  count and its reset are in `Session` as the code has them.
- A peer list stops at eight (`MainComponent.cpp:63`) while `config.js` allows rooms of up to 64;
  `DjSync` assumes `MaxClients <= kMaxPeers`, which the default of eight meets.
- A delta of the controller that the rate limiter drops is not repaired. Clients
  throttle themselves to half the sustained rate; limiter and `DjSync` are not
  composed.
- Retired buffers are freed by a later load only, and only when blocks were
  rendered meanwhile; what is kept is bounded by the tracks that were loaded.

Not modelled: Origin check and start-up of the server, configuration, logging
(I/O); time stretchers and beat detection (signal processing over doubles; the
grid of a track is a constant, the stretcher a latency); gain, pitch and the
crossfader (arithmetic over reals, related to nothing else here); removal and
addition of listeners during a walk (the program's listeners register at
start-up and leave at exit); the files of the track repository (a track is
playable or not, and stays so); audio device, display and layout (framework).

## 7. Plan

1. `Listeners`: the re-entrant walk of `TokenListenerList` and the crossfader's
   nested notification, against "each listener that stays sees each change".
2. `Deck` composed with `DjSync`: self-stop corrections, stored positions in the
   full resync, and the loop of finding 4 in a late joiner.
3. `Roster` beyond the cap of eight; the rate limiter in front of `DjSync`, with
   deltas that are dropped.
4. Proofs: the safety half of the liveness properties, that is what decreases
   until a track has ended, a socket is gone or the panel shows the loss; a
   refinement of `Deck` to an abstract player, and of the decks in `DjSync` to a single copy
   from `AgreementSpreads`.

Twelve runs are as many as are useful to run beside each other: a new component
joins an existing run where the instances are small, or takes the place of one
that a theorem has come to cover, as the coalescing and two-deck runs of `DjSync`
gave way to theorems of `DjSyncProofs`.
