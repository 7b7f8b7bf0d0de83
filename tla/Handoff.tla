------------------------------- MODULE Handoff -------------------------------
(***************************************************************************)
(* How one deck's engine hands buffers, seeks, loops and the play flag     *)
(* from the message thread to the audio thread, without a lock:            *)
(* client/src/engine/BufferPlaybackSource.cpp.                             *)
(*                                                                         *)
(* Every call of the message thread has a number.  A buffer, a requested   *)
(* position, a loop point or a play request is the number of the call it   *)
(* comes from; None stands for nullptr, false or "not set".                *)
(*                                                                         *)
(* Stores of the message thread become visible one by one, in order, and   *)
(* after a delay (a store buffer): whatever it reads meanwhile, the        *)
(* generation above all, may be read before its own stores are seen.  A    *)
(* store is seen before PublicationLag further blocks have begun.  The     *)
(* audio thread's stores are visible at once: it begins every block with a *)
(* locked increment.                                                       *)
(***************************************************************************)
EXTENDS Integers, Sequences

CONSTANTS
    RetireMargin,      \* retireMargin, in blocks
    PublicationLag,    \* blocks that may begin before a store is seen
    Calls,             \* the calls this instance makes
    MaxCalls,          \* bound of the model on calls
    MaxBlocks          \* bound of the model on render blocks

None == 0

ASSUME HandoffAssumption ==
    /\ RetireMargin \in Nat /\ PublicationLag \in Nat
    /\ MaxCalls \in Nat /\ MaxBlocks \in Nat
    /\ Calls \subseteq {"load", "setPlaying", "setLoop", "requestSeek"}

(* The shared atomics, and the members of the two loop slots. *)
Cell == {"playing", "seekPending", "pendingSeekSamples", "activeBuffer",
         "activeLoopSlot", "in0", "out0", "in1", "out1"}

InCell(slot)  == IF slot = 0 THEN "in0" ELSE "in1"
OutCell(slot) == IF slot = 0 THEN "out0" ELSE "out1"

VARIABLES
    memory,            \* what the audio thread sees of each cell
    storeBuffer,       \* stores of the message thread not yet seen
    renderGeneration,
    \* the message thread
    messagePc,
    calls,             \* number of calls made
    slot,              \* activeLoopSlot_ as the message thread knows it
    current,           \* messageThreadCurrentBuffer_
    loading,           \* the argument of load()
    seen,              \* the generation read by retireStaleBuffers
    retireList,
    requested,         \* the last seek requested (history)
    \* the audio thread
    audioPc,
    audio,             \* its locals
    position,          \* positionSamples_
    lost               \* the last request whose flag was cleared unseen (history)

message == <<messagePc, calls, slot, current, loading, seen, retireList, requested>>
rendering == <<audioPc, audio, position, lost>>
vars == <<memory, storeBuffer, renderGeneration, message, rendering>>

NothingHeld == [buffer |-> None, seek |-> None, slot |-> 0, in |-> None, out |-> None]

Init ==
    /\ memory = [c \in Cell |-> 0]
    /\ storeBuffer = <<>>
    /\ renderGeneration = 0
    /\ messagePc = "idle" /\ calls = 0 /\ slot = 0
    /\ current = None /\ loading = None /\ seen = 0
    /\ retireList = {}
    /\ requested = None
    /\ audioPc = "idle" /\ audio = NothingHeld
    /\ position = None /\ lost = None

-----------------------------------------------------------------------------
(* Stores.                                                                 *)

Store(cell, value) == [cell |-> cell, value |-> value, at |-> renderGeneration]

Issue(stores) == storeBuffer' = storeBuffer \o stores

(* A store becomes visible. *)
Publish ==
    /\ storeBuffer # <<>>
    /\ memory' = [memory EXCEPT ![Head(storeBuffer).cell] = Head(storeBuffer).value]
    /\ storeBuffer' = Tail(storeBuffer)
    /\ UNCHANGED <<renderGeneration, message, rendering>>

(* MUTANT: the flag is raised before the value is there. *)
FlagFirst(n) == <<Store("seekPending", n), Store("pendingSeekSamples", n)>>

(* The value of a seek first, the flag second. *)
SeekStores(n) == <<Store("pendingSeekSamples", n), Store("seekPending", n)>>

(* MUTANT: the slot in use is written. *)
ActiveSlot == slot

InactiveSlot == 1 - slot

(* The inactive slot is written, then the index flips. *)
LoopStores(n) ==
    <<Store(InCell(InactiveSlot), n), Store(OutCell(InactiveSlot), n),
      Store("activeLoopSlot", InactiveSlot)>>

(* MUTANT: the old loop is cleared after the new buffer is published. *)
BufferFirst(n, buffer) == <<Store("activeBuffer", buffer)>> \o SeekStores(n) \o LoopStores(n)

(* What load() stores: seek to the start, no loop, the buffer. *)
LoadStores(n, buffer) == SeekStores(n) \o LoopStores(n) \o <<Store("activeBuffer", buffer)>>

-----------------------------------------------------------------------------
(* The message thread.                                                     *)

Call(name) ==
    /\ messagePc = "idle"
    /\ name \in Calls
    /\ calls < MaxCalls                                       \* model bound
    /\ calls' = calls + 1

(* load(): a new buffer or nullptr; retireStaleBuffers reads the generation. *)
Load ==
    /\ Call("load")
    /\ loading' \in {None, calls'}
    /\ seen' = renderGeneration
    /\ messagePc' = "store"
    /\ UNCHANGED <<memory, storeBuffer, renderGeneration, slot, current, retireList,
                   requested, rendering>>

(* MUTANT: the margin is one block short. *)
StaleEarly(entry) == seen - entry.generation >= RetireMargin

Stale(entry) == seen - entry.generation > RetireMargin

(* It frees what is old enough, then the stores of load() are issued. *)
LoadStore ==
    /\ messagePc = "store"
    /\ retireList' = {entry \in retireList : ~Stale(entry)}
    /\ Issue(LoadStores(calls, loading))
    /\ slot' = InactiveSlot
    /\ requested' = calls
    /\ messagePc' = "retire"
    /\ UNCHANGED <<memory, renderGeneration, calls, current, loading, seen, rendering>>

(* The generation is read again and the previous buffer put on the list. *)
LoadRetire ==
    /\ messagePc = "retire"
    /\ retireList' = retireList \cup
         {[generation |-> renderGeneration, buffer |-> b] : b \in {current} \ {None}}
    /\ current' = loading
    /\ loading' = None /\ seen' = 0
    /\ messagePc' = "idle"
    /\ UNCHANGED <<memory, storeBuffer, renderGeneration, calls, slot, requested, rendering>>

SetPlaying(shouldPlay) ==
    /\ Call("setPlaying")
    /\ Issue(<<Store("playing", IF shouldPlay THEN calls' ELSE None)>>)
    /\ UNCHANGED <<memory, renderGeneration, messagePc, slot, current, loading, seen,
                   retireList, requested, rendering>>

(* Set or cleared, a loop is a whole slot and a flip. *)
SetLoop ==
    /\ Call("setLoop")
    /\ Issue(LoopStores(calls'))
    /\ slot' = InactiveSlot
    /\ UNCHANGED <<memory, renderGeneration, messagePc, current, loading, seen, retireList,
                   requested, rendering>>

RequestSeek ==
    /\ Call("requestSeek")
    /\ Issue(SeekStores(calls'))
    /\ requested' = calls'
    /\ UNCHANGED <<memory, renderGeneration, messagePc, slot, current, loading, seen,
                   retireList, rendering>>

-----------------------------------------------------------------------------
(* The audio thread: one call of getNextAudioBlock, one action per access  *)
(* to what the message thread may change meanwhile.                        *)

Audio(from, to) ==
    /\ audioPc = from /\ audioPc' = to
    /\ UNCHANGED message

BlockDone ==
    /\ audioPc' = "idle" /\ audio' = NothingHeld

StartBlock ==
    /\ Audio("idle", "seek?")
    /\ renderGeneration < MaxBlocks                           \* model bound
    /\ \A i \in DOMAIN storeBuffer : renderGeneration - storeBuffer[i].at < PublicationLag
    /\ renderGeneration' = renderGeneration + 1
    /\ UNCHANGED <<memory, storeBuffer, audio, position, lost>>

ReadSeekPending ==
    /\ audioPc = "seek?"
    /\ audio' = [audio EXCEPT !.seek = memory["seekPending"]]
    /\ audioPc' = IF memory["seekPending"] # None THEN "seek" ELSE "buffer"
    /\ UNCHANGED <<memory, storeBuffer, renderGeneration, message, position, lost>>

ApplySeek ==
    /\ Audio("seek", "seek done")
    /\ position' = memory["pendingSeekSamples"]
    /\ UNCHANGED <<memory, storeBuffer, renderGeneration, audio, lost>>

ClearSeekPending ==
    /\ Audio("seek done", "buffer")
    /\ memory' = [memory EXCEPT !["seekPending"] = None]
    /\ lost' = IF memory["seekPending"] > position /\ memory["seekPending"] > audio.seek
               THEN memory["seekPending"] ELSE lost
    /\ UNCHANGED <<storeBuffer, renderGeneration, audio, position>>

ReadBuffer ==
    /\ audioPc = "buffer"
    /\ audio' = [audio EXCEPT !.buffer = memory["activeBuffer"]]
    /\ audioPc' = IF memory["activeBuffer"] # None THEN "playing?" ELSE "no audio"
    /\ UNCHANGED <<memory, storeBuffer, renderGeneration, message, position, lost>>

(* Without audio the flag is cleared, read back, and the block is silent. *)
StopForNoAudio ==
    /\ audioPc = "no audio"
    /\ memory' = [memory EXCEPT !["playing"] = None]
    /\ BlockDone
    /\ UNCHANGED <<storeBuffer, renderGeneration, message, position, lost>>

ReadPlaying ==
    /\ audioPc = "playing?"
    /\ IF memory["playing"] # None
       THEN audioPc' = "slot" /\ UNCHANGED audio
       ELSE BlockDone
    /\ UNCHANGED <<memory, storeBuffer, renderGeneration, message, position, lost>>

ReadLoopSlot ==
    /\ Audio("slot", "in")
    /\ audio' = [audio EXCEPT !.slot = memory["activeLoopSlot"]]
    /\ UNCHANGED <<memory, storeBuffer, renderGeneration, position, lost>>

(* The copy of the slot is a plain one: its members may be read apart. *)
CopyIn ==
    /\ Audio("in", "out")
    /\ audio' = [audio EXCEPT !.in = memory[InCell(audio.slot)]]
    /\ UNCHANGED <<memory, storeBuffer, renderGeneration, position, lost>>

CopyOut ==
    /\ Audio("out", "render")
    /\ audio' = [audio EXCEPT !.out = memory[OutCell(audio.slot)]]
    /\ UNCHANGED <<memory, storeBuffer, renderGeneration, position, lost>>

(* Frames are read from the buffer, the position moves on from where it    *)
(* is; the block may be the one in which the tail of the track has drained. *)
Render ==
    /\ audioPc = "render"
    /\ \/ BlockDone
       \/ audioPc' = "drained" /\ UNCHANGED audio
    /\ UNCHANGED <<memory, storeBuffer, renderGeneration, message, position, lost>>

StopAtEnd ==
    /\ audioPc = "drained"
    /\ memory' = [memory EXCEPT !["playing"] = None]
    /\ BlockDone
    /\ UNCHANGED <<storeBuffer, renderGeneration, message, position, lost>>

-----------------------------------------------------------------------------
MessageThread ==
    \/ Load \/ LoadStore \/ LoadRetire
    \/ \E shouldPlay \in BOOLEAN : SetPlaying(shouldPlay)
    \/ SetLoop \/ RequestSeek

AudioThread ==
    \/ StartBlock
    \/ ReadSeekPending \/ ApplySeek \/ ClearSeekPending
    \/ ReadBuffer \/ StopForNoAudio \/ ReadPlaying
    \/ ReadLoopSlot \/ CopyIn \/ CopyOut
    \/ Render \/ StopAtEnd

Next == MessageThread \/ AudioThread \/ Publish

Spec == Init /\ [][Next]_vars

-----------------------------------------------------------------------------
(* Correctness.                                                            *)

StoreType ==
    {s \in [cell : Cell, value : Nat, at : Nat] :
        s.cell = "activeLoopSlot" => s.value \in {0, 1}}

AudioPc == {"idle", "seek?", "seek", "seek done", "buffer", "no audio", "playing?",
            "slot", "in", "out", "render", "drained"}

(* Every variable has its type; the loop index only ever names one of the  *)
(* two slots, on both threads and in every store under way.                *)
TypeOK ==
    /\ memory \in [Cell -> Nat] /\ memory["activeLoopSlot"] \in {0, 1}
    /\ storeBuffer \in Seq(StoreType)
    /\ renderGeneration \in Nat
    /\ messagePc \in {"idle", "store", "retire"}
    /\ calls \in Nat /\ slot \in {0, 1}
    /\ current \in Nat /\ loading \in Nat /\ seen \in Nat /\ requested \in Nat
    /\ retireList \in SUBSET [generation : Nat, buffer : Nat]
    /\ audioPc \in AudioPc
    /\ audio \in [buffer : Nat, seek : Nat, slot : {0, 1}, in : Nat, out : Nat]
    /\ position \in Nat /\ lost \in Nat

(* The audio thread works on the buffer it took. *)
UsesBuffer == audioPc \in {"playing?", "slot", "in", "out", "render"}

(* What the message thread still keeps alive. *)
Alive == ({current, loading} \cup {entry.buffer : entry \in retireList}) \ {None}

(* A buffer the audio thread is using is never freed under it, however     *)
(* many loads follow each other and however late they are seen: the audio  *)
(* thread may take the old pointer in any block that begins within the     *)
(* publication lag (retireStaleBuffers, load, getNextAudioBlock).          *)
NoUseAfterFree == UsesBuffer => audio.buffer \in Alive

(* The order of a seek's two stores does what the header asks for: a       *)
(* position applied for a raised flag is that of the request which raised  *)
(* it, or of a later one, never an older.                                  *)
SeekNotOlderThanFlag == audioPc = "seek" => memory["pendingSeekSamples"] >= audio.seek

(* load() clears the loop before it publishes the buffer: no block of a    *)
(* track uses loop points, or one of them, set for an earlier track.       *)
LoopNotOlderThanBuffer ==
    audioPc = "render" => audio.in >= audio.buffer /\ audio.out >= audio.buffer

(* A seek that is overtaken is lost in one way only: when everything is    *)
(* seen, the flag is down and the last request has still not been applied, *)
(* its flag was raised after the audio thread had read the value of an     *)
(* earlier one, and before it cleared that one's flag.                     *)
SeekLostOnlyInWindow ==
    messagePc = "idle" /\ storeBuffer = <<>> /\ memory["seekPending"] = None
    => requested \in {position, lost}

(* The two slots absorb one change of the loop during a block: points of   *)
(* two different calls are seen together only when another change lies     *)
(* between these calls.                                                    *)
SingleChangeNeverTears ==
    audioPc = "render" /\ audio.in # audio.out
    => LET other == 1 - audio.slot
       IN  \/ audio.in < memory[InCell(other)] /\ memory[InCell(other)] # audio.out
           \/ audio.out < memory[InCell(other)] /\ memory[InCell(other)] # audio.in

(* BufferPlaybackSource.cpp:47: position is reset before the new buffer is *)
(* published, "so the audio thread never renders even one block of the new *)
(* buffer at a stale position left over from the previous track".  The     *)
(* code does not keep this: it tests the flag before it takes the buffer.  *)
NoStalePosition == audioPc = "render" => position >= audio.buffer
=============================================================================
