---------------------------- MODULE HandoffProofs ----------------------------
(***************************************************************************)
(* What TLAPS proves of the handoff, for every margin, every publication   *)
(* lag and any number of calls and blocks.                                 *)
(*                                                                         *)
(* What the audio thread may see later is the memory after some of the     *)
(* stores under way.  The invariants speak of all these views at once: of  *)
(* the order of flags and values in them, of the successor that is still   *)
(* to come for every buffer in the retire list, and of the slots.          *)
(***************************************************************************)
EXTENDS Handoff, Recursion

-----------------------------------------------------------------------------
(* What the calls store.                                                   *)

(* A store is typed. *)
LEMMA StoreTyped ==
  ASSUME NEW c \in Cell, NEW v \in Nat, renderGeneration \in Nat,
         c = "activeLoopSlot" => v \in {0, 1}
  PROVE  Store(c, v) \in StoreType
  BY DEF Store, StoreType

(* A seek stores the value, then the flag. *)
LEMMA SeekStoresTyped ==
  ASSUME NEW n \in Nat, renderGeneration \in Nat
  PROVE  SeekStores(n) \in Seq(StoreType)
  <1>1. Store("pendingSeekSamples", n) \in StoreType
    BY StoreTyped DEF Cell
  <1>2. Store("seekPending", n) \in StoreType
    BY StoreTyped DEF Cell
  <1> QED BY <1>1, <1>2 DEF SeekStores

(* A loop stores its two members, then the index. *)
LEMMA LoopStoresTyped ==
  ASSUME NEW n \in Nat, renderGeneration \in Nat, slot \in {0, 1}
  PROVE  LoopStores(n) \in Seq(StoreType)
  <1>1. InactiveSlot \in {0, 1}
    BY DEF InactiveSlot
  <1>2. Store(InCell(InactiveSlot), n) \in StoreType
    BY <1>1, StoreTyped DEF Cell, InCell
  <1>3. Store(OutCell(InactiveSlot), n) \in StoreType
    BY <1>1, StoreTyped DEF Cell, OutCell
  <1>4. Store("activeLoopSlot", InactiveSlot) \in StoreType
    BY <1>1, StoreTyped DEF Cell
  <1> QED BY <1>2, <1>3, <1>4 DEF LoopStores

(* A load stores a seek, a loop and the buffer. *)
LEMMA LoadStoresTyped ==
  ASSUME NEW n \in Nat, NEW b \in Nat, renderGeneration \in Nat, slot \in {0, 1}
  PROVE  LoadStores(n, b) \in Seq(StoreType)
  <1>1. Store("activeBuffer", b) \in StoreType
    BY StoreTyped DEF Cell
  <1>2. SeekStores(n) \in Seq(StoreType) /\ LoopStores(n) \in Seq(StoreType)
    BY SeekStoresTyped, LoopStoresTyped
  <1> QED BY <1>1, <1>2 DEF LoadStores

(* Which makes six stores. *)
LEMMA SixStores ==
  ASSUME NEW a, NEW b, NEW c, NEW d, NEW e, NEW f,
         NEW s, s = <<a, b>> \o <<c, d, e>> \o <<f>>
  PROVE  /\ DOMAIN s = 1 .. 6
         /\ s[1] = a /\ s[2] = b /\ s[3] = c /\ s[4] = d /\ s[5] = e /\ s[6] = f
  OBVIOUS

(* Namely these, the buffer last. *)
LEMMA LoadStoresShape ==
  ASSUME NEW n, NEW b, NEW s, s = LoadStores(n, b)
  PROVE  /\ DOMAIN s = 1 .. 6
         /\ s[1] = Store("pendingSeekSamples", n) /\ s[2] = Store("seekPending", n)
         /\ s[3] = Store(InCell(InactiveSlot), n) /\ s[4] = Store(OutCell(InactiveSlot), n)
         /\ s[5] = Store("activeLoopSlot", InactiveSlot) /\ s[6] = Store("activeBuffer", b)
  BY SixStores DEF LoadStores, SeekStores, LoopStores

-----------------------------------------------------------------------------
(* Types.                                                                  *)

(* Every step of either thread keeps the types. *)
LEMMA TypeStep == TypeOK /\ [Next]_vars => TypeOK'
  <1> SUFFICES ASSUME TypeOK, [Next]_vars PROVE TypeOK'
    OBVIOUS
  <1> USE HandoffAssumption DEF TypeOK, None
  <1>1. CASE Publish
    <2>1. Head(storeBuffer) \in StoreType /\ Tail(storeBuffer) \in Seq(StoreType)
      BY <1>1 DEF Publish
    <2>2. memory' \in [Cell -> Nat] /\ memory'["activeLoopSlot"] \in {0, 1}
      BY <1>1, <2>1 DEF Publish, StoreType, Cell
    <2> QED BY <1>1, <2>1, <2>2 DEF Publish, message, rendering
  <1>2. CASE MessageThread
    <2>1. CASE Load
      BY <2>1 DEF Load, Call, rendering
    <2>2. CASE LoadStore
      <3>1. LoadStores(calls, loading) \in Seq(StoreType)
        BY LoadStoresTyped
      <3>2. storeBuffer' \in Seq(StoreType)
        BY <2>2, <3>1 DEF LoadStore, Issue
      <3>3. slot' \in {0, 1} /\ messagePc' = "retire"
        BY <2>2 DEF LoadStore, InactiveSlot
      <3>4. retireList' \in SUBSET [generation : Nat, buffer : Nat]
        BY <2>2 DEF LoadStore
      <3>5. requested' \in Nat
        BY <2>2 DEF LoadStore
      <3> QED BY <2>2, <3>2, <3>3, <3>4, <3>5 DEF LoadStore, rendering
    <2>3. CASE LoadRetire
      BY <2>3 DEF LoadRetire, rendering
    <2>4. ASSUME NEW shouldPlay \in BOOLEAN, SetPlaying(shouldPlay) PROVE TypeOK'
      <3> DEFINE n == IF shouldPlay THEN calls' ELSE None
      <3>1. n \in Nat /\ storeBuffer' = storeBuffer \o <<Store("playing", n)>>
        BY <2>4 DEF SetPlaying, Call, Issue
      <3>2. Store("playing", n) \in StoreType
        BY <3>1, StoreTyped DEF Cell
      <3> HIDE DEF n
      <3>4. storeBuffer' \in Seq(StoreType)
        BY <3>1, <3>2
      <3>5. calls' \in Nat
        <4>1. Call("setPlaying")
          BY <2>4, Zenon DEF SetPlaying
        <4> QED BY <4>1 DEF Call
      <3> QED BY <2>4, <3>4, <3>5 DEF SetPlaying, rendering
    <2>5. CASE SetLoop
      <3>1. LoopStores(calls') \in Seq(StoreType)
        BY <2>5, LoopStoresTyped DEF SetLoop, Call
      <3> QED BY <2>5, <3>1 DEF SetLoop, Call, Issue, InactiveSlot, rendering
    <2>6. CASE RequestSeek
      <3>1. calls' \in Nat
        BY <2>6 DEF RequestSeek, Call
      <3>2. SeekStores(calls') \in Seq(StoreType)
        BY <3>1, SeekStoresTyped
      <3>3. storeBuffer' \in Seq(StoreType)
        BY <2>6, <3>2 DEF RequestSeek, Issue
      <3>4. requested' \in Nat
        BY <2>6, <3>1 DEF RequestSeek
      <3> QED BY <2>6, <3>1, <3>3, <3>4 DEF RequestSeek, rendering
    <2> QED BY <1>2, <2>1, <2>2, <2>3, <2>4, <2>5, <2>6 DEF MessageThread
  <1>3. CASE AudioThread
    <2> USE DEF message, AudioPc, NothingHeld
    <2>1. CASE StartBlock
      BY <2>1 DEF StartBlock, Audio
    <2>2. CASE ReadSeekPending
      BY <2>2 DEF ReadSeekPending, Cell
    <2>3. CASE ApplySeek
      BY <2>3 DEF ApplySeek, Audio, Cell
    <2>4. CASE ClearSeekPending
      BY <2>4 DEF ClearSeekPending, Audio, Cell
    <2>5. CASE ReadBuffer
      BY <2>5 DEF ReadBuffer, Cell
    <2>6. CASE StopForNoAudio
      BY <2>6 DEF StopForNoAudio, BlockDone, Cell
    <2>7. CASE ReadPlaying
      <3>1. audioPc' \in AudioPc
        BY <2>7 DEF ReadPlaying, BlockDone
      <3>2. audio' \in [buffer : Nat, seek : Nat, slot : {0, 1}, in : Nat, out : Nat]
        BY <2>7 DEF ReadPlaying, BlockDone
      <3> QED BY <2>7, <3>1, <3>2 DEF ReadPlaying
    <2>8. CASE ReadLoopSlot
      BY <2>8 DEF ReadLoopSlot, Audio
    <2>9. CASE CopyIn
      BY <2>9 DEF CopyIn, Audio, InCell, Cell
    <2>10. CASE CopyOut
      BY <2>10 DEF CopyOut, Audio, OutCell, Cell
    <2>11. CASE Render
      <3>1. audioPc' \in AudioPc
        BY <2>11 DEF Render, BlockDone
      <3>2. audio' \in [buffer : Nat, seek : Nat, slot : {0, 1}, in : Nat, out : Nat]
        BY <2>11 DEF Render, BlockDone
      <3> QED BY <2>11, <3>1, <3>2 DEF Render
    <2>12. CASE StopAtEnd
      BY <2>12 DEF StopAtEnd, BlockDone, Cell
    <2> QED BY <1>3, <2>1, <2>2, <2>3, <2>4, <2>5, <2>6, <2>7, <2>8, <2>9, <2>10,
               <2>11, <2>12 DEF AudioThread
  <1>4. CASE UNCHANGED vars
    BY <1>4 DEF vars, message, rendering
  <1> QED BY <1>1, <1>2, <1>3, <1>4 DEF Next

(* The handoff keeps its types, whatever the margin and the lag. *)
THEOREM HandoffTypes == Spec => []TypeOK
  <1>1. Init => TypeOK
    BY DEF Init, TypeOK, None, NothingHeld, AudioPc, Cell
  <1> QED BY <1>1, TypeStep, PTL DEF Spec

-----------------------------------------------------------------------------
(* The order of stores, and seeks.                                         *)

(* Requests are numbered as they come, so of the values under way the      *)
(* later is the larger, and none is older than the one already seen.  A    *)
(* flag, seen or under way, is preceded by its value.                      *)
ValuesInOrder ==
    /\ memory["pendingSeekSamples"] <= calls
    /\ \A i \in DOMAIN storeBuffer : storeBuffer[i].cell = "pendingSeekSamples" =>
         /\ memory["pendingSeekSamples"] <= storeBuffer[i].value
         /\ storeBuffer[i].value <= calls
         /\ \A j \in DOMAIN storeBuffer :
              j < i /\ storeBuffer[j].cell = "pendingSeekSamples"
                => storeBuffer[j].value <= storeBuffer[i].value

FlagsFollow ==
    /\ memory["seekPending"] <= memory["pendingSeekSamples"]
    /\ \A i \in DOMAIN storeBuffer : storeBuffer[i].cell = "seekPending" =>
         \/ storeBuffer[i].value <= memory["pendingSeekSamples"]
         \/ \E j \in DOMAIN storeBuffer :
              /\ j < i /\ storeBuffer[j].cell = "pendingSeekSamples"
              /\ storeBuffer[i].value <= storeBuffer[j].value

SeekInv == TypeOK /\ ValuesInOrder /\ FlagsFollow /\ SeekNotOlderThanFlag

(* What is issued comes after what is under way. *)
LEMMA Appended ==
  ASSUME NEW S, NEW b \in Seq(S), NEW s \in Seq(S)
  PROVE  /\ DOMAIN (b \o s) = 1 .. (Len(b) + Len(s))
         /\ DOMAIN b = 1 .. Len(b) /\ DOMAIN s = 1 .. Len(s)
         /\ Len(b) \in Nat /\ Len(s) \in Nat
         /\ \A i \in 1 .. Len(b) : (b \o s)[i] = b[i]
         /\ \A k \in 1 .. Len(s) : (b \o s)[Len(b) + k] = s[k]
  OBVIOUS

(* Issuing nothing changes nothing. *)
LEMMA NothingAppended ==
  ASSUME NEW S, NEW b \in Seq(S) PROVE b \o <<>> = b
  OBVIOUS

(* A position in what is issued is either an old one or one of the new. *)
LEMMA OldOrNew ==
  ASSUME NEW m \in Nat, NEW n \in Nat, NEW i \in 1 .. (m + n)
  PROVE  i \in 1 .. m \/ \E k \in 1 .. n : i = m + k
  <1>1. CASE i <= m
    BY <1>1
  <1>2. CASE i > m
    <2>1. i - m \in 1 .. n /\ i = m + (i - m)
      BY <1>2
    <2> QED BY <2>1
  <1> QED BY <1>1, <1>2

(* Stores of one call, its number not below that of any earlier one, with  *)
(* the value of a seek before its flag, keep the order.                    *)
LEMMA IssueInOrder ==
  ASSUME TypeOK, ValuesInOrder, FlagsFollow,
         NEW s \in Seq(StoreType), storeBuffer' = storeBuffer \o s, memory' = memory,
         calls' \in Nat, calls <= calls',
         \A k \in DOMAIN s : s[k].cell = "pendingSeekSamples" => s[k].value = calls',
         \A k \in DOMAIN s : s[k].cell = "seekPending" =>
            /\ s[k].value = calls'
            /\ \E j \in DOMAIN s : j < k /\ s[j].cell = "pendingSeekSamples"
  PROVE  ValuesInOrder' /\ FlagsFollow'
  <1> DEFINE b == storeBuffer
             n == Len(b)
             m == Len(s)
             c == b \o s
  <1>1. b \in Seq(StoreType) /\ calls \in Nat /\ memory["pendingSeekSamples"] \in Nat
    BY DEF TypeOK, Cell
  <1>2. /\ DOMAIN c = 1 .. (n + m) /\ DOMAIN b = 1 .. n /\ DOMAIN s = 1 .. m
        /\ n \in Nat /\ m \in Nat
        /\ \A i \in 1 .. n : c[i] = b[i]
        /\ \A k \in 1 .. m : c[n + k] = s[k]
    BY <1>1, Appended
  <1>3. \A i \in DOMAIN c : i \in 1 .. n \/ \E k \in 1 .. m : i = n + k
    BY <1>2, OldOrNew
  <1>4. /\ \A i \in 1 .. n : b[i].value \in Nat
        /\ \A k \in 1 .. m : s[k].value \in Nat
    BY <1>1, <1>2 DEF StoreType
  <1>5. storeBuffer' = c /\ memory' = memory
    OBVIOUS
  <1> HIDE DEF b, n, m, c
  <1>6. ValuesInOrder'
    <2>1. memory'["pendingSeekSamples"] <= calls'
      BY <1>1, <1>5 DEF ValuesInOrder
    <2>2. ASSUME NEW i \in DOMAIN c, c[i].cell = "pendingSeekSamples"
          PROVE  /\ memory["pendingSeekSamples"] <= c[i].value
                 /\ c[i].value <= calls'
                 /\ \A j \in DOMAIN c :
                      j < i /\ c[j].cell = "pendingSeekSamples" => c[j].value <= c[i].value
      <3>1. CASE i \in 1 .. n
        <4>1. \A j \in DOMAIN c : j < i => j \in 1 .. n
          BY <3>1, <1>2
        <4> QED BY <3>1, <4>1, <2>2, <1>1, <1>2, <1>4 DEF ValuesInOrder, b
      <3>2. ASSUME NEW k \in 1 .. m, i = n + k
            PROVE  /\ memory["pendingSeekSamples"] <= c[i].value
                   /\ c[i].value <= calls'
                   /\ \A j \in DOMAIN c :
                        j < i /\ c[j].cell = "pendingSeekSamples" => c[j].value <= c[i].value
        <4>1. c[i].value = calls'
          <5>1. c[i] = s[k] /\ k \in DOMAIN s
            BY <3>2, <1>2
          <5> QED BY <5>1, <2>2
        <4>2. ASSUME NEW j \in DOMAIN c, c[j].cell = "pendingSeekSamples"
              PROVE  c[j].value <= calls'
          <5>1. CASE j \in 1 .. n
            BY <5>1, <4>2, <1>1, <1>2, <1>4 DEF ValuesInOrder, b
          <5>2. ASSUME NEW l \in 1 .. m, j = n + l
                PROVE  c[j].value <= calls'
            <6>1. c[j] = s[l] /\ l \in DOMAIN s
              BY <5>2, <1>2
            <6>2. c[j].value = calls' /\ calls' \in Nat
              BY <6>1, <4>2
            <6> QED BY <6>2
          <5> QED BY <5>1, <5>2, <1>3
        <4>3. memory["pendingSeekSamples"] <= calls'
          BY <1>1 DEF ValuesInOrder
        <4> QED BY <4>1, <4>2, <4>3
      <3> QED BY <3>1, <3>2, <1>3
    <2> QED BY <2>1, <2>2, <1>5 DEF ValuesInOrder
  <1>7. FlagsFollow'
    <2>1. memory'["seekPending"] <= memory'["pendingSeekSamples"]
      BY <1>5 DEF FlagsFollow
    <2>2. ASSUME NEW i \in DOMAIN c, c[i].cell = "seekPending"
          PROVE  \/ c[i].value <= memory["pendingSeekSamples"]
                 \/ \E j \in DOMAIN c : /\ j < i /\ c[j].cell = "pendingSeekSamples"
                                        /\ c[i].value <= c[j].value
      <3>1. CASE i \in 1 .. n
        <4>1. CASE b[i].value <= memory["pendingSeekSamples"]
          BY <3>1, <4>1, <1>2
        <4>2. ASSUME NEW j \in 1 .. n, j < i, b[j].cell = "pendingSeekSamples",
                     b[i].value <= b[j].value
              PROVE  \E l \in DOMAIN c : /\ l < i /\ c[l].cell = "pendingSeekSamples"
                                         /\ c[i].value <= c[l].value
          <5>1. j \in DOMAIN c /\ c[j] = b[j] /\ c[i] = b[i]
            BY <3>1, <4>2, <1>2
          <5> QED BY <4>2, <5>1
        <4> QED BY <3>1, <4>1, <4>2, <2>2, <1>2 DEF FlagsFollow, b
      <3>2. ASSUME NEW k \in 1 .. m, i = n + k
            PROVE  \E j \in DOMAIN c : /\ j < i /\ c[j].cell = "pendingSeekSamples"
                                       /\ c[i].value <= c[j].value
        <4>1. s[k].cell = "seekPending" /\ c[i] = s[k]
          BY <3>2, <2>2, <1>2
        <4>2. PICK l \in 1 .. m : l < k /\ s[l].cell = "pendingSeekSamples"
          BY <4>1, <1>2
        <4>3. s[l].value = calls' /\ s[k].value = calls'
          BY <4>1, <4>2, <1>2
        <4>4. n + l \in DOMAIN c /\ n + l < i /\ c[n + l] = s[l]
          BY <3>2, <4>2, <1>2
        <4> QED BY <4>1, <4>2, <4>3, <4>4
      <3> QED BY <3>1, <3>2, <1>3
    <2> QED BY <2>1, <2>2, <1>5 DEF FlagsFollow
  <1> QED BY <1>6, <1>7

(* Tail shifts a sequence. *)
LEMMA Shifted ==
  ASSUME NEW S, NEW b \in Seq(S), b # <<>>
  PROVE  /\ Head(b) = b[1] /\ 1 \in DOMAIN b /\ b[1] \in S
         /\ DOMAIN b = 1 .. Len(b) /\ Len(b) \in Nat
         /\ Tail(b) \in Seq(S) /\ DOMAIN Tail(b) = 1 .. (Len(b) - 1)
         /\ \A i \in DOMAIN Tail(b) : i + 1 \in DOMAIN b /\ Tail(b)[i] = b[i + 1]
  OBVIOUS

(* The oldest store becomes visible: the order is kept, and the value of a *)
(* seek never goes back.                                                   *)
LEMMA PublishInOrder ==
  ASSUME TypeOK, ValuesInOrder, FlagsFollow, Publish
  PROVE  /\ ValuesInOrder' /\ FlagsFollow'
         /\ memory["pendingSeekSamples"] <= memory'["pendingSeekSamples"]
  <1> DEFINE b == storeBuffer
             t == Tail(b)
             h == b[1]
             v == memory["pendingSeekSamples"]
             w == memory'["pendingSeekSamples"]
  <1>1. b \in Seq(StoreType) /\ b # <<>> /\ storeBuffer' = t /\ calls' = calls
    BY DEF TypeOK, Publish, message
  <1>2. /\ 1 \in DOMAIN b /\ h \in StoreType
        /\ DOMAIN b = 1 .. Len(b) /\ Len(b) \in Nat
        /\ DOMAIN t = 1 .. (Len(b) - 1)
        /\ \A i \in DOMAIN t : i + 1 \in DOMAIN b /\ t[i] = b[i + 1]
        /\ Head(b) = h
    BY <1>1, Shifted
  <1>3. memory' = [memory EXCEPT ![h.cell] = h.value]
    BY <1>2 DEF Publish
  <1>4. v \in Nat /\ calls \in Nat /\ memory["seekPending"] \in Nat
        /\ \A i \in DOMAIN b : b[i].value \in Nat
    <2>1. \A i \in DOMAIN b : b[i] \in StoreType
      BY <1>1
    <2> QED BY <2>1 DEF TypeOK, Cell, StoreType
  <1>5. w = IF h.cell = "pendingSeekSamples" THEN h.value ELSE v
    BY <1>3 DEF TypeOK, Cell
  <1>6. memory'["seekPending"] = IF h.cell = "seekPending" THEN h.value
                                 ELSE memory["seekPending"]
    BY <1>3 DEF TypeOK, Cell
  <1>7. v <= w /\ w <= calls /\ w \in Nat
    BY <1>2, <1>4, <1>5 DEF ValuesInOrder
  <1>8. \A i \in DOMAIN b : b[i].cell = "pendingSeekSamples" => w <= b[i].value
    BY <1>2, <1>4, <1>5 DEF ValuesInOrder
  <1>9. ValuesInOrder'
    <2>1. ASSUME NEW i \in DOMAIN t, t[i].cell = "pendingSeekSamples"
          PROVE  /\ w <= t[i].value /\ t[i].value <= calls
                 /\ \A j \in DOMAIN t :
                      j < i /\ t[j].cell = "pendingSeekSamples" => t[j].value <= t[i].value
      <3>1. i + 1 \in DOMAIN b /\ t[i] = b[i + 1]
        BY <1>2
      <3>2. w <= t[i].value /\ t[i].value <= calls
        BY <3>1, <2>1, <1>8 DEF ValuesInOrder
      <3>3. ASSUME NEW j \in DOMAIN t, j < i, t[j].cell = "pendingSeekSamples"
            PROVE  t[j].value <= t[i].value
        <4>1. j + 1 \in DOMAIN b /\ t[j] = b[j + 1] /\ j + 1 < i + 1
          BY <3>3, <1>2
        <4> QED BY <3>1, <3>3, <4>1, <2>1 DEF ValuesInOrder
      <3> QED BY <3>2, <3>3
    <2> QED BY <2>1, <1>1, <1>7 DEF ValuesInOrder
  <1>10. FlagsFollow'
    <2>1. memory'["seekPending"] <= w
      <3>1. CASE h.cell = "seekPending"
        <4>1. ~ \E j \in DOMAIN b : j < 1
          BY <1>2
        <4> QED BY <3>1, <4>1, <1>2, <1>4, <1>5, <1>6 DEF FlagsFollow
      <3>2. CASE h.cell # "seekPending"
        BY <3>2, <1>4, <1>6, <1>7 DEF FlagsFollow
      <3> QED BY <3>1, <3>2
    <2>2. ASSUME NEW i \in DOMAIN t, t[i].cell = "seekPending"
          PROVE  \/ t[i].value <= w
                 \/ \E j \in DOMAIN t : /\ j < i /\ t[j].cell = "pendingSeekSamples"
                                        /\ t[i].value <= t[j].value
      <3>1. i + 1 \in DOMAIN b /\ t[i] = b[i + 1] /\ t[i].value \in Nat
        BY <1>2, <1>4
      <3>2. CASE t[i].value <= v
        BY <3>1, <3>2, <1>4, <1>7
      <3>3. ASSUME NEW j \in DOMAIN b, j < i + 1, b[j].cell = "pendingSeekSamples",
                   t[i].value <= b[j].value
            PROVE  \/ t[i].value <= w
                   \/ \E l \in DOMAIN t : /\ l < i /\ t[l].cell = "pendingSeekSamples"
                                          /\ t[i].value <= t[l].value
        <4>1. CASE j = 1
          BY <3>3, <4>1, <1>5
        <4>2. CASE j # 1
          <5>1. j - 1 \in DOMAIN t /\ j - 1 < i /\ j = (j - 1) + 1
            BY <3>3, <4>2, <1>2
          <5>2. t[j - 1] = b[j]
            BY <5>1, <1>2
          <5> QED BY <5>1, <5>2, <3>3
        <4> QED BY <4>1, <4>2
      <3> QED BY <3>1, <3>2, <3>3, <2>2 DEF FlagsFollow
    <2> QED BY <2>1, <2>2, <1>1 DEF FlagsFollow
  <1> QED BY <1>7, <1>9, <1>10

(* The audio thread may clear the flag; it leaves the order alone. *)
LEMMA AudioKeepsOrder ==
  ASSUME TypeOK, ValuesInOrder, FlagsFollow, AudioThread
  PROVE  /\ ValuesInOrder' /\ FlagsFollow'
         /\ memory'["pendingSeekSamples"] = memory["pendingSeekSamples"]
  <1>1. storeBuffer' = storeBuffer /\ calls' = calls
    BY DEF AudioThread, StartBlock, ReadSeekPending, ApplySeek, ClearSeekPending, ReadBuffer,
           StopForNoAudio, ReadPlaying, ReadLoopSlot, CopyIn, CopyOut, Render, StopAtEnd,
           Audio, message
  <1>2. \/ memory' = memory
        \/ memory' = [memory EXCEPT !["seekPending"] = None]
        \/ memory' = [memory EXCEPT !["playing"] = None]
    BY DEF AudioThread, StartBlock, ReadSeekPending, ApplySeek, ClearSeekPending, ReadBuffer,
           StopForNoAudio, ReadPlaying, ReadLoopSlot, CopyIn, CopyOut, Render, StopAtEnd
  <1>3. /\ memory'["pendingSeekSamples"] = memory["pendingSeekSamples"]
        /\ memory'["seekPending"] \in {None, memory["seekPending"]}
        /\ memory["pendingSeekSamples"] \in Nat
    BY <1>2 DEF TypeOK, Cell
  <1>4. memory'["seekPending"] <= memory'["pendingSeekSamples"]
    BY <1>3 DEF FlagsFollow, None
  <1> QED BY <1>1, <1>3, <1>4 DEF ValuesInOrder, FlagsFollow

(* Calls other than seeks and loads store nothing that belongs to a seek.  *)
LEMMA MessageKeepsOrder ==
  ASSUME TypeOK, ValuesInOrder, FlagsFollow, MessageThread
  PROVE  /\ ValuesInOrder' /\ FlagsFollow'
         /\ memory'["pendingSeekSamples"] = memory["pendingSeekSamples"]
  <1> SUFFICES ValuesInOrder' /\ FlagsFollow' /\ memory' = memory
    OBVIOUS
  <1>1. CASE Load
    <2>1. calls \in Nat /\ calls' = calls + 1 /\ memory' = memory
          /\ storeBuffer' = storeBuffer
      BY <1>1 DEF TypeOK, Load, Call
    <2> DEFINE s == <<>>
    <2>2. s \in Seq(StoreType) /\ DOMAIN s = {}
      OBVIOUS
    <2>3. storeBuffer' = storeBuffer \o s
      BY <2>1, NothingAppended DEF TypeOK
    <2>4. /\ calls' \in Nat /\ calls <= calls' /\ memory' = memory
          /\ \A k \in DOMAIN s : FALSE
      BY <2>1, <2>2
    <2> HIDE DEF s
    <2> QED BY <2>2, <2>3, <2>4, IssueInOrder
  <1>2. CASE LoadStore
    <2> DEFINE s == LoadStores(calls, loading)
    <2>1. calls \in Nat /\ calls' = calls /\ memory' = memory /\ storeBuffer' = storeBuffer \o s
      BY <1>2 DEF TypeOK, LoadStore, Issue
    <2>2. s \in Seq(StoreType)
      BY LoadStoresTyped DEF TypeOK
    <2>3. /\ DOMAIN s = 1 .. 6
          /\ s[1] = Store("pendingSeekSamples", calls) /\ s[2] = Store("seekPending", calls)
          /\ s[3] = Store(InCell(InactiveSlot), calls)
          /\ s[4] = Store(OutCell(InactiveSlot), calls)
          /\ s[5] = Store("activeLoopSlot", InactiveSlot)
          /\ s[6] = Store("activeBuffer", loading)
      BY LoadStoresShape
    <2>4. \A k \in DOMAIN s : s[k].cell = "pendingSeekSamples" => s[k].value = calls
      BY <2>3 DEF Store, InCell, OutCell
    <2>5. \A k \in DOMAIN s : s[k].cell = "seekPending" => k = 2
      BY <2>3 DEF Store, InCell, OutCell
    <2>6. 1 \in DOMAIN s /\ s[1].cell = "pendingSeekSamples" /\ s[2].value = calls
      BY <2>3 DEF Store
    <2> HIDE DEF s
    <2>7. /\ \A k \in DOMAIN s : s[k].cell = "pendingSeekSamples" => s[k].value = calls'
          /\ \A k \in DOMAIN s : s[k].cell = "seekPending" =>
                /\ s[k].value = calls'
                /\ \E j \in DOMAIN s : j < k /\ s[j].cell = "pendingSeekSamples"
      BY <2>1, <2>4, <2>5, <2>6
    <2>8. calls' \in Nat /\ calls <= calls'
      BY <2>1
    <2> QED BY <2>1, <2>2, <2>7, <2>8, IssueInOrder
  <1>3. CASE LoadRetire
    BY <1>3 DEF LoadRetire, ValuesInOrder, FlagsFollow
  <1>4. ASSUME NEW shouldPlay \in BOOLEAN, SetPlaying(shouldPlay)
        PROVE  ValuesInOrder' /\ FlagsFollow' /\ memory' = memory
    <2> DEFINE n == IF shouldPlay THEN calls' ELSE None
               s == <<Store("playing", n)>>
    <2>1. Call("setPlaying") /\ memory' = memory /\ storeBuffer' = storeBuffer \o s
      BY <1>4 DEF SetPlaying, Issue
    <2>2. calls \in Nat /\ calls' = calls + 1
      BY <2>1 DEF Call, TypeOK
    <2>3. n \in Nat
      BY <2>2 DEF None
    <2>4. s \in Seq(StoreType)
      BY <2>3, StoreTyped DEF TypeOK, Cell
    <2>5. \A k \in DOMAIN s : s[k].cell = "playing"
      BY DEF Store
    <2> HIDE DEF s
    <2> QED BY <2>1, <2>2, <2>4, <2>5, IssueInOrder
  <1>5. CASE SetLoop
    <2> DEFINE s == LoopStores(calls')
    <2>1. calls \in Nat /\ calls' = calls + 1 /\ memory' = memory
          /\ storeBuffer' = storeBuffer \o s
      BY <1>5 DEF TypeOK, SetLoop, Issue, Call
    <2>2. s \in Seq(StoreType)
      BY <2>1, LoopStoresTyped DEF TypeOK
    <2>3. \A k \in DOMAIN s : s[k].cell \notin {"pendingSeekSamples", "seekPending"}
      BY DEF LoopStores, Store, InCell, OutCell
    <2> HIDE DEF s
    <2> QED BY <2>1, <2>2, <2>3, IssueInOrder
  <1>6. CASE RequestSeek
    <2> DEFINE s == SeekStores(calls')
    <2>1. calls \in Nat /\ calls' = calls + 1 /\ memory' = memory
          /\ storeBuffer' = storeBuffer \o s
      BY <1>6 DEF TypeOK, RequestSeek, Issue, Call
    <2>2. s \in Seq(StoreType)
      BY <2>1, SeekStoresTyped DEF TypeOK
    <2>3. \A k \in DOMAIN s : s[k].value = calls'
      BY DEF SeekStores, Store
    <2>4. \A k \in DOMAIN s : s[k].cell = "seekPending" => k = 2
      BY DEF SeekStores, Store
    <2>5. 1 \in DOMAIN s /\ s[1].cell = "pendingSeekSamples"
      BY DEF SeekStores, Store
    <2> HIDE DEF s
    <2> QED BY <2>1, <2>2, <2>3, <2>4, <2>5, IssueInOrder
  <1> QED BY <1>1, <1>2, <1>3, <1>4, <1>5, <1>6 DEF MessageThread

(* Every step keeps the invariant of seeks. *)
LEMMA SeekStep == SeekInv /\ [Next]_vars => SeekInv'
  <1> SUFFICES ASSUME SeekInv, [Next]_vars PROVE SeekInv'
    OBVIOUS
  <1>1. TypeOK /\ ValuesInOrder /\ FlagsFollow /\ SeekNotOlderThanFlag
    BY DEF SeekInv
  <1>2. TypeOK'
    BY <1>1, TypeStep
  <1>3. memory["pendingSeekSamples"] \in Nat /\ memory["seekPending"] \in Nat
        /\ memory'["pendingSeekSamples"] \in Nat /\ audio.seek \in Nat
    BY <1>1, <1>2 DEF TypeOK, Cell
  <1>4. CASE Publish
    <2>1. /\ ValuesInOrder' /\ FlagsFollow'
          /\ memory["pendingSeekSamples"] <= memory'["pendingSeekSamples"]
      BY <1>1, <1>4, PublishInOrder
    <2>2. audioPc' = audioPc /\ audio' = audio
      BY <1>4 DEF Publish, rendering
    <2>3. SeekNotOlderThanFlag'
      BY <1>1, <1>3, <2>1, <2>2 DEF SeekNotOlderThanFlag
    <2> QED BY <1>2, <2>1, <2>3 DEF SeekInv
  <1>5. CASE MessageThread
    <2>1. /\ ValuesInOrder' /\ FlagsFollow'
          /\ memory'["pendingSeekSamples"] = memory["pendingSeekSamples"]
      BY <1>1, <1>5, MessageKeepsOrder
    <2>2. audioPc' = audioPc /\ audio' = audio
      BY <1>5 DEF MessageThread, Load, LoadStore, LoadRetire, SetPlaying, SetLoop, RequestSeek,
                  rendering
    <2>3. SeekNotOlderThanFlag'
      BY <1>1, <2>1, <2>2 DEF SeekNotOlderThanFlag
    <2> QED BY <1>2, <2>1, <2>3 DEF SeekInv
  <1>6. CASE AudioThread
    <2>1. /\ ValuesInOrder' /\ FlagsFollow'
          /\ memory'["pendingSeekSamples"] = memory["pendingSeekSamples"]
      BY <1>1, <1>6, AudioKeepsOrder
    <2>2. SeekNotOlderThanFlag'
      <3>1. CASE ReadSeekPending
        <4>1. audio'.seek = memory["seekPending"]
          BY <3>1, <1>1 DEF ReadSeekPending, TypeOK
        <4> QED BY <4>1, <1>1, <2>1 DEF SeekNotOlderThanFlag, FlagsFollow
      <3>2. CASE ~ReadSeekPending
        <4>1. audioPc' # "seek"
          BY <1>6, <3>2 DEF AudioThread, StartBlock, ApplySeek, ClearSeekPending, ReadBuffer,
             StopForNoAudio, ReadPlaying, ReadLoopSlot, CopyIn, CopyOut, Render, StopAtEnd,
             Audio, BlockDone
        <4> QED BY <4>1 DEF SeekNotOlderThanFlag
      <3> QED BY <3>1, <3>2
    <2> QED BY <1>2, <2>1, <2>2 DEF SeekInv
  <1>7. CASE UNCHANGED vars
    BY <1>1, <1>2, <1>7 DEF vars, message, rendering, SeekInv, ValuesInOrder, FlagsFollow,
                            SeekNotOlderThanFlag
  <1> QED BY <1>4, <1>5, <1>6, <1>7 DEF Next

(* Initially nothing is asked for. *)
LEMMA SeekInit == Init => SeekInv
  <1> SUFFICES ASSUME Init PROVE SeekInv
    OBVIOUS
  <1>1. TypeOK
    BY DEF Init, TypeOK, None, NothingHeld, AudioPc, Cell
  <1>2. DOMAIN storeBuffer = {} /\ memory["pendingSeekSamples"] = 0 /\ memory["seekPending"] = 0
        /\ calls = 0 /\ audioPc = "idle"
    BY DEF Init, Cell
  <1> QED BY <1>1, <1>2 DEF SeekInv, ValuesInOrder, FlagsFollow, SeekNotOlderThanFlag

(* A raised flag never makes the audio thread apply an older position,     *)
(* however long stores are delayed.                                        *)
THEOREM SeekOrder == Spec => []SeekNotOlderThanFlag
  <1>1. SeekInv => SeekNotOlderThanFlag
    BY DEF SeekInv
  <1> QED BY <1>1, SeekInit, SeekStep, PTL DEF Spec

-----------------------------------------------------------------------------
(* Buffers.                                                                *)

(* The buffer most recently stored. *)
Latest == IF messagePc = "retire" THEN loading ELSE current

(* Stores are no older than the lag; what load() read of the generation is *)
(* not ahead of it.                                                        *)
LagBounded ==
    /\ seen <= renderGeneration
    /\ \A i \in DOMAIN storeBuffer :
         storeBuffer[i].at <= renderGeneration
           /\ renderGeneration - storeBuffer[i].at <= PublicationLag

(* Where a buffer can be seen: now (k = 0), or once the first k stores of  *)
(* the store buffer are.                                                   *)
Visible(p, k) ==
    \/ k = 0 /\ memory["activeBuffer"] = p
    \/ /\ k \in DOMAIN storeBuffer
       /\ storeBuffer[k].cell = "activeBuffer" /\ storeBuffer[k].value = p

(* It is the latest, or a store of its successor is still to come then and *)
(* its entry in the retire list, once it has one, is no older than that.   *)
Covered(p, k) ==
    \/ p \in {None, Latest}
    \/ \E j \in DOMAIN storeBuffer :
         /\ j > k /\ storeBuffer[j].cell = "activeBuffer"
         /\ \/ messagePc = "retire" /\ p = current
            \/ \E entry \in retireList :
                 entry.buffer = p /\ storeBuffer[j].at <= entry.generation

BuffersCovered == \A p \in Nat, k \in Nat : Visible(p, k) => Covered(p, k)

(* What the audio thread took in this block was retired at most the lag    *)
(* before it.                                                              *)
Held(p) ==
    \/ p = Latest
    \/ messagePc = "retire" /\ p = current
    \/ \E entry \in retireList :
         entry.buffer = p /\ renderGeneration - entry.generation <= PublicationLag

BufferHeld == UsesBuffer => audio.buffer # None /\ Held(audio.buffer)

BufferInv == TypeOK /\ LagBounded /\ BuffersCovered /\ BufferHeld

(* A cover stays while the stores under way and the lists do. *)
LEMMA CoverKept ==
  ASSUME NEW p \in Nat, NEW k \in Nat, Covered(p, k),
         \A j \in DOMAIN storeBuffer : j \in DOMAIN storeBuffer' /\ storeBuffer'[j] = storeBuffer[j],
         (messagePc = "retire") = (messagePc' = "retire"),
         Latest' = Latest, current' = current, retireList' = retireList
  PROVE  Covered(p, k)'
  BY DEF Covered

(* Stores just issued are within the lag, like those before them. *)
LEMMA IssueWithinLag ==
  ASSUME TypeOK, LagBounded,
         NEW s \in Seq(StoreType), storeBuffer' = storeBuffer \o s,
         \A k \in DOMAIN s : s[k].at = renderGeneration,
         renderGeneration' = renderGeneration, seen' \in {0, seen, renderGeneration}
  PROVE  LagBounded'
  <1> DEFINE b == storeBuffer
             n == Len(b)
             m == Len(s)
             c == b \o s
  <1>1. b \in Seq(StoreType) /\ renderGeneration \in Nat /\ seen \in Nat
    BY DEF TypeOK
  <1>2. /\ DOMAIN c = 1 .. (n + m) /\ DOMAIN b = 1 .. n /\ DOMAIN s = 1 .. m
        /\ n \in Nat /\ m \in Nat
        /\ \A i \in 1 .. n : c[i] = b[i]
        /\ \A k \in 1 .. m : c[n + k] = s[k]
    BY <1>1, Appended
  <1>3. \A i \in DOMAIN c : i \in 1 .. n \/ \E k \in 1 .. m : i = n + k
    BY <1>2, OldOrNew
  <1>4. storeBuffer' = c
    OBVIOUS
  <1> HIDE DEF n, m, c
  <1>5. ASSUME NEW i \in DOMAIN c
        PROVE  c[i].at <= renderGeneration /\ renderGeneration - c[i].at <= PublicationLag
    <2>1. CASE i \in 1 .. n
      BY <2>1, <1>2 DEF LagBounded
    <2>2. CASE \E k \in 1 .. m : i = n + k
      <3>1. PICK k \in 1 .. m : i = n + k
        BY <2>2
      <3>2. c[i] = s[k] /\ k \in DOMAIN s
        BY <3>1, <1>2
      <3>3. c[i].at = renderGeneration
        BY <3>2
      <3> QED BY <3>3, <1>1, HandoffAssumption
    <2> QED BY <2>1, <2>2, <1>3
  <1>6. seen' <= renderGeneration'
    BY <1>1 DEF LagBounded
  <1> QED BY <1>4, <1>5, <1>6 DEF LagBounded

(* Stores that are not of a buffer disturb no cover. *)
LEMMA IssueKeepsCover ==
  ASSUME TypeOK, BuffersCovered,
         NEW s \in Seq(StoreType), storeBuffer' = storeBuffer \o s,
         \A k \in DOMAIN s : s[k].cell # "activeBuffer",
         memory' = memory, (messagePc = "retire") = (messagePc' = "retire"),
         Latest' = Latest, current' = current, retireList' = retireList
  PROVE  BuffersCovered'
  <1> DEFINE b == storeBuffer
             n == Len(b)
             m == Len(s)
             c == b \o s
  <1>1. b \in Seq(StoreType)
    BY DEF TypeOK
  <1>2. /\ DOMAIN c = 1 .. (n + m) /\ DOMAIN b = 1 .. n /\ DOMAIN s = 1 .. m
        /\ n \in Nat /\ m \in Nat
        /\ \A i \in 1 .. n : c[i] = b[i]
        /\ \A k \in 1 .. m : c[n + k] = s[k]
    BY <1>1, Appended
  <1>3. \A i \in DOMAIN c : i \in 1 .. n \/ \E k \in 1 .. m : i = n + k
    BY <1>2, OldOrNew
  <1>4. storeBuffer' = c
    OBVIOUS
  <1>5. \A j \in DOMAIN b : j \in DOMAIN c /\ c[j] = b[j]
    BY <1>2
  <1> HIDE DEF n, m, c
  <1> SUFFICES ASSUME NEW p \in Nat, NEW k \in Nat, Visible(p, k)' PROVE Covered(p, k)'
    BY DEF BuffersCovered
  <1>6. Visible(p, k)
    <2>1. CASE k = 0 /\ memory'["activeBuffer"] = p
      BY <2>1 DEF Visible
    <2>2. CASE k \in DOMAIN c /\ c[k].cell = "activeBuffer" /\ c[k].value = p
      <3>1. ASSUME NEW l \in 1 .. m, k = n + l PROVE FALSE
        <4>1. c[k] = s[l] /\ l \in DOMAIN s
          BY <3>1, <1>2
        <4> QED BY <4>1, <2>2
      <3>2. k \in DOMAIN b /\ c[k] = b[k]
        BY <3>1, <2>2, <1>2, <1>3
      <3> QED BY <3>2, <2>2 DEF Visible
    <2> QED BY <2>1, <2>2, <1>4 DEF Visible
  <1>7. Covered(p, k)
    BY <1>6 DEF BuffersCovered
  <1> QED BY <1>4, <1>5, <1>7, CoverKept

(* A load: the old buffer is covered by the store of the new one, and      *)
(* nothing that is still covered is old enough to be freed.                *)
LEMMA LoadStoreKeepsCover ==
  ASSUME PublicationLag <= RetireMargin,
         TypeOK, LagBounded, BuffersCovered, LoadStore
  PROVE  LagBounded' /\ BuffersCovered'
  <1> DEFINE b == storeBuffer
             n == Len(b)
             s == LoadStores(calls, loading)
             c == b \o s
  <1>1. /\ b \in Seq(StoreType) /\ renderGeneration \in Nat /\ seen \in Nat
        /\ calls \in Nat /\ loading \in Nat /\ slot \in {0, 1}
    BY DEF TypeOK
  <1>2. /\ storeBuffer' = c /\ memory' = memory /\ renderGeneration' = renderGeneration
        /\ seen' = seen /\ current' = current /\ loading' = loading
        /\ messagePc = "store" /\ messagePc' = "retire"
        /\ retireList' = {entry \in retireList : ~Stale(entry)}
    BY DEF LoadStore, Issue
  <1>3. s \in Seq(StoreType)
    BY <1>1, LoadStoresTyped
  <1>4. /\ DOMAIN s = 1 .. 6
        /\ s[1] = Store("pendingSeekSamples", calls) /\ s[2] = Store("seekPending", calls)
        /\ s[3] = Store(InCell(InactiveSlot), calls)
        /\ s[4] = Store(OutCell(InactiveSlot), calls)
        /\ s[5] = Store("activeLoopSlot", InactiveSlot)
        /\ s[6] = Store("activeBuffer", loading)
    BY LoadStoresShape
  <1>5. /\ \A k \in DOMAIN s : s[k].at = renderGeneration
        /\ \A k \in DOMAIN s : s[k].cell = "activeBuffer" => k = 6 /\ s[k].value = loading
        /\ s[6].cell = "activeBuffer"
    BY <1>4 DEF Store, InCell, OutCell
  <1>6. /\ DOMAIN c = 1 .. (n + 6) /\ DOMAIN b = 1 .. n /\ n \in Nat
        /\ \A i \in 1 .. n : c[i] = b[i]
        /\ \A k \in 1 .. 6 : c[n + k] = s[k]
    <2>1. Len(s) = 6
      BY <1>3, <1>4
    <2> HIDE DEF s
    <2>2. /\ DOMAIN (b \o s) = 1 .. (Len(b) + Len(s))
          /\ DOMAIN b = 1 .. Len(b) /\ Len(b) \in Nat
          /\ \A i \in 1 .. Len(b) : (b \o s)[i] = b[i]
          /\ \A k \in 1 .. Len(s) : (b \o s)[Len(b) + k] = s[k]
      BY <1>1, <1>3, Appended
    <2> QED BY <2>1, <2>2
  <1> HIDE DEF s, n, c
  <1>7. LagBounded'
    BY <1>2, <1>3, <1>5, IssueWithinLag DEF c
  <1>8. BuffersCovered'
    <2> SUFFICES ASSUME NEW p \in Nat, NEW k \in Nat, Visible(p, k)' PROVE Covered(p, k)'
      BY DEF BuffersCovered
    <2>1. n + 6 \in DOMAIN c /\ c[n + 6].cell = "activeBuffer"
      <3>1. n + 6 \in 1 .. (n + 6) /\ 6 \in 1 .. 6
        BY <1>6
      <3>2. c[n + 6] = s[6]
        BY <1>6, <3>1
      <3> QED BY <1>5, <1>6, <3>1, <3>2
    <2>2. ASSUME Visible(p, k), k < n + 6 PROVE Covered(p, k)'
      <3>1. Covered(p, k)
        BY <2>2 DEF BuffersCovered
      <3>2. CASE p = None
        BY <3>2 DEF Covered
      <3>3. CASE p = current
        BY <3>3, <2>1, <2>2, <1>2 DEF Covered
      <3>4. ASSUME NEW j \in DOMAIN b, j > k, b[j].cell = "activeBuffer",
                   NEW entry \in retireList, entry.buffer = p, b[j].at <= entry.generation
            PROVE  Covered(p, k)'
        <4>1. j \in DOMAIN c /\ c[j] = b[j]
          BY <1>6
        <4>2. b[j] \in StoreType /\ entry \in [generation : Nat, buffer : Nat]
          BY <1>1 DEF TypeOK
        <4>3. renderGeneration - b[j].at <= PublicationLag /\ seen <= renderGeneration
          BY DEF LagBounded
        <4>4. ~Stale(entry)
          BY <4>2, <4>3, <3>4, <1>1, HandoffAssumption DEF Stale, StoreType
        <4>5. entry \in retireList'
          BY <4>4, <1>2
        <4> QED BY <4>1, <4>5, <3>4, <1>2 DEF Covered
      <3> QED BY <3>1, <3>2, <3>3, <3>4, <1>2 DEF Covered, Latest
    <2>3. CASE k = 0 /\ memory'["activeBuffer"] = p
      BY <2>3, <2>2, <1>2, <1>6 DEF Visible
    <2>4. CASE k \in DOMAIN c /\ c[k].cell = "activeBuffer" /\ c[k].value = p
      <3>1. CASE k \in 1 .. n
        <4>1. k \in DOMAIN b /\ c[k] = b[k] /\ k < n + 6
          BY <3>1, <1>6
        <4> QED BY <4>1, <2>4, <2>2 DEF Visible
      <3>2. ASSUME NEW l \in 1 .. 6, k = n + l PROVE Covered(p, k)'
        <4>1. c[k] = s[l]
          BY <3>2, <1>6
        <4>2. p = loading
          BY <4>1, <2>4, <1>4, <1>5
        <4> QED BY <4>2, <1>2 DEF Covered, Latest
      <3> QED BY <3>1, <3>2, <2>4, <1>6, OldOrNew
    <2> QED BY <2>3, <2>4, <1>2 DEF Visible
  <1> QED BY <1>7, <1>8

(* The previous buffer goes on the list with a generation not older than   *)
(* any store under way.                                                    *)
LEMMA LoadRetireKeepsCover ==
  ASSUME TypeOK, LagBounded, BuffersCovered, LoadRetire
  PROVE  LagBounded' /\ BuffersCovered'
  <1>1. /\ storeBuffer' = storeBuffer /\ memory' = memory
        /\ renderGeneration' = renderGeneration /\ renderGeneration \in Nat /\ seen' = 0
        /\ messagePc = "retire" /\ messagePc' = "idle" /\ current' = loading
        /\ retireList \subseteq retireList'
        /\ current # None =>
             [generation |-> renderGeneration, buffer |-> current] \in retireList'
    BY DEF TypeOK, LoadRetire
  <1>2. LagBounded'
    BY <1>1 DEF LagBounded
  <1> SUFFICES ASSUME NEW p \in Nat, NEW k \in Nat, Visible(p, k)' PROVE Covered(p, k)'
    BY <1>2 DEF BuffersCovered
  <1>3. Covered(p, k)
    BY <1>1 DEF Visible, BuffersCovered
  <1>4. Latest' = Latest
    BY <1>1 DEF Latest
  <1>5. CASE p \in {None, Latest}
    BY <1>4, <1>5 DEF Covered
  <1>6. ASSUME NEW j \in DOMAIN storeBuffer, j > k, storeBuffer[j].cell = "activeBuffer",
               p # None, p = current
        PROVE  Covered(p, k)'
    <2>1. storeBuffer[j].at <= renderGeneration
      BY DEF LagBounded
    <2>2. \E entry \in retireList' : entry.buffer = p /\ storeBuffer[j].at <= entry.generation
      BY <2>1, <1>1, <1>6
    <2> QED BY <2>2, <1>1, <1>6 DEF Covered
  <1>7. ASSUME NEW j \in DOMAIN storeBuffer, j > k, storeBuffer[j].cell = "activeBuffer",
               NEW entry \in retireList, entry.buffer = p,
               storeBuffer[j].at <= entry.generation
        PROVE  Covered(p, k)'
    BY <1>1, <1>7 DEF Covered
  <1> QED BY <1>3, <1>5, <1>6, <1>7 DEF Covered

(* The other calls store nothing that belongs to a buffer.                 *)
LEMMA MessageKeepsCover ==
  ASSUME PublicationLag <= RetireMargin,
         TypeOK, LagBounded, BuffersCovered, MessageThread
  PROVE  LagBounded' /\ BuffersCovered'
  <1>1. CASE Load
    <2> DEFINE s == <<>>
    <2>1. /\ memory' = memory /\ renderGeneration' = renderGeneration
          /\ seen' = renderGeneration /\ current' = current /\ retireList' = retireList
          /\ messagePc = "idle" /\ messagePc' = "store"
      BY <1>1 DEF Load, Call
    <2>2. s \in Seq(StoreType) /\ \A k \in DOMAIN s : FALSE
      OBVIOUS
    <2>3. storeBuffer' = storeBuffer \o s
      BY <1>1, NothingAppended DEF TypeOK, Load
    <2>4. Latest' = Latest
      BY <2>1 DEF Latest
    <2> HIDE DEF s
    <2>5. LagBounded'
      BY <2>1, <2>2, <2>3, IssueWithinLag
    <2>6. BuffersCovered'
      BY <2>1, <2>2, <2>3, <2>4, IssueKeepsCover
    <2> QED BY <2>5, <2>6
  <1>2. CASE LoadStore
    BY <1>2, LoadStoreKeepsCover
  <1>3. CASE LoadRetire
    BY <1>3, LoadRetireKeepsCover
  <1>4. ASSUME NEW s \in Seq(StoreType), storeBuffer' = storeBuffer \o s,
               \A k \in DOMAIN s : s[k].cell # "activeBuffer" /\ s[k].at = renderGeneration,
               UNCHANGED <<memory, renderGeneration, messagePc, current, loading, seen,
                           retireList>>
        PROVE  LagBounded' /\ BuffersCovered'
    <2>1. Latest' = Latest
      BY <1>4 DEF Latest
    <2>2. LagBounded'
      BY <1>4, IssueWithinLag
    <2>3. BuffersCovered'
      BY <1>4, <2>1, IssueKeepsCover
    <2> QED BY <2>2, <2>3
  <1>5. ASSUME NEW shouldPlay \in BOOLEAN, SetPlaying(shouldPlay)
        PROVE  LagBounded' /\ BuffersCovered'
    <2> DEFINE n == IF shouldPlay THEN calls' ELSE None
               s == <<Store("playing", n)>>
    <2>1. /\ Call("setPlaying") /\ storeBuffer' = storeBuffer \o s
          /\ UNCHANGED <<memory, renderGeneration, messagePc, current, loading, seen, retireList>>
      BY <1>5 DEF SetPlaying, Issue
    <2>2. n \in Nat
      BY <2>1 DEF None, Call, TypeOK
    <2>3. s \in Seq(StoreType)
      BY <2>2, StoreTyped DEF TypeOK, Cell
    <2>4. \A k \in DOMAIN s : s[k].cell # "activeBuffer" /\ s[k].at = renderGeneration
      BY DEF Store
    <2> HIDE DEF s
    <2> QED BY <2>1, <2>3, <2>4, <1>4
  <1>6. CASE SetLoop
    <2> DEFINE s == LoopStores(calls')
    <2>1. /\ storeBuffer' = storeBuffer \o s
          /\ UNCHANGED <<memory, renderGeneration, messagePc, current, loading, seen, retireList>>
      BY <1>6 DEF SetLoop, Issue, Call
    <2>2. s \in Seq(StoreType)
      BY <1>6, LoopStoresTyped DEF TypeOK, SetLoop, Call
    <2>3. \A k \in DOMAIN s : s[k].cell # "activeBuffer" /\ s[k].at = renderGeneration
      BY DEF LoopStores, Store, InCell, OutCell
    <2> HIDE DEF s
    <2> QED BY <2>1, <2>2, <2>3, <1>4
  <1>7. CASE RequestSeek
    <2> DEFINE s == SeekStores(calls')
    <2>1. /\ storeBuffer' = storeBuffer \o s /\ Call("requestSeek")
          /\ UNCHANGED <<memory, renderGeneration, messagePc, current, loading, seen, retireList>>
      BY <1>7 DEF RequestSeek, Issue
    <2>2. s \in Seq(StoreType)
      BY <2>1, SeekStoresTyped DEF TypeOK, Call
    <2>3. \A k \in DOMAIN s : s[k].cell # "activeBuffer" /\ s[k].at = renderGeneration
      BY DEF SeekStores, Store
    <2> HIDE DEF s
    <2> QED BY <2>1, <2>2, <2>3, <1>4
  <1> QED BY <1>1, <1>2, <1>3, <1>5, <1>6, <1>7 DEF MessageThread

(* When a buffer's store is seen, the stores that cover it are still to    *)
(* come.                                                                   *)
LEMMA PublishKeepsCover ==
  ASSUME TypeOK, LagBounded, BuffersCovered, Publish
  PROVE  LagBounded' /\ BuffersCovered'
  <1> DEFINE b == storeBuffer
             t == Tail(b)
             h == b[1]
  <1>1. /\ b \in Seq(StoreType) /\ b # <<>> /\ storeBuffer' = t
        /\ UNCHANGED <<renderGeneration, messagePc, current, loading, seen, retireList>>
    BY DEF TypeOK, Publish, message
  <1>2. /\ 1 \in DOMAIN b /\ h \in StoreType
        /\ DOMAIN b = 1 .. Len(b) /\ Len(b) \in Nat
        /\ DOMAIN t = 1 .. (Len(b) - 1)
        /\ \A i \in DOMAIN t : i + 1 \in DOMAIN b /\ t[i] = b[i + 1]
        /\ Head(b) = h
    BY <1>1, Shifted
  <1>3. memory' = [memory EXCEPT ![h.cell] = h.value]
    BY <1>2 DEF Publish
  <1>4. LagBounded'
    BY <1>1, <1>2 DEF LagBounded
  <1>5. Latest' = Latest
    BY <1>1 DEF Latest
  <1>6. ASSUME NEW p \in Nat, NEW k \in Nat, NEW l \in Nat, Covered(p, l),
               \A j \in DOMAIN b : j > l /\ b[j].cell = "activeBuffer"
                 => j - 1 \in DOMAIN t /\ j - 1 > k /\ t[j - 1] = b[j]
        PROVE  Covered(p, k)'
    BY <1>1, <1>5, <1>6 DEF Covered
  <1>7. \A j \in DOMAIN b : j > 1 => j - 1 \in DOMAIN t /\ t[j - 1] = b[j]
    <2> SUFFICES ASSUME NEW j \in DOMAIN b, j > 1
                 PROVE  j - 1 \in DOMAIN t /\ t[j - 1] = b[j]
      OBVIOUS
    <2>1. j - 1 \in DOMAIN t /\ (j - 1) + 1 = j
      BY <1>2
    <2> QED BY <2>1, <1>2
  <1> SUFFICES ASSUME NEW p \in Nat, NEW k \in Nat, Visible(p, k)' PROVE Covered(p, k)'
    BY <1>4 DEF BuffersCovered
  <1>8. CASE k = 0 /\ memory'["activeBuffer"] = p /\ h.cell = "activeBuffer"
    <2>1. h.value = p
      BY <1>3, <1>8 DEF TypeOK, Cell
    <2>2. Covered(p, 1)
      BY <2>1, <1>2, <1>8 DEF Visible, BuffersCovered
    <2>3. \A j \in DOMAIN b : j > 1 => j - 1 > 0
      BY <1>2
    <2> QED BY <2>2, <2>3, <1>6, <1>7, <1>8
  <1>9. CASE k = 0 /\ memory'["activeBuffer"] = p /\ h.cell # "activeBuffer"
    <2>1. memory["activeBuffer"] = p
      BY <1>3, <1>9 DEF TypeOK, Cell
    <2>2. Covered(p, 0)
      BY <2>1 DEF Visible, BuffersCovered
    <2>3. \A j \in DOMAIN b : b[j].cell = "activeBuffer" => j > 1 /\ j - 1 > 0
      BY <1>2, <1>9
    <2> QED BY <2>2, <2>3, <1>6, <1>7, <1>9
  <1>10. CASE k \in DOMAIN t /\ t[k].cell = "activeBuffer" /\ t[k].value = p
    <2>1. k + 1 \in DOMAIN b /\ b[k + 1] = t[k]
      BY <1>2, <1>10
    <2>2. Covered(p, k + 1)
      BY <2>1, <1>10 DEF Visible, BuffersCovered
    <2>3. \A j \in DOMAIN b : j > k + 1 => j > 1 /\ j - 1 > k
      BY <1>2
    <2> QED BY <2>2, <2>3, <1>6, <1>7
  <1> QED BY <1>1, <1>8, <1>9, <1>10 DEF Visible

(* The audio thread stores no buffer, and begins no block past the lag.    *)
LEMMA AudioKeepsCover ==
  ASSUME TypeOK, LagBounded, BuffersCovered, AudioThread
  PROVE  LagBounded' /\ BuffersCovered'
  <1>1. UNCHANGED <<storeBuffer, messagePc, current, loading, seen, retireList>>
    BY DEF AudioThread, StartBlock, ReadSeekPending, ApplySeek, ClearSeekPending, ReadBuffer,
           StopForNoAudio, ReadPlaying, ReadLoopSlot, CopyIn, CopyOut, Render, StopAtEnd,
           Audio, message
  <1>2. \/ memory' = memory
        \/ memory' = [memory EXCEPT !["seekPending"] = None]
        \/ memory' = [memory EXCEPT !["playing"] = None]
    BY DEF AudioThread, StartBlock, ReadSeekPending, ApplySeek, ClearSeekPending, ReadBuffer,
           StopForNoAudio, ReadPlaying, ReadLoopSlot, CopyIn, CopyOut, Render, StopAtEnd
  <1>3. memory'["activeBuffer"] = memory["activeBuffer"]
    BY <1>2 DEF TypeOK, Cell
  <1>4. BuffersCovered'
    BY <1>1, <1>3 DEF BuffersCovered, Visible, Covered, Latest
  <1>5. LagBounded'
    <2>1. CASE StartBlock
      <3>1. \A i \in DOMAIN storeBuffer : storeBuffer[i] \in StoreType
        BY DEF TypeOK
      <3>2. \A i \in DOMAIN storeBuffer : storeBuffer[i].at \in Nat
        BY <3>1 DEF StoreType
      <3>3. /\ renderGeneration \in Nat /\ seen \in Nat
            /\ renderGeneration' = renderGeneration + 1
            /\ \A i \in DOMAIN storeBuffer :
                 renderGeneration - storeBuffer[i].at < PublicationLag
        BY <2>1 DEF TypeOK, StartBlock
      <3> QED BY <1>1, <3>2, <3>3, HandoffAssumption DEF LagBounded
    <2>2. CASE ~StartBlock
      <3>1. renderGeneration' = renderGeneration
        BY <2>2 DEF AudioThread, ReadSeekPending, ApplySeek, ClearSeekPending, ReadBuffer,
           StopForNoAudio, ReadPlaying, ReadLoopSlot, CopyIn, CopyOut, Render, StopAtEnd
      <3> QED BY <1>1, <3>1 DEF LagBounded
    <2> QED BY <2>1, <2>2
  <1> QED BY <1>4, <1>5

(* What the audio thread holds stays alive while it holds it: a load frees *)
(* only what was retired longer ago than the lag.                          *)
LEMMA MessageKeepsHeld ==
  ASSUME PublicationLag <= RetireMargin,
         TypeOK, LagBounded, MessageThread, NEW p \in Nat, p # None, Held(p)
  PROVE  Held(p)'
  <1>1. renderGeneration' = renderGeneration /\ renderGeneration \in Nat /\ seen \in Nat
    BY DEF TypeOK, MessageThread, Load, LoadStore, LoadRetire, SetPlaying, SetLoop, RequestSeek
  <1>2. CASE Load
    BY <1>2 DEF Load, Call, Held, Latest
  <1>3. CASE LoadStore
    <2>1. /\ current' = current /\ messagePc = "store" /\ messagePc' = "retire"
          /\ retireList' = {entry \in retireList : ~Stale(entry)}
      BY <1>3 DEF LoadStore
    <2>2. ASSUME NEW entry \in retireList, entry.buffer = p,
                 renderGeneration - entry.generation <= PublicationLag
          PROVE  entry \in retireList'
      <3>1. entry \in [generation : Nat, buffer : Nat]
        BY DEF TypeOK
      <3>2. ~Stale(entry)
        BY <3>1, <2>2, <1>1, HandoffAssumption DEF Stale, LagBounded
      <3> QED BY <3>2, <2>1
    <2> QED BY <2>1, <2>2, <1>1 DEF Held, Latest
  <1>4. CASE LoadRetire
    <2>1. /\ messagePc = "retire" /\ messagePc' = "idle" /\ current' = loading
          /\ retireList \subseteq retireList'
          /\ current # None =>
               [generation |-> renderGeneration, buffer |-> current] \in retireList'
      BY <1>4 DEF LoadRetire
    <2>2. CASE p = Latest
      BY <2>1, <2>2 DEF Held, Latest
    <2>3. CASE p = current
      <3>1. [generation |-> renderGeneration, buffer |-> p] \in retireList'
        BY <2>1, <2>3
      <3>2. renderGeneration - renderGeneration <= PublicationLag
        BY <1>1, HandoffAssumption
      <3> QED BY <3>1, <3>2, <1>1 DEF Held
    <2>4. ASSUME NEW entry \in retireList, entry.buffer = p,
                 renderGeneration - entry.generation <= PublicationLag
          PROVE  Held(p)'
      BY <2>1, <2>4, <1>1 DEF Held
    <2> QED BY <2>2, <2>3, <2>4 DEF Held
  <1>5. CASE \/ \E shouldPlay \in BOOLEAN : SetPlaying(shouldPlay)
             \/ SetLoop \/ RequestSeek
    <2>1. UNCHANGED <<messagePc, current, loading, retireList>>
      BY <1>5 DEF SetPlaying, SetLoop, RequestSeek
    <2> QED BY <2>1, <1>1 DEF Held, Latest
  <1> QED BY <1>2, <1>3, <1>4, <1>5 DEF MessageThread

(* What the audio thread takes is covered, and a cover is within the lag.  *)
LEMMA TakenIsHeld ==
  ASSUME TypeOK, LagBounded, BuffersCovered, memory["activeBuffer"] # None
  PROVE  Held(memory["activeBuffer"])
  <1> DEFINE p == memory["activeBuffer"]
  <1>1. p \in Nat /\ renderGeneration \in Nat
    BY DEF TypeOK, Cell
  <1>2. Covered(p, 0)
    BY <1>1 DEF BuffersCovered, Visible
  <1> HIDE DEF p
  <1>3. ASSUME NEW j \in DOMAIN storeBuffer, NEW entry \in retireList,
               entry.buffer = p, storeBuffer[j].at <= entry.generation
        PROVE  Held(p)
    <2>1. storeBuffer[j] \in StoreType /\ entry \in [generation : Nat, buffer : Nat]
      BY DEF TypeOK
    <2>2. renderGeneration - storeBuffer[j].at <= PublicationLag
      BY DEF LagBounded
    <2>3. renderGeneration - entry.generation <= PublicationLag
      BY <2>1, <2>2, <1>1, <1>3, HandoffAssumption DEF StoreType
    <2> QED BY <2>3, <1>3 DEF Held
  <1>4. p # None
    BY DEF p
  <1>5. Held(p)
    BY <1>2, <1>3, <1>4 DEF Covered, Held
  <1> QED BY <1>5 DEF p

(* Every step keeps the invariant of buffers. *)
LEMMA BufferStep ==
  ASSUME PublicationLag <= RetireMargin
  PROVE  BufferInv /\ [Next]_vars => BufferInv'
  <1> SUFFICES ASSUME BufferInv, [Next]_vars PROVE BufferInv'
    OBVIOUS
  <1>1. TypeOK /\ LagBounded /\ BuffersCovered /\ BufferHeld
    BY DEF BufferInv
  <1>2. TypeOK' /\ audio.buffer \in Nat
    BY <1>1, TypeStep DEF TypeOK
  <1>3. CASE Publish
    <2>1. LagBounded' /\ BuffersCovered'
      BY <1>1, <1>3, PublishKeepsCover
    <2>2. BufferHeld'
      BY <1>1, <1>3 DEF Publish, message, rendering, BufferHeld, UsesBuffer, Held, Latest
    <2> QED BY <1>2, <2>1, <2>2 DEF BufferInv
  <1>4. CASE MessageThread
    <2>1. LagBounded' /\ BuffersCovered'
      BY <1>1, <1>4, MessageKeepsCover
    <2>2. audioPc' = audioPc /\ audio' = audio
      BY <1>4 DEF MessageThread, Load, LoadStore, LoadRetire, SetPlaying, SetLoop, RequestSeek,
                  rendering
    <2>3. \A p \in Nat : p # None /\ Held(p) => Held(p)'
      BY <1>1, <1>4, MessageKeepsHeld
    <2>4. UsesBuffer' = UsesBuffer
      BY <2>2 DEF UsesBuffer
    <2>5. ASSUME UsesBuffer PROVE audio.buffer # None /\ Held(audio.buffer)'
      <3>1. audio.buffer # None /\ Held(audio.buffer)
        BY <1>1, <2>5 DEF BufferHeld
      <3> DEFINE p == audio.buffer
      <3>2. p' = p /\ p \in Nat /\ p # None /\ Held(p)
        BY <1>2, <2>2, <3>1
      <3> QED BY <3>2, <2>2, <2>3 DEF Held
    <2>6. BufferHeld'
      BY <2>2, <2>4, <2>5 DEF BufferHeld
    <2> QED BY <1>2, <2>1, <2>6 DEF BufferInv
  <1>5. CASE AudioThread
    <2>1. LagBounded' /\ BuffersCovered'
      BY <1>1, <1>5, AudioKeepsCover
    <2>2. UNCHANGED <<messagePc, current, loading, retireList>>
      BY <1>5 DEF AudioThread, StartBlock, ReadSeekPending, ApplySeek, ClearSeekPending,
         ReadBuffer, StopForNoAudio, ReadPlaying, ReadLoopSlot, CopyIn, CopyOut, Render,
         StopAtEnd, Audio, message
    <2>3. BufferHeld'
      <3>1. CASE ReadBuffer
        <4>1. /\ audio'.buffer = memory["activeBuffer"]
              /\ renderGeneration' = renderGeneration
              /\ UsesBuffer' => memory["activeBuffer"] # None
          BY <3>1, <1>1 DEF ReadBuffer, TypeOK, UsesBuffer
        <4>2. memory["activeBuffer"] # None => Held(memory["activeBuffer"])
          BY <1>1, TakenIsHeld
        <4> QED BY <4>1, <4>2, <2>2 DEF BufferHeld, Held, Latest
      <3>2. CASE ~ReadBuffer
        <4>1. UsesBuffer' => /\ UsesBuffer /\ audio'.buffer = audio.buffer
                             /\ renderGeneration' = renderGeneration
          BY <1>5, <3>2, <1>1 DEF AudioThread, StartBlock, ReadSeekPending, ApplySeek,
             ClearSeekPending, StopForNoAudio, ReadPlaying, ReadLoopSlot, CopyIn, CopyOut,
             Render, StopAtEnd, Audio, BlockDone, UsesBuffer, TypeOK
        <4> QED BY <4>1, <2>2, <1>1 DEF BufferHeld, Held, Latest
      <3> QED BY <3>1, <3>2
    <2> QED BY <1>2, <2>1, <2>3 DEF BufferInv
  <1>6. CASE UNCHANGED vars
    BY <1>1, <1>2, <1>6 DEF vars, message, rendering, BufferInv, LagBounded, BuffersCovered,
       Visible, Covered, BufferHeld, UsesBuffer, Held, Latest
  <1> QED BY <1>3, <1>4, <1>5, <1>6 DEF Next

(* Initially there is no buffer. *)
LEMMA BufferInit == Init => BufferInv
  <1> SUFFICES ASSUME Init PROVE BufferInv
    OBVIOUS
  <1>1. TypeOK
    BY DEF Init, TypeOK, None, NothingHeld, AudioPc, Cell
  <1>2. DOMAIN storeBuffer = {} /\ memory["activeBuffer"] = None /\ seen = 0
        /\ renderGeneration = 0 /\ audioPc = "idle"
    BY DEF Init, Cell, None
  <1> QED BY <1>1, <1>2 DEF BufferInv, LagBounded, BuffersCovered, Visible, Covered,
                            BufferHeld, UsesBuffer

(* With a margin of at least the publication lag, no buffer is freed while *)
(* the audio thread uses it.                                               *)
THEOREM BuffersSafe ==
  ASSUME PublicationLag <= RetireMargin
  PROVE  Spec => []NoUseAfterFree
  <1>1. BufferInv => NoUseAfterFree
    BY DEF BufferInv, BufferHeld, NoUseAfterFree, Held, Latest, Alive
  <1> QED BY <1>1, BufferInit, BufferStep, PTL DEF Spec

-----------------------------------------------------------------------------
(* Requests that are overtaken.                                            *)

(* What the message thread has numbered so far; a load under way has only  *)
(* its stores and its number is the last.                                  *)
Issued == IF messagePc = "store" THEN calls - 1 ELSE calls

CallsInOrder ==
    /\ requested <= Issued
    /\ messagePc = "store" => calls > 0 /\ loading \in {None, calls}

(* A flag under way is newer than the one that is up, than every flag      *)
(* before it, and than every request that was lost; no value or flag is    *)
(* newer than the last request.                                            *)
FlagsRise ==
    /\ lost <= requested
    /\ memory["seekPending"] # None => lost < memory["seekPending"]
    /\ memory["pendingSeekSamples"] <= requested
    /\ \A i \in DOMAIN storeBuffer : storeBuffer[i].cell = "pendingSeekSamples" =>
         storeBuffer[i].value <= requested
    /\ \A i \in DOMAIN storeBuffer : storeBuffer[i].cell = "seekPending" =>
         /\ lost < storeBuffer[i].value /\ memory["seekPending"] < storeBuffer[i].value
         /\ storeBuffer[i].value <= requested
         /\ \A j \in DOMAIN storeBuffer : j < i /\ storeBuffer[j].cell = "seekPending"
              => storeBuffer[j].value < storeBuffer[i].value

(* The position is that of a value seen; when the audio thread is about to *)
(* clear the flag, it is at least as new as the flag it tested.            *)
PositionSeen ==
    /\ position <= memory["pendingSeekSamples"]
    /\ audioPc = "seek done" => audio.seek <= position

(* The last request is applied, or lost, or its flag is up or under way.   *)
RequestKept ==
    \/ requested \in {position, lost, memory["seekPending"]}
    \/ \E i \in DOMAIN storeBuffer :
         storeBuffer[i].cell = "seekPending" /\ storeBuffer[i].value = requested

RequestInv == SeekInv /\ CallsInOrder /\ FlagsRise /\ PositionSeen /\ RequestKept

(* Each call is one number further, and a load stores under its own.       *)
LEMMA CallsStep == TypeOK /\ CallsInOrder /\ [Next]_vars => CallsInOrder'
  <1> SUFFICES ASSUME TypeOK, CallsInOrder, [Next]_vars PROVE CallsInOrder'
    OBVIOUS
  <1> USE DEF CallsInOrder, Issued
  <1>1. calls \in Nat /\ requested \in Nat
    BY DEF TypeOK
  <1>2. CASE MessageThread
    <2>1. CASE Load
      BY <1>1, <2>1 DEF Load, Call
    <2>2. CASE LoadStore
      BY <1>1, <2>2 DEF LoadStore
    <2>3. CASE LoadRetire
      BY <1>1, <2>3 DEF LoadRetire
    <2>4. ASSUME NEW shouldPlay \in BOOLEAN, SetPlaying(shouldPlay) PROVE CallsInOrder'
      BY <1>1, <2>4 DEF SetPlaying, Call
    <2>5. CASE SetLoop
      BY <1>1, <2>5 DEF SetLoop, Call
    <2>6. CASE RequestSeek
      BY <1>1, <2>6 DEF RequestSeek, Call
    <2> QED BY <1>2, <2>1, <2>2, <2>3, <2>4, <2>5, <2>6 DEF MessageThread
  <1>3. CASE AudioThread
    <2>1. UNCHANGED message
      BY <1>3 DEF AudioThread, StartBlock, ReadSeekPending, ApplySeek, ClearSeekPending,
           ReadBuffer, StopForNoAudio, ReadPlaying, ReadLoopSlot, CopyIn, CopyOut, Render,
           StopAtEnd, Audio
    <2> QED BY <2>1 DEF message
  <1>4. CASE Publish
    BY <1>4 DEF Publish, message
  <1>5. CASE UNCHANGED vars
    BY <1>5 DEF vars, message
  <1> QED BY <1>2, <1>3, <1>4, <1>5 DEF Next

(* Stores under way are typed. *)
LEMMA StoresTyped ==
  ASSUME TypeOK
  PROVE  /\ DOMAIN storeBuffer = 1 .. Len(storeBuffer) /\ Len(storeBuffer) \in Nat
         /\ \A i \in DOMAIN storeBuffer :
              storeBuffer[i] \in StoreType /\ storeBuffer[i].value \in Nat
  <1>1. DOMAIN storeBuffer = 1 .. Len(storeBuffer) /\ Len(storeBuffer) \in Nat
        /\ \A i \in DOMAIN storeBuffer : storeBuffer[i] \in StoreType
    BY DEF TypeOK
  <1> QED BY <1>1 DEF StoreType

(* A request that is issued is newer than all that went before.            *)
LEMMA IssueRises ==
  ASSUME TypeOK, FlagsFollow, FlagsRise, RequestKept,
         NEW s \in Seq(StoreType), storeBuffer' = storeBuffer \o s,
         UNCHANGED <<memory, lost, position>>,
         requested' \in Nat, requested <= requested',
         \A k \in DOMAIN s : s[k].cell = "pendingSeekSamples" => s[k].value <= requested',
         \A k \in DOMAIN s : s[k].cell = "seekPending" =>
            /\ s[k].value = requested' /\ requested < requested'
            /\ \A j \in DOMAIN s : s[j].cell = "seekPending" => j = k,
         requested' # requested => \E k \in DOMAIN s : s[k].cell = "seekPending"
  PROVE  FlagsRise' /\ RequestKept'
  <1> DEFINE b == storeBuffer
             n == Len(b)
             m == Len(s)
             c == b \o s
             r == requested'
  <1>1. b \in Seq(StoreType)
    BY DEF TypeOK
  <1>2. /\ DOMAIN c = 1 .. (n + m) /\ DOMAIN b = 1 .. n /\ DOMAIN s = 1 .. m
        /\ n \in Nat /\ m \in Nat
        /\ \A i \in 1 .. n : c[i] = b[i]
        /\ \A k \in 1 .. m : c[n + k] = s[k]
    BY <1>1, Appended
  <1>3. \A i \in DOMAIN c : i \in 1 .. n \/ \E k \in 1 .. m : i = n + k
    BY <1>2, OldOrNew
  <1>4. /\ \A i \in 1 .. n : b[i].value \in Nat
        /\ \A k \in 1 .. m : s[k].value \in Nat
    BY <1>1, <1>2 DEF StoreType
  <1>5. /\ requested \in Nat /\ lost \in Nat /\ position \in Nat
        /\ memory["seekPending"] \in Nat /\ memory["pendingSeekSamples"] \in Nat
    BY DEF TypeOK, Cell
  <1>6. /\ memory["seekPending"] <= requested /\ lost <= requested
        /\ memory["pendingSeekSamples"] <= requested
    BY <1>5 DEF FlagsFollow, FlagsRise
  <1>7. storeBuffer' = c /\ memory' = memory /\ lost' = lost /\ position' = position
    OBVIOUS
  <1> HIDE DEF b, n, m, c
  <1>8. ASSUME NEW i \in DOMAIN c, c[i].cell = "pendingSeekSamples"
        PROVE  c[i].value <= r
    <2>1. CASE i \in 1 .. n
      BY <1>2, <1>4, <1>5, <1>8, <2>1 DEF FlagsRise, b
    <2>2. ASSUME NEW k \in 1 .. m, i = n + k PROVE c[i].value <= r
      <3>1. c[i] = s[k] /\ k \in DOMAIN s
        BY <1>2, <2>2
      <3> QED BY <1>8, <3>1
    <2> QED BY <1>3, <2>1, <2>2
  <1>9. ASSUME NEW i \in DOMAIN c, c[i].cell = "seekPending"
        PROVE  /\ lost < c[i].value /\ memory["seekPending"] < c[i].value
               /\ c[i].value <= r
               /\ \A j \in DOMAIN c : j < i /\ c[j].cell = "seekPending"
                    => c[j].value < c[i].value
    <2>1. CASE i \in 1 .. n
      <3>1. \A j \in DOMAIN c : j < i => j \in 1 .. n
        BY <1>2, <2>1
      <3>2. /\ lost < b[i].value /\ memory["seekPending"] < b[i].value
            /\ b[i].value <= requested
            /\ \A j \in 1 .. n : j < i /\ b[j].cell = "seekPending"
                 => b[j].value < b[i].value
        BY <1>2, <1>9, <2>1 DEF FlagsRise, b
      <3>3. b[i].value <= r
        BY <1>4, <1>5, <2>1, <3>2
      <3> QED BY <1>2, <2>1, <3>1, <3>2, <3>3
    <2>2. ASSUME NEW k \in 1 .. m, i = n + k
          PROVE  /\ lost < c[i].value /\ memory["seekPending"] < c[i].value
                 /\ c[i].value <= r
                 /\ \A j \in DOMAIN c : j < i /\ c[j].cell = "seekPending"
                      => c[j].value < c[i].value
      <3>1. c[i] = s[k] /\ k \in DOMAIN s
        BY <1>2, <2>2
      <3>2. /\ c[i].value = r /\ requested < r
            /\ \A j \in DOMAIN s : s[j].cell = "seekPending" => j = k
        BY <1>9, <3>1
      <3>3. ASSUME NEW j \in DOMAIN c, j < i, c[j].cell = "seekPending"
            PROVE  c[j].value < r
        <4>1. j \in 1 .. n
          <5>1. ASSUME NEW l \in 1 .. m, j = n + l PROVE FALSE
            <6>1. c[j] = s[l] /\ l \in DOMAIN s
              BY <1>2, <5>1
            <6>2. l = k
              BY <3>2, <3>3, <6>1
            <6> QED BY <1>2, <2>2, <3>3, <5>1, <6>2
          <5> QED BY <1>3, <5>1
        <4>2. b[j].cell = "seekPending" /\ j \in DOMAIN b /\ c[j] = b[j]
          BY <1>2, <3>3, <4>1
        <4>3. b[j].value <= requested
          BY <4>2 DEF FlagsRise, b
        <4> QED BY <1>4, <1>5, <3>2, <4>1, <4>2, <4>3
      <3>4. lost < r /\ memory["seekPending"] < r /\ r <= r
        BY <1>5, <1>6, <3>2
      <3> QED BY <3>2, <3>3, <3>4
    <2> QED BY <1>3, <2>1, <2>2
  <1>10. FlagsRise'
    <2>1. lost <= r /\ memory["pendingSeekSamples"] <= r
      BY <1>5, <1>6
    <2>2. memory["seekPending"] # None => lost < memory["seekPending"]
      BY DEF FlagsRise
    <2> QED BY <1>7, <1>8, <1>9, <2>1, <2>2 DEF FlagsRise
  <1>11. RequestKept'
    <2>1. CASE r = requested
      <3>1. CASE requested \in {position, lost, memory["seekPending"]}
        BY <1>7, <2>1, <3>1 DEF RequestKept
      <3>2. ASSUME NEW i \in 1 .. n, b[i].cell = "seekPending", b[i].value = requested
            PROVE  RequestKept'
        <4>1. i \in DOMAIN c /\ c[i].cell = "seekPending" /\ c[i].value = r
          BY <1>2, <2>1, <3>2
        <4> QED BY <1>7, <4>1 DEF RequestKept
      <3> QED BY <1>2, <3>1, <3>2 DEF RequestKept, b
    <2>2. CASE r # requested
      <3>1. PICK k \in DOMAIN s : s[k].cell = "seekPending"
        BY <2>2
      <3>2. n + k \in DOMAIN c /\ c[n + k] = s[k] /\ s[k].value = r
        BY <1>2, <3>1
      <3> QED BY <1>7, <3>1, <3>2 DEF RequestKept
    <2> QED BY <2>1, <2>2
  <1> QED BY <1>10, <1>11

(* The oldest store becomes visible: no flag goes down, and none is lost.  *)
LEMMA PublishRises ==
  ASSUME TypeOK, FlagsFollow, FlagsRise, RequestKept, Publish
  PROVE  FlagsRise' /\ RequestKept'
  <1> DEFINE b == storeBuffer
             t == Tail(b)
             h == b[1]
             f == memory["seekPending"]
             g == memory'["seekPending"]
  <1>1. /\ b \in Seq(StoreType) /\ b # <<>> /\ storeBuffer' = t
        /\ UNCHANGED <<lost, position, requested>>
    BY DEF TypeOK, Publish, message, rendering
  <1>2. /\ 1 \in DOMAIN b /\ h \in StoreType
        /\ DOMAIN b = 1 .. Len(b) /\ Len(b) \in Nat
        /\ DOMAIN t = 1 .. (Len(b) - 1)
        /\ \A i \in DOMAIN t : i + 1 \in DOMAIN b /\ t[i] = b[i + 1]
        /\ Head(b) = h
    BY <1>1, Shifted
  <1>3. memory' = [memory EXCEPT ![h.cell] = h.value]
    BY <1>2 DEF Publish
  <1>4. /\ f \in Nat /\ memory["pendingSeekSamples"] \in Nat /\ lost \in Nat /\ requested \in Nat
        /\ \A i \in DOMAIN b : b[i].value \in Nat
    BY StoresTyped DEF TypeOK, Cell
  <1>5. memory'["pendingSeekSamples"] =
          IF h.cell = "pendingSeekSamples" THEN h.value ELSE memory["pendingSeekSamples"]
    BY <1>3 DEF TypeOK, Cell
  <1>6. g = IF h.cell = "seekPending" THEN h.value ELSE f
    BY <1>3 DEF TypeOK, Cell
  <1>7. memory'["pendingSeekSamples"] <= requested
    BY <1>2, <1>5 DEF FlagsRise
  <1>8. /\ g # None => lost < g
        /\ h.cell = "seekPending" => f < h.value /\ h.value <= requested
    BY <1>2, <1>6 DEF FlagsRise
  <1>9. ASSUME NEW i \in DOMAIN t, t[i].cell = "pendingSeekSamples"
        PROVE  t[i].value <= requested
    BY <1>2, <1>9 DEF FlagsRise
  <1>10. ASSUME NEW i \in DOMAIN t, t[i].cell = "seekPending"
         PROVE  /\ lost < t[i].value /\ g < t[i].value /\ t[i].value <= requested
                /\ \A j \in DOMAIN t : j < i /\ t[j].cell = "seekPending"
                     => t[j].value < t[i].value
    <2>1. i + 1 \in DOMAIN b /\ t[i] = b[i + 1] /\ 1 < i + 1
      BY <1>2
    <2>2. lost < t[i].value /\ f < t[i].value /\ t[i].value <= requested
      BY <1>10, <2>1 DEF FlagsRise
    <2>3. h.cell = "seekPending" => h.value < t[i].value
      BY <1>2, <1>10, <2>1 DEF FlagsRise
    <2>4. ASSUME NEW j \in DOMAIN t, j < i, t[j].cell = "seekPending"
          PROVE  t[j].value < t[i].value
      <3>1. j + 1 \in DOMAIN b /\ t[j] = b[j + 1] /\ j + 1 < i + 1
        BY <1>2, <2>4
      <3> QED BY <1>10, <2>1, <2>4, <3>1 DEF FlagsRise
    <2> QED BY <1>6, <2>2, <2>3, <2>4
  <1>11. FlagsRise'
    <2>1. lost <= requested
      BY DEF FlagsRise
    <2> HIDE DEF b, t, h, f
    <2> QED BY <1>1, <1>7, <1>8, <1>9, <1>10, <2>1 DEF FlagsRise
  <1>12. RequestKept'
    <2>1. CASE requested \in {position, lost}
      BY <1>1, <2>1 DEF RequestKept
    <2>2. CASE requested = f
      <3>1. g = f
        BY <1>2, <1>4, <1>6, <1>8, <2>2
      <3> QED BY <1>1, <2>2, <3>1 DEF RequestKept
    <2>3. ASSUME NEW i \in DOMAIN b, b[i].cell = "seekPending", b[i].value = requested
          PROVE  RequestKept'
      <3>1. CASE i = 1
        BY <1>1, <1>6, <2>3, <3>1 DEF RequestKept
      <3>2. CASE i # 1
        <4>1. i - 1 \in DOMAIN t /\ (i - 1) + 1 = i
          BY <1>2, <3>2
        <4>2. t[i - 1] = b[i]
          BY <1>2, <4>1
        <4> QED BY <1>1, <2>3, <4>1, <4>2 DEF RequestKept
      <3> QED BY <3>1, <3>2
    <2> QED BY <2>1, <2>2, <2>3 DEF RequestKept
  <1> QED BY <1>11, <1>12

(* A seek issues its value and its flag; the other calls issue neither, or *)
(* a load does as a seek.                                                  *)
LEMMA MessageRises ==
  ASSUME TypeOK, FlagsFollow, FlagsRise, RequestKept, CallsInOrder, MessageThread
  PROVE  FlagsRise' /\ RequestKept'
  <1>1. calls \in Nat /\ requested \in Nat /\ storeBuffer \in Seq(StoreType)
    BY DEF TypeOK
  <1>2. CASE Load \/ LoadRetire
    <2>1. UNCHANGED <<memory, storeBuffer, requested, lost, position>>
      BY <1>2 DEF Load, LoadRetire, rendering
    <2> QED BY <2>1 DEF FlagsRise, RequestKept
  <1>3. CASE LoadStore
    <2> DEFINE s == LoadStores(calls, loading)
    <2>1. /\ storeBuffer' = storeBuffer \o s /\ requested' = calls /\ requested < calls
          /\ UNCHANGED <<memory, lost, position>>
      BY <1>1, <1>3 DEF LoadStore, Issue, rendering, CallsInOrder, Issued
    <2>2. s \in Seq(StoreType)
      BY LoadStoresTyped DEF TypeOK
    <2>3. /\ DOMAIN s = 1 .. 6
          /\ s[1] = Store("pendingSeekSamples", calls) /\ s[2] = Store("seekPending", calls)
          /\ s[3] = Store(InCell(InactiveSlot), calls)
          /\ s[4] = Store(OutCell(InactiveSlot), calls)
          /\ s[5] = Store("activeLoopSlot", InactiveSlot)
          /\ s[6] = Store("activeBuffer", loading)
      BY LoadStoresShape
    <2>4. \A k \in DOMAIN s : s[k].cell = "pendingSeekSamples" => s[k].value = calls
      BY <2>3 DEF Store, InCell, OutCell
    <2>5. \A k \in DOMAIN s : s[k].cell = "seekPending" => k = 2
      BY <2>3 DEF Store, InCell, OutCell
    <2>6. 2 \in DOMAIN s /\ s[2].cell = "seekPending" /\ s[2].value = calls
      BY <2>3 DEF Store
    <2> HIDE DEF s
    <2>7. \A k \in DOMAIN s : s[k].cell = "pendingSeekSamples" => s[k].value <= requested'
      BY <1>1, <2>1, <2>4
    <2>8. \A k \in DOMAIN s : s[k].cell = "seekPending" =>
            /\ s[k].value = requested' /\ requested < requested'
            /\ \A j \in DOMAIN s : s[j].cell = "seekPending" => j = k
      BY <2>1, <2>5, <2>6
    <2>9. requested' \in Nat /\ requested <= requested'
      BY <1>1, <2>1
    <2> QED BY <2>1, <2>2, <2>6, <2>7, <2>8, <2>9, IssueRises
  <1>4. ASSUME NEW s \in Seq(StoreType), storeBuffer' = storeBuffer \o s,
               UNCHANGED <<memory, lost, position, requested>>,
               \A k \in DOMAIN s : s[k].cell \notin {"pendingSeekSamples", "seekPending"}
        PROVE  FlagsRise' /\ RequestKept'
    <2>1. requested' \in Nat /\ requested <= requested'
      BY <1>1, <1>4
    <2> QED BY <1>4, <2>1, IssueRises
  <1>5. ASSUME NEW shouldPlay \in BOOLEAN, SetPlaying(shouldPlay)
        PROVE  FlagsRise' /\ RequestKept'
    <2> DEFINE n == IF shouldPlay THEN calls' ELSE None
               s == <<Store("playing", n)>>
    <2>1. /\ Call("setPlaying") /\ storeBuffer' = storeBuffer \o s
          /\ UNCHANGED <<memory, lost, position, requested>>
      BY <1>5 DEF SetPlaying, Issue, rendering
    <2>2. n \in Nat
      BY <1>1, <2>1 DEF Call, None
    <2>3. s \in Seq(StoreType)
      BY <2>2, StoreTyped DEF TypeOK, Cell
    <2>4. \A k \in DOMAIN s : s[k].cell = "playing"
      BY DEF Store
    <2> HIDE DEF s
    <2> QED BY <1>4, <2>1, <2>3, <2>4
  <1>6. CASE SetLoop
    <2> DEFINE s == LoopStores(calls')
    <2>1. /\ storeBuffer' = storeBuffer \o s /\ calls' \in Nat
          /\ UNCHANGED <<memory, lost, position, requested>>
      BY <1>1, <1>6 DEF SetLoop, Issue, Call, rendering
    <2>2. s \in Seq(StoreType)
      BY <2>1, LoopStoresTyped DEF TypeOK
    <2>3. \A k \in DOMAIN s : s[k].cell \notin {"pendingSeekSamples", "seekPending"}
      BY DEF LoopStores, Store, InCell, OutCell
    <2> HIDE DEF s
    <2> QED BY <1>4, <2>1, <2>2, <2>3
  <1>7. CASE RequestSeek
    <2> DEFINE s == SeekStores(calls')
    <2>1. /\ storeBuffer' = storeBuffer \o s /\ calls' = calls + 1 /\ requested' = calls'
          /\ messagePc = "idle" /\ UNCHANGED <<memory, lost, position>>
      BY <1>7 DEF RequestSeek, Issue, Call, rendering
    <2>2. requested < requested' /\ requested' \in Nat /\ requested <= requested'
      BY <1>1, <2>1 DEF CallsInOrder, Issued
    <2>3. s \in Seq(StoreType)
      BY <2>1, <2>2, SeekStoresTyped DEF TypeOK
    <2>4. /\ \A k \in DOMAIN s : s[k].value = requested'
          /\ \A k \in DOMAIN s : s[k].cell = "seekPending" => k = 2
          /\ 2 \in DOMAIN s /\ s[2].cell = "seekPending"
      BY <2>1 DEF SeekStores, Store
    <2> HIDE DEF s
    <2>5. \A k \in DOMAIN s : s[k].cell = "pendingSeekSamples" => s[k].value <= requested'
      BY <2>2, <2>4
    <2>6. \A k \in DOMAIN s : s[k].cell = "seekPending" =>
            /\ s[k].value = requested' /\ requested < requested'
            /\ \A j \in DOMAIN s : s[j].cell = "seekPending" => j = k
      BY <2>2, <2>4
    <2> QED BY <2>1, <2>2, <2>3, <2>4, <2>5, <2>6, IssueRises
  <1> QED BY <1>2, <1>3, <1>5, <1>6, <1>7 DEF MessageThread

(* Clearing a flag loses its request, unless the position is already its   *)
(* own; no other step of the audio thread takes a request away.            *)
LEMMA AudioRises ==
  ASSUME TypeOK, FlagsFollow, FlagsRise, RequestKept, PositionSeen, AudioThread
  PROVE  FlagsRise' /\ RequestKept'
  <1> DEFINE f == memory["seekPending"]
             p == memory["pendingSeekSamples"]
  <1>1. f \in Nat /\ p \in Nat /\ lost \in Nat /\ requested \in Nat /\ position \in Nat
    BY DEF TypeOK, Cell
  <1>2. /\ f <= p /\ p <= requested /\ lost <= requested /\ position <= p
        /\ f # None => lost < f
    BY DEF FlagsFollow, FlagsRise, PositionSeen
  <1>3. storeBuffer' = storeBuffer /\ requested' = requested
    BY DEF AudioThread, StartBlock, ReadSeekPending, ApplySeek, ClearSeekPending, ReadBuffer,
           StopForNoAudio, ReadPlaying, ReadLoopSlot, CopyIn, CopyOut, Render, StopAtEnd,
           Audio, message
  <1>4. CASE ClearSeekPending
    <2> PICK tested \in Nat : tested = audio.seek
      BY DEF TypeOK
    <2>1. lost' = IF f > position /\ f > tested THEN f ELSE lost
      BY <1>4 DEF ClearSeekPending
    <2>6. position' = position /\ audioPc = "seek done"
      BY <1>4 DEF ClearSeekPending, Audio
    <2>2. memory'["seekPending"] = None /\ memory'["pendingSeekSamples"] = p
      BY <1>4 DEF ClearSeekPending, TypeOK, Cell
    <2>3. tested <= position
      BY <2>6 DEF PositionSeen
    <2>4. FlagsRise'
      <3>1. lost' <= requested
        BY <1>1, <1>2, <2>1
      <3>2. ASSUME NEW i \in DOMAIN storeBuffer, storeBuffer[i].cell = "seekPending"
            PROVE  lost' < storeBuffer[i].value /\ None < storeBuffer[i].value
        <4>1. storeBuffer[i].value \in Nat
          BY StoresTyped
        <4>2. lost < storeBuffer[i].value /\ f < storeBuffer[i].value
          BY <3>2 DEF FlagsRise
        <4> QED BY <1>1, <2>1, <4>1, <4>2 DEF None
      <3>3. \A i \in DOMAIN storeBuffer :
              /\ storeBuffer[i].cell = "pendingSeekSamples" => storeBuffer[i].value <= requested
              /\ storeBuffer[i].cell = "seekPending" =>
                   /\ storeBuffer[i].value <= requested
                   /\ \A j \in DOMAIN storeBuffer :
                        j < i /\ storeBuffer[j].cell = "seekPending"
                          => storeBuffer[j].value < storeBuffer[i].value
        BY DEF FlagsRise
      <3> QED BY <1>2, <1>3, <2>2, <3>1, <3>2, <3>3 DEF FlagsRise
    <2>5. RequestKept'
      <3>1. CASE requested = position
        BY <1>3, <2>6, <3>1 DEF RequestKept
      <3>2. CASE requested = lost
        <4>1. lost' = lost
          BY <1>1, <1>2, <2>1, <3>2 DEF None
        <4> QED BY <1>3, <3>2, <4>1 DEF RequestKept
      <3>3. CASE requested = f
        <4>1. lost' = requested \/ position = requested
          BY <1>1, <1>2, <2>1, <2>3, <3>3
        <4> QED BY <1>3, <2>6, <4>1 DEF RequestKept
      <3>4. ASSUME NEW i \in DOMAIN storeBuffer, storeBuffer[i].cell = "seekPending",
                   storeBuffer[i].value = requested
            PROVE  RequestKept'
        BY <1>3, <3>4 DEF RequestKept
      <3> QED BY <3>1, <3>2, <3>3, <3>4 DEF RequestKept
    <2> QED BY <2>4, <2>5
  <1>5. CASE ApplySeek
    <2>1. memory' = memory /\ lost' = lost /\ position' = p
      BY <1>5 DEF ApplySeek
    <2>2. requested = position => requested = p
      BY <1>1, <1>2
    <2> QED BY <1>3, <2>1, <2>2 DEF FlagsRise, RequestKept
  <1>6. CASE ~ClearSeekPending /\ ~ApplySeek
    <2>1. UNCHANGED <<lost, position>>
      BY <1>6 DEF AudioThread, StartBlock, ReadSeekPending, ReadBuffer,
           StopForNoAudio, ReadPlaying, ReadLoopSlot, CopyIn, CopyOut, Render, StopAtEnd
    <2>2. memory' = memory \/ memory' = [memory EXCEPT !["playing"] = None]
      BY <1>6 DEF AudioThread, StartBlock, ReadSeekPending, ReadBuffer,
           StopForNoAudio, ReadPlaying, ReadLoopSlot, CopyIn, CopyOut, Render, StopAtEnd
    <2>3. memory'["seekPending"] = f /\ memory'["pendingSeekSamples"] = p
      BY <2>2 DEF TypeOK, Cell
    <2> QED BY <1>3, <2>1, <2>3 DEF FlagsRise, RequestKept
  <1> QED BY <1>4, <1>5, <1>6

(* The position is read off memory, where values only become newer.        *)
LEMMA PositionStep ==
  ASSUME SeekInv, PositionSeen, [Next]_vars
  PROVE  PositionSeen'
  <1>1. /\ TypeOK /\ ValuesInOrder /\ FlagsFollow /\ SeekNotOlderThanFlag
        /\ memory["pendingSeekSamples"] \in Nat /\ position \in Nat
    BY DEF SeekInv, TypeOK, Cell
  <1>2. memory'["pendingSeekSamples"] \in Nat
    BY <1>1, TypeStep DEF TypeOK, Cell
  <1>3. CASE Publish
    <2>1. memory["pendingSeekSamples"] <= memory'["pendingSeekSamples"]
      BY <1>1, <1>3, PublishInOrder
    <2>2. audioPc' = audioPc /\ audio' = audio /\ position' = position
      BY <1>3 DEF Publish, rendering
    <2>3. position <= memory["pendingSeekSamples"]
      BY DEF PositionSeen
    <2>4. position <= memory'["pendingSeekSamples"]
      BY <1>1, <1>2, <2>1, <2>3
    <2> QED BY <2>2, <2>4 DEF PositionSeen
  <1>4. CASE MessageThread
    <2>1. UNCHANGED <<memory, rendering>>
      BY <1>4 DEF MessageThread, Load, LoadStore, LoadRetire, SetPlaying, SetLoop, RequestSeek
    <2> QED BY <2>1 DEF PositionSeen, rendering
  <1>5. CASE AudioThread
    <2>1. memory'["pendingSeekSamples"] = memory["pendingSeekSamples"]
      BY <1>1, <1>5, AudioKeepsOrder
    <2>2. CASE ApplySeek
      <3>1. audioPc = "seek" /\ position' = memory["pendingSeekSamples"] /\ audio' = audio
        BY <2>2 DEF ApplySeek, Audio
      <3>2. audio.seek <= memory["pendingSeekSamples"]
        BY <1>1, <3>1 DEF SeekNotOlderThanFlag
      <3>3. audio'.seek <= position'
        BY <3>1, <3>2
      <3>4. position' <= memory'["pendingSeekSamples"]
        BY <1>1, <2>1, <3>1
      <3> QED BY <3>3, <3>4 DEF PositionSeen
    <2>3. CASE ~ApplySeek
      <3>1. position' = position /\ audioPc' # "seek done"
        BY <1>5, <2>3 DEF AudioThread, StartBlock, ReadSeekPending, ClearSeekPending, ReadBuffer,
           StopForNoAudio, ReadPlaying, ReadLoopSlot, CopyIn, CopyOut, Render, StopAtEnd, Audio,
           BlockDone
      <3> QED BY <2>1, <3>1 DEF PositionSeen
    <2> QED BY <2>2, <2>3
  <1>6. CASE UNCHANGED vars
    BY <1>6 DEF vars, rendering, PositionSeen
  <1> QED BY <1>3, <1>4, <1>5, <1>6 DEF Next

(* Every step keeps the invariant of requests. *)
LEMMA RequestStep == RequestInv /\ [Next]_vars => RequestInv'
  <1> SUFFICES ASSUME RequestInv, [Next]_vars PROVE RequestInv'
    OBVIOUS
  <1>1. SeekInv /\ CallsInOrder /\ FlagsRise /\ PositionSeen /\ RequestKept
    BY DEF RequestInv
  <1>2. TypeOK /\ FlagsFollow
    BY <1>1 DEF SeekInv
  <1>3. SeekInv' /\ CallsInOrder' /\ PositionSeen'
    BY <1>1, <1>2, SeekStep, CallsStep, PositionStep
  <1>4. FlagsRise' /\ RequestKept'
    <2>1. CASE Publish
      BY <1>1, <1>2, <2>1, PublishRises
    <2>2. CASE MessageThread
      BY <1>1, <1>2, <2>2, MessageRises
    <2>3. CASE AudioThread
      BY <1>1, <1>2, <2>3, AudioRises
    <2>4. CASE UNCHANGED vars
      BY <1>1, <2>4 DEF vars, message, rendering, FlagsRise, RequestKept
    <2> QED BY <2>1, <2>2, <2>3, <2>4 DEF Next
  <1> QED BY <1>3, <1>4 DEF RequestInv

(* Initially nothing is requested. *)
LEMMA RequestInit == Init => RequestInv
  <1> SUFFICES ASSUME Init PROVE RequestInv
    OBVIOUS
  <1>1. SeekInv
    BY SeekInit
  <1>2. /\ DOMAIN storeBuffer = {} /\ memory["seekPending"] = 0
        /\ memory["pendingSeekSamples"] = 0 /\ calls = 0 /\ requested = 0 /\ lost = 0
        /\ position = 0 /\ messagePc = "idle" /\ audioPc = "idle"
    BY DEF Init, Cell, None
  <1> QED BY <1>1, <1>2 DEF RequestInv, CallsInOrder, Issued, FlagsRise, PositionSeen,
                            RequestKept, None

(* A request that is neither applied nor under way was lost in the one     *)
(* window there is: its flag went up between the audio thread's read of an *)
(* earlier value and its clearing of the flag (requestSeek and the seek    *)
(* block of getNextAudioBlock).                                            *)
THEOREM SeeksLostInWindow == Spec => []SeekLostOnlyInWindow
  <1>1. RequestInv => SeekLostOnlyInWindow
    <2> SUFFICES ASSUME RequestInv, storeBuffer = <<>>, memory["seekPending"] = None
                 PROVE  requested \in {position, lost}
      BY DEF SeekLostOnlyInWindow
    <2>1. TypeOK /\ FlagsRise /\ PositionSeen /\ RequestKept
      BY DEF RequestInv, SeekInv
    <2>2. /\ memory["pendingSeekSamples"] \in Nat /\ position \in Nat /\ requested \in Nat
          /\ position <= memory["pendingSeekSamples"]
          /\ memory["pendingSeekSamples"] <= requested
      BY <2>1 DEF TypeOK, Cell, PositionSeen, FlagsRise
    <2>3. requested \in {position, lost, None}
      <3>1. DOMAIN storeBuffer = {}
        OBVIOUS
      <3> QED BY <2>1, <3>1 DEF RequestKept
    <2>4. requested = None => position = requested
      BY <2>2 DEF None
    <2> QED BY <2>3, <2>4
  <1> QED BY <1>1, RequestInit, RequestStep, PTL DEF Spec

-----------------------------------------------------------------------------
(* What the audio thread will see.                                         *)

(* Memory once a store has become visible, and what it is after each of a  *)
(* number of stores. *)
After(v, store) == [v EXCEPT ![store.cell] = store.value]

Sees(m, b) ==
    LET view[k \in 0 .. Len(b)] == IF k = 0 THEN m ELSE After(view[k - 1], b[k])
    IN  view

End(m, b) == Sees(m, b)[Len(b)]

View == [Cell -> Nat]

LEMMA AfterTyped ==
  ASSUME NEW v \in View, NEW store \in StoreType
  PROVE  /\ After(v, store) \in View
         /\ After(v, store)[store.cell] = store.value
         /\ \A c \in Cell \ {store.cell} : After(v, store)[c] = v[c]
  BY DEF After, StoreType, View

LEMMA AfterStore ==
  ASSUME NEW v \in View, NEW store \in StoreType, NEW c, NEW n, store.cell = c, store.value = n,
         NEW w, w = After(v, store)
  PROVE  w[c] = n /\ \A d \in Cell \ {c} : w[d] = v[d]
  BY AfterTyped

(* The views, one by one. *)
LEMMA SeesIs ==
  ASSUME NEW m \in View, NEW b \in Seq(StoreType)
  PROVE  /\ \A k \in 0 .. Len(b) : Sees(m, b)[k] \in View
         /\ Sees(m, b)[0] = m
         /\ \A k \in 1 .. Len(b) : Sees(m, b)[k] = After(Sees(m, b)[k - 1], b[k])
  <1> DEFINE n     == Len(b)
             Is(f) == f = [k \in 0 .. n |-> IF k = 0 THEN m ELSE After(f[k - 1], b[k])]
             step  == [x \in (1 .. n) \X View |-> After(x[2], b[x[1]])]
             view  == CHOOSE f : Is(f)
  <1>1. n \in Nat /\ \A k \in 1 .. n : b[k] \in StoreType
    OBVIOUS
  <1>2. step \in [(1 .. n) \X View -> View]
    BY <1>1, AfterTyped
  <1>3. PICK f \in [0 .. n -> View] : Follows(f, m, step, n)
    <2> HIDE DEF step, n
    <2> QED BY <1>1, <1>2, RecursionTo
  <1>4. \A k \in 1 .. n : f[k] = After(f[k - 1], b[k])
    <2> TAKE k \in 1 .. n
    <2>1. f[k] = step[<<k, f[k - 1]>>]
      BY <1>3 DEF Follows
    <2>2. <<k, f[k - 1]>> \in (1 .. n) \X View
      BY <1>1
    <2> QED BY <2>1, <2>2
  <1>5. Is(f)
    BY <1>1, <1>3, <1>4 DEF Follows
  <1>6. Is(view)
    BY <1>5
  <1>7. Sees(m, b) = view
    BY DEF Sees
  <1> HIDE DEF view
  <1>8. view[0] = m /\ \A k \in 1 .. n : view[k] = After(view[k - 1], b[k])
    BY <1>1, <1>6
  <1> DEFINE S == {k \in 0 .. n : view[k] \in View}
  <1>9. 0 \in S
    BY <1>1, <1>8
  <1>10. ASSUME NEW k \in 0 .. n - 1, k \in S PROVE k + 1 \in S
    <2>1. k + 1 \in 1 .. n /\ (k + 1) - 1 = k /\ view[k] \in View
      BY <1>1, <1>10
    <2>2. view[k + 1] = After(view[k], b[k + 1])
      BY <1>8, <2>1
    <2>3. view[k + 1] \in View
      BY <1>1, <2>1, <2>2, AfterTyped
    <2> QED BY <1>1, <2>1, <2>3
  <1>11. 0 .. n \subseteq S
    <2> HIDE DEF S, n
    <2> QED BY <1>1, <1>9, <1>10, InductionTo
  <1> QED BY <1>7, <1>8, <1>11

(* The views of a longer sequence of stores begin with those of a shorter. *)
LEMMA SeesAppend ==
  ASSUME NEW m \in View, NEW b \in Seq(StoreType), NEW store \in StoreType
  PROVE  /\ \A k \in 0 .. Len(b) : Sees(m, Append(b, store))[k] = Sees(m, b)[k]
         /\ Sees(m, Append(b, store))[Len(b) + 1] = After(End(m, b), store)
         /\ Append(b, store) \in Seq(StoreType) /\ Len(Append(b, store)) = Len(b) + 1
  <1> DEFINE c == Append(b, store)
             n == Len(b)
             f == Sees(m, b)
             g == Sees(m, c)
  <1>1. /\ n \in Nat /\ c \in Seq(StoreType) /\ Len(c) = n + 1 /\ c[n + 1] = store
        /\ \A k \in 1 .. n : c[k] = b[k]
    OBVIOUS
  <1> HIDE DEF c
  <1>2. f[0] = m /\ \A k \in 1 .. n : f[k] = After(f[k - 1], b[k])
    BY SeesIs
  <1>3. g[0] = m /\ \A k \in 1 .. n + 1 : g[k] = After(g[k - 1], c[k])
    BY <1>1, SeesIs
  <1> HIDE DEF f, g
  <1> DEFINE S == {k \in 0 .. n : g[k] = f[k]}
  <1>4. 0 \in S
    BY <1>1, <1>2, <1>3
  <1>5. ASSUME NEW k \in 0 .. n - 1, k \in S PROVE k + 1 \in S
    <2>1. k + 1 \in 1 .. n /\ k + 1 \in 1 .. n + 1 /\ (k + 1) - 1 = k /\ g[k] = f[k]
      BY <1>1, <1>5
    <2>2. g[k + 1] = After(g[k], c[k + 1]) /\ f[k + 1] = After(f[k], b[k + 1])
      BY <1>2, <1>3, <2>1
    <2> QED BY <1>1, <2>1, <2>2
  <1>6. 0 .. n \subseteq S
    <2> HIDE DEF S, n
    <2> QED BY <1>1, <1>4, <1>5, InductionTo
  <1>7. n + 1 \in 1 .. n + 1 /\ (n + 1) - 1 = n /\ n \in 0 .. n
    BY <1>1
  <1>8. g[n + 1] = After(f[n], store)
    BY <1>1, <1>3, <1>6, <1>7
  <1> QED BY <1>1, <1>6, <1>8 DEF f, g, c, End

(* Once the oldest store is seen, the views are the remaining ones. *)
LEMMA SeesTail ==
  ASSUME NEW m \in View, NEW b \in Seq(StoreType), b # <<>>
  PROVE  \A k \in 0 .. Len(b) - 1 : Sees(After(m, b[1]), Tail(b))[k] = Sees(m, b)[k + 1]
  <1> DEFINE t == Tail(b)
             n == Len(b) - 1
             w == After(m, b[1])
             f == Sees(m, b)
             g == Sees(w, t)
  <1>1. /\ n \in Nat /\ t \in Seq(StoreType) /\ Len(t) = n /\ Len(b) = n + 1
        /\ b[1] \in StoreType
        /\ \A k \in 1 .. n : t[k] = b[k + 1]
    OBVIOUS
  <1> HIDE DEF t
  <1>2. f[0] = m /\ \A k \in 1 .. n + 1 : f[k] = After(f[k - 1], b[k])
    BY <1>1, SeesIs
  <1>3. w \in View
    BY <1>1, AfterTyped
  <1> HIDE DEF w, n
  <1>4. g[0] = w /\ \A k \in 1 .. n : g[k] = After(g[k - 1], t[k])
    BY <1>1, <1>3, SeesIs
  <1> HIDE DEF f, g
  <1> DEFINE S == {k \in 0 .. n : g[k] = f[k + 1]}
  <1>5. 0 \in S
    <2>1. 1 \in 1 .. n + 1 /\ 1 - 1 = 0 /\ 0 + 1 = 1 /\ 0 \in 0 .. n
      BY <1>1
    <2>2. f[1] = After(m, b[1])
      BY <1>2, <2>1
    <2> QED BY <1>4, <2>1, <2>2 DEF w
  <1>6. ASSUME NEW k \in 0 .. n - 1, k \in S PROVE k + 1 \in S
    <2>1. /\ k + 1 \in 1 .. n /\ (k + 1) - 1 = k /\ k + 2 \in 1 .. n + 1 /\ (k + 2) - 1 = k + 1
          /\ (k + 1) + 1 = k + 2 /\ g[k] = f[k + 1]
      BY <1>1, <1>6
    <2>2. g[k + 1] = After(g[k], t[k + 1]) /\ f[k + 2] = After(f[k + 1], b[k + 2])
      BY <1>2, <1>4, <2>1
    <2>3. t[k + 1] = b[k + 2]
      BY <1>1, <2>1
    <2> QED BY <1>1, <2>1, <2>2, <2>3
  <1>7. 0 .. n \subseteq S
    <2> HIDE DEF S, n
    <2> QED BY <1>1, <1>5, <1>6, InductionTo
  <1> QED BY <1>7 DEF f, g, w, t, n

-----------------------------------------------------------------------------
(* The loops, in what the audio thread will see.                           *)

(* The slot in use, and the other one. *)
Using(v) == v["activeLoopSlot"]
Spare(v) == 1 - Using(v)

(* The other slot is from an earlier call, or neither was ever written. *)
Older(y, x, s) ==
    \/ y < x
    \/ y = 0 /\ x = 0 /\ s = 0

OlderOut(v) == Older(v[OutCell(Spare(v))], v[InCell(Using(v))], Using(v))

AtRest(v) == v[InCell(Spare(v))] = v[OutCell(Spare(v))] /\ OlderOut(v)

(* Whenever it is looked at: the points in use are of one call, and no     *)
(* older than the buffer; the other slot rests, or the next call has       *)
(* written its first member, or both.                                      *)
ViewOK(v) ==
    /\ Using(v) \in {0, 1}
    /\ v[InCell(Using(v))] = v[OutCell(Using(v))]
    /\ v["activeBuffer"] <= v[InCell(Using(v))]
    /\ Using(v) = 1 => v[InCell(Using(v))] > 0
    /\ \/ AtRest(v)
       \/ v[InCell(Using(v))] < v[InCell(Spare(v))] /\ OlderOut(v)
       \/ /\ v[InCell(Using(v))] < v[InCell(Spare(v))]
          /\ v[InCell(Spare(v))] = v[OutCell(Spare(v))]

(* From one store to the next: points only become newer, and a first       *)
(* member is written only in the other slot, at rest, by a call newer than *)
(* the points in use.                                                      *)
StepOK(v, w) ==
    /\ \A s \in {0, 1} : v[InCell(s)] <= w[InCell(s)] /\ v[OutCell(s)] <= w[OutCell(s)]
    /\ v[InCell(Using(v))] <= w[InCell(Using(w))]
    /\ \A s \in {0, 1} : v[InCell(s)] # w[InCell(s)] =>
         s = Spare(v) /\ AtRest(v) /\ v[InCell(Using(v))] < w[InCell(s)]

ViewsOK(m, b) ==
    /\ \A k \in 0 .. Len(b) : ViewOK(Sees(m, b)[k])
    /\ \A k \in 1 .. Len(b) : StepOK(Sees(m, b)[k - 1], Sees(m, b)[k])

(* When all is seen, the message thread finds the loops as it left them. *)
LeftAt(w, s, n) == AtRest(w) /\ Using(w) = s /\ w[InCell(s)] <= n

(* The members of the slots, one by one. *)
LEMMA SlotCells ==
  /\ InCell(0) = "in0" /\ InCell(1) = "in1" /\ OutCell(0) = "out0" /\ OutCell(1) = "out1"
  /\ 1 - 0 = 1 /\ 1 - 1 = 0
  BY DEF InCell, OutCell

(* A call writes the first member of the other slot. *)
LEMMA FirstMember ==
  ASSUME NEW v \in View, NEW w \in View, NEW n \in Nat, ViewOK(v), AtRest(v),
         v[InCell(Using(v))] < n,
         w[InCell(Spare(v))] = n,
         \A c \in Cell \ {InCell(Spare(v))} : w[c] = v[c]
  PROVE  /\ ViewOK(w) /\ StepOK(v, w) /\ OlderOut(w)
         /\ Using(w) = Using(v) /\ w[InCell(Using(w))] < n
  <1> USE SlotCells DEF View, Cell
  <1>1. Using(v) \in {0, 1}
    BY DEF ViewOK
  <1>2. CASE Using(v) = 0
    <2>1. /\ w["in1"] = n /\ w["in0"] = v["in0"] /\ w["out0"] = v["out0"]
          /\ w["out1"] = v["out1"] /\ w["activeBuffer"] = v["activeBuffer"]
          /\ w["activeLoopSlot"] = 0 /\ v["activeLoopSlot"] = 0
      BY <1>2 DEF Spare, Using
    <2> QED BY <2>1 DEF ViewOK, AtRest, OlderOut, Older, StepOK, Spare, Using
  <1>3. CASE Using(v) = 1
    <2>1. /\ w["in0"] = n /\ w["in1"] = v["in1"] /\ w["out0"] = v["out0"]
          /\ w["out1"] = v["out1"] /\ w["activeBuffer"] = v["activeBuffer"]
          /\ w["activeLoopSlot"] = 1 /\ v["activeLoopSlot"] = 1
      BY <1>3 DEF Spare, Using
    <2> QED BY <2>1 DEF ViewOK, AtRest, OlderOut, Older, StepOK, Spare, Using
  <1> QED BY <1>1, <1>2, <1>3

(* Then the second, *)
LEMMA SecondMember ==
  ASSUME NEW v \in View, NEW w \in View, NEW n \in Nat, ViewOK(v), OlderOut(v),
         v[InCell(Using(v))] < n, v[InCell(Spare(v))] = n,
         w[OutCell(Spare(v))] = n,
         \A c \in Cell \ {OutCell(Spare(v))} : w[c] = v[c]
  PROVE  /\ ViewOK(w) /\ StepOK(v, w)
         /\ Using(w) = Using(v) /\ w[InCell(Using(w))] < n
         /\ w[InCell(Spare(w))] = n /\ w[OutCell(Spare(w))] = n
  <1> USE SlotCells DEF View, Cell
  <1>1. Using(v) \in {0, 1}
    BY DEF ViewOK
  <1>2. CASE Using(v) = 0
    <2>1. /\ w["out1"] = n /\ w["in0"] = v["in0"] /\ w["out0"] = v["out0"]
          /\ w["in1"] = v["in1"] /\ w["activeBuffer"] = v["activeBuffer"]
          /\ w["activeLoopSlot"] = 0 /\ v["activeLoopSlot"] = 0
      BY <1>2 DEF Spare, Using
    <2> QED BY <2>1 DEF ViewOK, AtRest, OlderOut, Older, StepOK, Spare, Using
  <1>3. CASE Using(v) = 1
    <2>1. /\ w["out0"] = n /\ w["in1"] = v["in1"] /\ w["in0"] = v["in0"]
          /\ w["out1"] = v["out1"] /\ w["activeBuffer"] = v["activeBuffer"]
          /\ w["activeLoopSlot"] = 1 /\ v["activeLoopSlot"] = 1
      BY <1>3 DEF Spare, Using
    <2> QED BY <2>1 DEF ViewOK, AtRest, OlderOut, Older, StepOK, Spare, Using
  <1> QED BY <1>1, <1>2, <1>3

(* and the index flips. *)
LEMMA SlotFlips ==
  ASSUME NEW v \in View, NEW w \in View, NEW n \in Nat, ViewOK(v),
         v[InCell(Using(v))] < n, v[InCell(Spare(v))] = n, v[OutCell(Spare(v))] = n,
         w["activeLoopSlot"] = Spare(v),
         \A c \in Cell \ {"activeLoopSlot"} : w[c] = v[c]
  PROVE  /\ ViewOK(w) /\ StepOK(v, w)
         /\ AtRest(w) /\ Using(w) = Spare(v) /\ w[InCell(Using(w))] = n
  <1> USE SlotCells DEF View, Cell
  <1>1. Using(v) \in {0, 1}
    BY DEF ViewOK
  <1>2. /\ w["in0"] = v["in0"] /\ w["out0"] = v["out0"] /\ w["in1"] = v["in1"]
        /\ w["out1"] = v["out1"] /\ w["activeBuffer"] = v["activeBuffer"]
    OBVIOUS
  <1>3. CASE Using(v) = 0
    <2>1. w["activeLoopSlot"] = 1 /\ v["activeLoopSlot"] = 0
      BY <1>3 DEF Spare, Using
    <2> QED BY <1>2, <2>1 DEF ViewOK, AtRest, OlderOut, Older, StepOK, Spare, Using
  <1>4. CASE Using(v) = 1
    <2>1. w["activeLoopSlot"] = 0 /\ v["activeLoopSlot"] = 1
      BY <1>4 DEF Spare, Using
    <2> QED BY <1>2, <2>1 DEF ViewOK, AtRest, OlderOut, Older, StepOK, Spare, Using
  <1> QED BY <1>1, <1>3, <1>4

(* A buffer no newer than the loop may be published. *)
LEMMA BufferStored ==
  ASSUME NEW v \in View, NEW w \in View, ViewOK(v), AtRest(v),
         w["activeBuffer"] <= v[InCell(Using(v))],
         \A c \in Cell \ {"activeBuffer"} : w[c] = v[c]
  PROVE  /\ ViewOK(w) /\ StepOK(v, w)
         /\ AtRest(w) /\ Using(w) = Using(v) /\ w[InCell(Using(w))] = v[InCell(Using(v))]
  <1> USE SlotCells DEF View, Cell
  <1>1. Using(v) \in {0, 1}
    BY DEF ViewOK
  <1>2. /\ w["in0"] = v["in0"] /\ w["out0"] = v["out0"] /\ w["in1"] = v["in1"]
        /\ w["out1"] = v["out1"] /\ w["activeLoopSlot"] = v["activeLoopSlot"]
    OBVIOUS
  <1>3. CASE Using(v) = 0
    BY <1>2, <1>3 DEF ViewOK, AtRest, OlderOut, Older, StepOK, Spare, Using
  <1>4. CASE Using(v) = 1
    BY <1>2, <1>4 DEF ViewOK, AtRest, OlderOut, Older, StepOK, Spare, Using
  <1> QED BY <1>1, <1>3, <1>4

(* The cells of the loops and the buffer; the others say nothing of them. *)
LoopCell == {"activeBuffer", "activeLoopSlot", "in0", "out0", "in1", "out1"}

SameLoops(v, w) == \A c \in LoopCell : v[c] = w[c]

LEMMA SameLoopsOK ==
  ASSUME NEW v, NEW w, SameLoops(v, w), Using(v) \in {0, 1}
  PROVE  /\ Using(w) = Using(v) /\ ViewOK(v) = ViewOK(w) /\ AtRest(v) = AtRest(w)
         /\ \A s \in {0, 1} : v[InCell(s)] = w[InCell(s)] /\ v[OutCell(s)] = w[OutCell(s)]
  <1>1. /\ w["in0"] = v["in0"] /\ w["out0"] = v["out0"] /\ w["in1"] = v["in1"]
        /\ w["out1"] = v["out1"] /\ w["activeLoopSlot"] = v["activeLoopSlot"]
        /\ w["activeBuffer"] = v["activeBuffer"]
    BY DEF SameLoops, LoopCell
  <1>2. Using(w) = Using(v) /\ Spare(w) = Spare(v)
    BY <1>1 DEF Using, Spare
  <1>3. Spare(v) \in {0, 1}
    BY DEF Spare
  <1>4. \A s \in {0, 1} : v[InCell(s)] = w[InCell(s)] /\ v[OutCell(s)] = w[OutCell(s)]
    BY <1>1, SlotCells
  <1>5. OlderOut(v) = OlderOut(w)
    BY <1>2, <1>3, <1>4 DEF OlderOut
  <1>6. AtRest(v) = AtRest(w)
    BY <1>2, <1>3, <1>4, <1>5 DEF AtRest
  <1>7. ViewOK(v) = ViewOK(w)
    BY <1>1, <1>2, <1>3, <1>4, <1>5, <1>6 DEF ViewOK
  <1> QED BY <1>2, <1>4, <1>6, <1>7

LEMMA SameLoopsStep ==
  ASSUME NEW v, NEW w, NEW x, NEW y, SameLoops(v, x), SameLoops(w, y),
         ViewOK(v), ViewOK(w), StepOK(v, w)
  PROVE  StepOK(x, y)
  <1>1. Using(v) \in {0, 1} /\ Using(w) \in {0, 1}
    BY DEF ViewOK
  <1>2. /\ Using(x) = Using(v) /\ AtRest(v) = AtRest(x)
        /\ \A s \in {0, 1} : v[InCell(s)] = x[InCell(s)] /\ v[OutCell(s)] = x[OutCell(s)]
    BY <1>1, SameLoopsOK
  <1>3. /\ Using(y) = Using(w)
        /\ \A s \in {0, 1} : w[InCell(s)] = y[InCell(s)] /\ w[OutCell(s)] = y[OutCell(s)]
    BY <1>1, SameLoopsOK
  <1> QED BY <1>1, <1>2, <1>3 DEF StepOK, Spare

-----------------------------------------------------------------------------
(* Stores that are issued, and the oldest that is seen.                    *)

LEMMA EndTyped ==
  ASSUME NEW m \in View, NEW b \in Seq(StoreType)
  PROVE  End(m, b) \in View /\ (ViewsOK(m, b) => ViewOK(End(m, b)))
  <1>1. Len(b) \in 0 .. Len(b)
    OBVIOUS
  <1> QED BY <1>1, SeesIs DEF End, ViewsOK

LEMMA OneMore ==
  ASSUME NEW m \in View, NEW b \in Seq(StoreType), NEW store \in StoreType, ViewsOK(m, b),
         ViewOK(After(End(m, b), store)), StepOK(End(m, b), After(End(m, b), store))
  PROVE  /\ ViewsOK(m, Append(b, store)) /\ End(m, Append(b, store)) = After(End(m, b), store)
         /\ Append(b, store) \in Seq(StoreType)
  <1> DEFINE c == Append(b, store)
             n == Len(b)
             f == Sees(m, b)
             g == Sees(m, c)
             w == After(End(m, b), store)
  <1>1. /\ \A k \in 0 .. n : g[k] = f[k]
        /\ g[n + 1] = w /\ c \in Seq(StoreType) /\ Len(c) = n + 1 /\ n \in Nat
    BY SeesAppend
  <1>2. f[n] = End(m, b)
    BY DEF End
  <1>3. \A k \in 0 .. n : ViewOK(f[k])
    BY DEF ViewsOK
  <1>4. \A k \in 1 .. n : StepOK(f[k - 1], f[k])
    BY DEF ViewsOK
  <1> HIDE DEF c, f, g, w
  <1>5. ASSUME NEW k \in 0 .. n + 1 PROVE ViewOK(g[k])
    <2>1. CASE k = n + 1
      BY <1>1, <2>1 DEF w
    <2>2. CASE k \in 0 .. n
      BY <1>1, <1>3, <2>2
    <2> QED BY <1>1, <2>1, <2>2
  <1>6. ASSUME NEW k \in 1 .. n + 1 PROVE StepOK(g[k - 1], g[k])
    <2>1. CASE k = n + 1
      <3>1. k - 1 = n /\ n \in 0 .. n
        BY <1>1, <2>1
      <3>2. g[k - 1] = End(m, b) /\ g[k] = w
        BY <1>1, <1>2, <2>1, <3>1
      <3> QED BY <3>2 DEF w
    <2>2. CASE k \in 1 .. n
      <3>1. k - 1 \in 0 .. n /\ k \in 0 .. n
        BY <1>1, <2>2
      <3>2. g[k - 1] = f[k - 1] /\ g[k] = f[k]
        BY <1>1, <3>1
      <3> QED BY <1>4, <2>2, <3>2
    <2> QED BY <1>1, <2>1, <2>2
  <1>7. ViewsOK(m, c)
    BY <1>1, <1>5, <1>6 DEF ViewsOK, g
  <1>8. End(m, c) = w
    BY <1>1 DEF End, g
  <1> QED BY <1>1, <1>7, <1>8 DEF c, w

(* Two views with the same loops. *)
LEMMA NothingNew ==
  ASSUME NEW v \in View, NEW w, SameLoops(v, w), ViewOK(v)
  PROVE  ViewOK(w) /\ StepOK(v, w)
  <1>1. Using(v) \in {0, 1}
    BY DEF ViewOK
  <1>2. /\ Using(w) = Using(v) /\ ViewOK(w)
        /\ \A s \in {0, 1} : v[InCell(s)] = w[InCell(s)] /\ v[OutCell(s)] = w[OutCell(s)]
    BY <1>1, SameLoopsOK
  <1>3. \A s \in {0, 1} : v[InCell(s)] \in Nat /\ v[OutCell(s)] \in Nat
    BY SlotCells DEF View, Cell
  <1> QED BY <1>1, <1>2, <1>3 DEF StepOK

(* A store of the play flag or of a seek. *)
LEMMA AsideStored ==
  ASSUME NEW m \in View, NEW b \in Seq(StoreType), NEW store \in StoreType, ViewsOK(m, b),
         store.cell \notin LoopCell
  PROVE  /\ ViewsOK(m, Append(b, store)) /\ Append(b, store) \in Seq(StoreType)
         /\ \A s \in {0, 1}, n \in Int : LeftAt(End(m, b), s, n) => LeftAt(End(m, Append(b, store)), s, n)
  <1> DEFINE v == End(m, b)
             w == After(v, store)
  <1>1. v \in View /\ ViewOK(v)
    BY EndTyped
  <1>2. SameLoops(v, w)
    <2>1. \A c \in Cell \ {store.cell} : w[c] = v[c]
      BY <1>1, AfterTyped
    <2> QED BY <2>1 DEF SameLoops, LoopCell, Cell
  <1> HIDE DEF w, v
  <1>3. ViewOK(w) /\ StepOK(v, w)
    BY <1>1, <1>2, NothingNew
  <1>4. /\ ViewsOK(m, Append(b, store)) /\ End(m, Append(b, store)) = w
        /\ Append(b, store) \in Seq(StoreType)
    BY <1>3, OneMore DEF v, w
  <1>5. Using(v) \in {0, 1}
    BY <1>1 DEF ViewOK
  <1>6. /\ Using(w) = Using(v) /\ AtRest(v) = AtRest(w)
        /\ \A s \in {0, 1} : v[InCell(s)] = w[InCell(s)]
    BY <1>2, <1>5, SameLoopsOK
  <1>7. \A s \in {0, 1}, n \in Int : LeftAt(v, s, n) => LeftAt(w, s, n)
    BY <1>6 DEF LeftAt
  <1> QED BY <1>4, <1>7 DEF v

(* One by one. *)
LEMMA AppendOne ==
  ASSUME NEW S, NEW b \in Seq(S), NEW x \in S
  PROVE  Append(b, x) \in Seq(S)
  OBVIOUS

LEMMA AppendTwo ==
  ASSUME NEW S, NEW b \in Seq(S), NEW x \in S, NEW y \in S
  PROVE  b \o <<x, y>> = Append(Append(b, x), y)
  OBVIOUS

LEMMA AppendThree ==
  ASSUME NEW S, NEW b \in Seq(S), NEW x \in S, NEW y \in S, NEW z \in S
  PROVE  b \o <<x, y, z>> = Append(Append(Append(b, x), y), z)
  OBVIOUS

(* A seek. *)
LEMMA SeekStored ==
  ASSUME TypeOK, NEW n \in Nat, NEW m \in View, NEW b \in Seq(StoreType), ViewsOK(m, b)
  PROVE  /\ ViewsOK(m, b \o SeekStores(n)) /\ b \o SeekStores(n) \in Seq(StoreType)
         /\ \A s \in {0, 1}, k \in Int :
              LeftAt(End(m, b), s, k) => LeftAt(End(m, b \o SeekStores(n)), s, k)
  <1>1. PICK x \in StoreType : x = Store("pendingSeekSamples", n)
    BY StoreTyped DEF TypeOK, Cell
  <1>2. PICK y \in StoreType : y = Store("seekPending", n)
    BY StoreTyped DEF TypeOK, Cell
  <1>3. x.cell \notin LoopCell /\ y.cell \notin LoopCell
    BY <1>1, <1>2 DEF Store, LoopCell
  <1>4. b \o SeekStores(n) = Append(Append(b, x), y)
    BY <1>1, <1>2, AppendTwo DEF SeekStores
  <1>5. PICK c \in Seq(StoreType) : c = Append(b, x)
    BY AppendOne
  <1>6. /\ ViewsOK(m, c)
        /\ \A s \in {0, 1}, k \in Int : LeftAt(End(m, b), s, k) => LeftAt(End(m, c), s, k)
    BY <1>3, <1>5, AsideStored
  <1>7. /\ ViewsOK(m, Append(c, y)) /\ Append(c, y) \in Seq(StoreType)
        /\ \A s \in {0, 1}, k \in Int : LeftAt(End(m, c), s, k) => LeftAt(End(m, Append(c, y)), s, k)
    BY <1>3, <1>6, AsideStored
  <1> QED BY <1>4, <1>5, <1>6, <1>7

(* A loop: the other slot, then the index. *)
LEMMA LoopStored ==
  ASSUME TypeOK, NEW n \in Nat, NEW k \in Nat, k < n,
         NEW m \in View, NEW b \in Seq(StoreType), ViewsOK(m, b), LeftAt(End(m, b), slot, k)
  PROVE  /\ ViewsOK(m, b \o LoopStores(n)) /\ b \o LoopStores(n) \in Seq(StoreType)
         /\ LeftAt(End(m, b \o LoopStores(n)), InactiveSlot, n)
         /\ End(m, b \o LoopStores(n))[InCell(InactiveSlot)] = n
  <1>1. PICK v \in View : v = End(m, b)
    BY EndTyped
  <1>2. ViewOK(v) /\ AtRest(v) /\ Using(v) = slot /\ Spare(v) = InactiveSlot
    BY <1>1, EndTyped DEF LeftAt, Spare, InactiveSlot
  <1>3. v[InCell(Using(v))] < n
    <2>1. v[InCell(Using(v))] <= k /\ slot \in {0, 1}
      BY <1>1, <1>2 DEF LeftAt, TypeOK
    <2>2. v[InCell(Using(v))] \in Nat
      BY <1>2, <2>1, SlotCells DEF View, Cell
    <2> QED BY <2>1, <2>2
  <1>4. PICK s \in {0, 1} : s = InactiveSlot
    BY DEF TypeOK, InactiveSlot
  <1>5. InCell(s) \in Cell /\ OutCell(s) \in Cell /\ InCell(s) # "activeLoopSlot"
        /\ OutCell(s) # "activeLoopSlot"
    BY SlotCells DEF Cell
  <1>6. PICK x \in StoreType : x = Store(InCell(s), n)
    BY <1>5, StoreTyped DEF TypeOK
  <1>7. PICK y \in StoreType : y = Store(OutCell(s), n)
    BY <1>5, StoreTyped DEF TypeOK
  <1>8. PICK z \in StoreType : z = Store("activeLoopSlot", s)
    BY <1>4, StoreTyped DEF TypeOK, Cell
  <1>9. b \o LoopStores(n) = Append(Append(Append(b, x), y), z)
    BY <1>4, <1>6, <1>7, <1>8, AppendThree DEF LoopStores
  <1>10. /\ x.cell = InCell(s) /\ x.value = n /\ y.cell = OutCell(s) /\ y.value = n
         /\ z.cell = "activeLoopSlot" /\ z.value = s
    BY <1>6, <1>7, <1>8 DEF Store
  <1>11. PICK v1 \in View : v1 = After(v, x)
    BY AfterTyped
  <1>12. /\ ViewOK(v1) /\ StepOK(v, v1) /\ OlderOut(v1)
         /\ Using(v1) = Using(v) /\ v1[InCell(Using(v1))] < n
         /\ v1[InCell(Spare(v1))] = n
    <2>1. v1[InCell(s)] = n /\ \A c \in Cell \ {InCell(s)} : v1[c] = v[c]
      BY <1>10, <1>11, AfterStore
    <2>3. Spare(v) = s
      BY <1>2, <1>4
    <2>2. /\ ViewOK(v1) /\ StepOK(v, v1) /\ OlderOut(v1)
          /\ Using(v1) = Using(v) /\ v1[InCell(Using(v1))] < n
      BY <1>2, <1>3, <2>1, <2>3, FirstMember
    <2> QED BY <2>1, <2>2, <2>3 DEF Spare
  <1>13. PICK v2 \in View : v2 = After(v1, y)
    BY AfterTyped
  <1>14. /\ ViewOK(v2) /\ StepOK(v1, v2)
         /\ Using(v2) = Using(v) /\ v2[InCell(Using(v2))] < n
         /\ v2[InCell(Spare(v2))] = n /\ v2[OutCell(Spare(v2))] = n
    <2>1. v2[OutCell(s)] = n /\ \A c \in Cell \ {OutCell(s)} : v2[c] = v1[c]
      BY <1>10, <1>13, AfterStore
    <2>2. Spare(v1) = s
      BY <1>2, <1>4, <1>12 DEF Spare
    <2>3. /\ ViewOK(v2) /\ StepOK(v1, v2)
          /\ Using(v2) = Using(v1) /\ v2[InCell(Using(v2))] < n
          /\ v2[InCell(Spare(v2))] = n /\ v2[OutCell(Spare(v2))] = n
      BY <1>12, <2>1, <2>2, SecondMember
    <2> QED BY <1>12, <2>3
  <1>15. PICK v3 \in View : v3 = After(v2, z)
    BY AfterTyped
  <1>16. /\ ViewOK(v3) /\ StepOK(v2, v3)
         /\ AtRest(v3) /\ Using(v3) = s /\ v3[InCell(s)] = n
    <2>1. Spare(v2) = s
      BY <1>2, <1>4, <1>14 DEF Spare
    <2>2. v3["activeLoopSlot"] = Spare(v2) /\ \A c \in Cell \ {"activeLoopSlot"} : v3[c] = v2[c]
      BY <1>10, <1>15, <2>1, AfterStore
    <2> QED BY <1>14, <2>1, <2>2, SlotFlips
  <1>17. PICK b1 \in Seq(StoreType) : b1 = Append(b, x)
    BY AppendOne
  <1>18. ViewsOK(m, b1) /\ End(m, b1) = v1
    BY <1>1, <1>11, <1>12, <1>17, OneMore
  <1>19. PICK b2 \in Seq(StoreType) : b2 = Append(b1, y)
    BY AppendOne
  <1>20. ViewsOK(m, b2) /\ End(m, b2) = v2
    BY <1>13, <1>14, <1>18, <1>19, OneMore
  <1>21. ViewsOK(m, Append(b2, z)) /\ End(m, Append(b2, z)) = v3
         /\ Append(b2, z) \in Seq(StoreType)
    BY <1>15, <1>16, <1>20, OneMore
  <1>22. b \o LoopStores(n) = Append(b2, z)
    BY <1>9, <1>17, <1>19
  <1>23. LeftAt(v3, s, n)
    BY <1>16 DEF LeftAt
  <1> QED BY <1>4, <1>16, <1>21, <1>22, <1>23

(* All at once. *)
LEMMA AppendMany ==
  ASSUME NEW S, NEW b \in Seq(S), NEW s \in Seq(S), NEW t \in Seq(S)
  PROVE  s \o t \in Seq(S) /\ b \o (s \o t) = (b \o s) \o t
  OBVIOUS

(* A load: a seek, a loop, and the buffer. *)
LEMMA LoadJoins ==
  ASSUME NEW n, NEW p, NEW b \in Seq(StoreType), SeekStores(n) \in Seq(StoreType),
         LoopStores(n) \in Seq(StoreType), Store("activeBuffer", p) \in StoreType
  PROVE  b \o LoadStores(n, p) =
           Append((b \o SeekStores(n)) \o LoopStores(n), Store("activeBuffer", p))
  <1>1. PICK s \in Seq(StoreType) : s = SeekStores(n)
    OBVIOUS
  <1>2. PICK t \in Seq(StoreType) : t = LoopStores(n)
    OBVIOUS
  <1>3. PICK x \in StoreType : x = Store("activeBuffer", p)
    OBVIOUS
  <1>4. <<x>> \in Seq(StoreType)
    OBVIOUS
  <1>5. s \o t \in Seq(StoreType) /\ b \o (s \o t) = (b \o s) \o t
    BY AppendMany
  <1>6. PICK u \in Seq(StoreType) : u = s \o t
    BY <1>5
  <1>7. b \o u \in Seq(StoreType) /\ b \o (u \o <<x>>) = (b \o u) \o <<x>>
    BY <1>4, AppendMany
  <1>8. (b \o u) \o <<x>> = Append(b \o u, x)
    BY <1>7
  <1>9. b \o (s \o t \o <<x>>) = Append((b \o s) \o t, x)
    BY <1>5, <1>6, <1>7, <1>8
  <1> QED BY <1>1, <1>2, <1>3, <1>9 DEF LoadStores

LEMMA LoadStored ==
  ASSUME TypeOK, NEW n \in Nat, NEW k \in Nat, k < n, NEW p \in {None, n},
         NEW m \in View, NEW b \in Seq(StoreType), ViewsOK(m, b), LeftAt(End(m, b), slot, k)
  PROVE  /\ ViewsOK(m, b \o LoadStores(n, p))
         /\ LeftAt(End(m, b \o LoadStores(n, p)), InactiveSlot, n)
  <1>1. PICK c \in Seq(StoreType) : c = b \o SeekStores(n)
    BY SeekStored
  <1>2. slot \in {0, 1}
    BY DEF TypeOK
  <1>3. ViewsOK(m, c) /\ LeftAt(End(m, c), slot, k)
    BY <1>1, <1>2, SeekStored
  <1>4. PICK d \in Seq(StoreType) : d = c \o LoopStores(n)
    BY <1>3, LoopStored
  <1>5. /\ ViewsOK(m, d) /\ LeftAt(End(m, d), InactiveSlot, n)
        /\ End(m, d)[InCell(InactiveSlot)] = n
    BY <1>3, <1>4, LoopStored
  <1>6. p \in Nat /\ p <= n
    BY DEF None
  <1>7. PICK x \in StoreType : x = Store("activeBuffer", p)
    BY <1>6, StoreTyped DEF TypeOK, Cell
  <1>8. b \o LoadStores(n, p) = Append(d, x)
    <2>1. SeekStores(n) \in Seq(StoreType) /\ LoopStores(n) \in Seq(StoreType)
      BY SeekStoresTyped, LoopStoresTyped DEF TypeOK
    <2>2. b \o LoadStores(n, p) =
            Append((b \o SeekStores(n)) \o LoopStores(n), Store("activeBuffer", p))
      BY <1>7, <2>1, LoadJoins
    <2> QED BY <1>1, <1>4, <1>7, <2>2
  <1>9. PICK v \in View : v = End(m, d)
    BY EndTyped
  <1>10. PICK w \in View : w = After(v, x)
    BY AfterTyped
  <1>11. x.cell = "activeBuffer" /\ x.value = p
    BY <1>7 DEF Store
  <1>12. w["activeBuffer"] = p /\ \A c1 \in Cell \ {"activeBuffer"} : w[c1] = v[c1]
    BY <1>10, <1>11, AfterTyped
  <1>13. ViewOK(v) /\ AtRest(v) /\ Using(v) = InactiveSlot /\ v[InCell(Using(v))] = n
    BY <1>5, <1>9, EndTyped DEF LeftAt
  <1>14. /\ ViewOK(w) /\ StepOK(v, w) /\ AtRest(w) /\ Using(w) = InactiveSlot
         /\ w[InCell(InactiveSlot)] = n
    BY <1>6, <1>12, <1>13, BufferStored
  <1>15. ViewsOK(m, Append(d, x)) /\ End(m, Append(d, x)) = w
    BY <1>5, <1>9, <1>10, <1>14, OneMore
  <1>16. LeftAt(w, InactiveSlot, n)
    BY <1>14 DEF LeftAt
  <1> QED BY <1>8, <1>15, <1>16

(* The oldest store is seen: the views are the remaining ones. *)
LEMMA OneSeen ==
  ASSUME NEW m \in View, NEW b \in Seq(StoreType), b # <<>>, ViewsOK(m, b)
  PROVE  /\ ViewsOK(After(m, b[1]), Tail(b)) /\ End(After(m, b[1]), Tail(b)) = End(m, b)
         /\ ViewOK(m) /\ ViewOK(After(m, b[1])) /\ StepOK(m, After(m, b[1]))
  <1> DEFINE t == Tail(b)
             n == Len(t)
             w == After(m, b[1])
             f == Sees(m, b)
             g == Sees(w, t)
  <1>1. n \in Nat /\ Len(b) = n + 1 /\ t \in Seq(StoreType) /\ b[1] \in StoreType
    OBVIOUS
  <1>2. \A k \in 0 .. n : g[k] = f[k + 1]
    <2>1. \A k \in 0 .. Len(b) - 1 : g[k] = f[k + 1]
      BY SeesTail
    <2>2. Len(b) - 1 = n
      BY <1>1
    <2> QED BY <2>1, <2>2
  <1>3. \A k \in 0 .. n + 1 : ViewOK(f[k])
    BY <1>1 DEF ViewsOK
  <1>4. \A k \in 1 .. n + 1 : StepOK(f[k - 1], f[k])
    BY <1>1 DEF ViewsOK
  <1>5. f[0] = m
    BY SeesIs
  <1>6. w \in View
    BY <1>1, AfterTyped
  <1>7. g[0] = w
    BY <1>1, <1>6, SeesIs
  <1>8. End(m, b) = f[n + 1] /\ End(w, t) = g[n]
    BY <1>1 DEF End
  <1> HIDE DEF f, g, w, t, n
  <1>9. \A k \in 0 .. n : ViewOK(g[k])
    <2> TAKE k \in 0 .. n
    <2>1. k + 1 \in 0 .. n + 1
      BY <1>1
    <2> QED BY <1>2, <1>3, <2>1
  <1>10. \A k \in 1 .. n : StepOK(g[k - 1], g[k])
    <2> TAKE k \in 1 .. n
    <2>1. k - 1 \in 0 .. n /\ k \in 0 .. n /\ (k - 1) + 1 = k /\ k + 1 \in 1 .. n + 1
          /\ (k + 1) - 1 = k
      BY <1>1
    <2>2. g[k - 1] = f[k] /\ g[k] = f[k + 1]
      BY <1>2, <2>1
    <2>3. StepOK(f[k], f[k + 1])
      BY <1>4, <2>1
    <2> QED BY <2>2, <2>3
  <1>11. 0 \in 0 .. n /\ n \in 0 .. n /\ 0 + 1 = 1 /\ 1 \in 1 .. n + 1 /\ 1 - 1 = 0
         /\ 0 \in 0 .. n + 1 /\ 1 \in 0 .. n + 1
    BY <1>1
  <1>12. f[1] = w
    BY <1>2, <1>7, <1>11
  <1>13. ViewOK(m) /\ ViewOK(w) /\ StepOK(m, w)
    BY <1>3, <1>4, <1>5, <1>11, <1>12
  <1>14. ViewsOK(w, t)
    BY <1>9, <1>10 DEF ViewsOK, g, n
  <1>15. End(w, t) = End(m, b)
    BY <1>2, <1>8, <1>11
  <1> QED BY <1>13, <1>14, <1>15 DEF w, t

(* A flag that the audio thread clears is none of the loops. *)
LEMMA SeesCleared ==
  ASSUME NEW m \in View, NEW x \in View, NEW b \in Seq(StoreType), SameLoops(m, x),
         ViewsOK(m, b)
  PROVE  /\ ViewsOK(x, b)
         /\ \A s \in {0, 1}, n \in Int : LeftAt(End(m, b), s, n) => LeftAt(End(x, b), s, n)
  <1> DEFINE n == Len(b)
             f == Sees(m, b)
             g == Sees(x, b)
             S == {k \in 0 .. n : SameLoops(f[k], g[k])}
  <1>1. n \in Nat /\ \A k \in 1 .. n : b[k] \in StoreType
    OBVIOUS
  <1>2. /\ f[0] = m /\ \A k \in 1 .. n : f[k] = After(f[k - 1], b[k])
        /\ \A k \in 0 .. n : f[k] \in View
    BY SeesIs
  <1>3. /\ g[0] = x /\ \A k \in 1 .. n : g[k] = After(g[k - 1], b[k])
        /\ \A k \in 0 .. n : g[k] \in View
    BY SeesIs
  <1>4. End(m, b) = f[n] /\ End(x, b) = g[n] /\ n \in 0 .. n
    BY <1>1 DEF End
  <1>5. (\A k \in 0 .. n : ViewOK(f[k])) /\ (\A k \in 1 .. n : StepOK(f[k - 1], f[k]))
    BY DEF ViewsOK
  <1> HIDE DEF f, g
  <1>6. 0 \in S
    BY <1>1, <1>2, <1>3
  <1>7. ASSUME NEW k \in 0 .. n - 1, k \in S PROVE k + 1 \in S
    <2>1. k \in 0 .. n /\ k + 1 \in 1 .. n /\ k + 1 \in 0 .. n /\ (k + 1) - 1 = k
      BY <1>1, <1>7
    <2>2. f[k + 1] = After(f[k], b[k + 1]) /\ g[k + 1] = After(g[k], b[k + 1])
      BY <1>2, <1>3, <2>1
    <2>3. PICK v \in View : v = f[k]
      BY <1>2, <2>1
    <2>4. PICK w \in View : w = g[k]
      BY <1>3, <2>1
    <2>5. PICK store \in StoreType : store = b[k + 1]
      BY <1>1, <2>1
    <2>6. SameLoops(v, w)
      BY <1>7, <2>3, <2>4
    <2>7. SameLoops(After(v, store), After(w, store))
      <3>1. LoopCell \subseteq Cell
        BY DEF LoopCell, Cell
      <3>2. ASSUME NEW c \in LoopCell PROVE After(v, store)[c] = After(w, store)[c]
        <4>1. c \in Cell /\ v[c] = w[c]
          BY <2>6, <3>1 DEF SameLoops
        <4>2. CASE c = store.cell
          BY <4>2, AfterTyped
        <4>3. CASE c # store.cell
          BY <4>1, <4>3, AfterTyped
        <4> QED BY <4>2, <4>3
      <3> QED BY <3>2 DEF SameLoops
    <2> QED BY <2>1, <2>2, <2>3, <2>4, <2>5, <2>7
  <1>8. 0 .. n \subseteq S
    <2> HIDE DEF S, n
    <2> QED BY <1>1, <1>6, <1>7, InductionTo
  <1>9. \A k \in 0 .. n : SameLoops(f[k], g[k])
    BY <1>8
  <1> HIDE DEF S, n
  <1>10. ASSUME NEW k \in 0 .. n PROVE ViewOK(g[k])
    <2>1. SameLoops(f[k], g[k]) /\ ViewOK(f[k]) /\ Using(f[k]) \in {0, 1}
      BY <1>5, <1>9 DEF ViewOK
    <2> QED BY <2>1, SameLoopsOK
  <1>11. ASSUME NEW k \in 1 .. n PROVE StepOK(g[k - 1], g[k])
    <2>1. k - 1 \in 0 .. n /\ k \in 0 .. n
      BY <1>1
    <2>2. /\ SameLoops(f[k - 1], g[k - 1]) /\ SameLoops(f[k], g[k])
          /\ ViewOK(f[k - 1]) /\ ViewOK(f[k]) /\ StepOK(f[k - 1], f[k])
      BY <1>5, <1>9, <2>1
    <2> QED BY <2>2, SameLoopsStep
  <1>12. ViewsOK(x, b)
    BY <1>10, <1>11 DEF ViewsOK, g, n
  <1>13. \A s \in {0, 1}, l \in Int : LeftAt(f[n], s, l) => LeftAt(g[n], s, l)
    <2>1. SameLoops(f[n], g[n]) /\ Using(f[n]) \in {0, 1}
      BY <1>4, <1>5, <1>9 DEF ViewOK
    <2>2. /\ Using(g[n]) = Using(f[n]) /\ AtRest(f[n]) = AtRest(g[n])
          /\ \A s \in {0, 1} : f[n][InCell(s)] = g[n][InCell(s)]
      BY <2>1, SameLoopsOK
    <2> QED BY <2>2 DEF LeftAt
  <1> QED BY <1>4, <1>12, <1>13

-----------------------------------------------------------------------------
(* The loops that the audio thread takes.                                  *)

ViewsHold == ViewsOK(memory, storeBuffer)

EndOK == LeftAt(End(memory, storeBuffer), slot, Issued)

(* A slot that was chosen for a buffer: its members are no older.          *)
Within(v, a, p) ==
    /\ a = 1 => v["out1"] > 0
    /\ p <= v[InCell(a)] /\ p <= v[OutCell(a)]

(* Its first member was copied, and is still there unless the other slot   *)
(* has moved on; *)
InTaken(v, a, p, x) == p <= x /\ x <= v[InCell(a)] /\ (v[InCell(1 - a)] = x => x = 0)

StillThere(v, a, x) == x = v[InCell(a)] \/ x < v[InCell(1 - a)]

(* its second was copied: if they differ, the other slot has moved on. *)
OutTaken(v, a, p, x, y) ==
    /\ p <= y /\ y <= v[OutCell(a)] /\ (v[InCell(1 - a)] = y => y = 0)
    /\ x # y => x < v[InCell(1 - a)] \/ y < v[InCell(1 - a)]

(* What the audio thread has taken, from block to block. *)
LoopsTaken ==
    /\ audioPc \in {"playing?", "slot"} => audio.buffer <= memory[InCell(Using(memory))]
    /\ audioPc \in {"in", "out", "render"} => Within(memory, audio.slot, audio.buffer)
    /\ audioPc \in {"out", "render"} => InTaken(memory, audio.slot, audio.buffer, audio.in)
    /\ audioPc = "out" => StillThere(memory, audio.slot, audio.in)
    /\ audioPc = "render" => OutTaken(memory, audio.slot, audio.buffer, audio.in, audio.out)

LoopInv == TypeOK /\ CallsInOrder /\ ViewsHold /\ EndOK /\ LoopsTaken

(* A call issues stores under a new number. *)
LEMMA MessageKeepsViews ==
  ASSUME TypeOK, CallsInOrder, ViewsHold, EndOK, MessageThread
  PROVE  ViewsHold' /\ EndOK'
  <1>1. /\ calls \in Nat /\ storeBuffer \in Seq(StoreType) /\ memory \in View
        /\ slot \in {0, 1} /\ renderGeneration \in Nat
    BY DEF TypeOK, View
  <1>2. memory' = memory
    BY DEF MessageThread, Load, LoadStore, LoadRetire, SetPlaying, SetLoop, RequestSeek
  <1>3. \A w \in View, s \in {0, 1}, n \in Int, k \in Int :
          n <= k /\ LeftAt(w, s, n) => LeftAt(w, s, k)
    <2>1. \A w \in View, s \in {0, 1} : w[InCell(s)] \in Nat
      BY SlotCells DEF View, Cell
    <2> QED BY <2>1 DEF LeftAt
  <1>4. End(memory, storeBuffer) \in View
    BY <1>1, EndTyped
  <1>5. CASE Load
    <2>1. /\ storeBuffer' = storeBuffer /\ slot' = slot /\ messagePc = "idle"
          /\ messagePc' = "store" /\ calls' = calls + 1
      BY <1>5 DEF Load, Call
    <2>2. Issued' = Issued
      BY <1>1, <2>1 DEF Issued
    <2> QED BY <1>2, <2>1, <2>2 DEF ViewsHold, EndOK
  <1>6. CASE LoadRetire
    <2>1. /\ storeBuffer' = storeBuffer /\ slot' = slot /\ messagePc = "retire"
          /\ messagePc' = "idle" /\ calls' = calls
      BY <1>6 DEF LoadRetire
    <2>2. Issued' = Issued
      BY <2>1 DEF Issued
    <2> QED BY <1>2, <2>1, <2>2 DEF ViewsHold, EndOK
  <1>7. CASE LoadStore
    <2>1. /\ storeBuffer' = storeBuffer \o LoadStores(calls, loading) /\ slot' = InactiveSlot
          /\ messagePc = "store" /\ messagePc' = "retire" /\ calls' = calls
      BY <1>7 DEF LoadStore, Issue
    <2>2. /\ Issued = calls - 1 /\ Issued' = calls /\ calls - 1 \in Nat /\ calls - 1 < calls
          /\ loading \in {None, calls}
      BY <1>1, <2>1 DEF Issued, CallsInOrder
    <2>3. PICK b \in Seq(StoreType) : b = storeBuffer
      BY <1>1
    <2>4. PICK k \in Nat : k = Issued
      BY <2>2
    <2>5. /\ ViewsOK(memory, b \o LoadStores(calls, loading))
          /\ LeftAt(End(memory, b \o LoadStores(calls, loading)), InactiveSlot, calls)
      BY <1>1, <2>2, <2>3, <2>4, LoadStored DEF ViewsHold, EndOK
    <2> QED BY <1>2, <2>1, <2>2, <2>3, <2>5 DEF ViewsHold, EndOK
  <1>8. ASSUME NEW shouldPlay \in BOOLEAN, SetPlaying(shouldPlay) PROVE ViewsHold' /\ EndOK'
    <2> DEFINE n == IF shouldPlay THEN calls' ELSE None
    <2>1. /\ storeBuffer' = storeBuffer \o <<Store("playing", n)>> /\ slot' = slot
          /\ messagePc = "idle" /\ messagePc' = "idle" /\ calls' = calls + 1
      BY <1>8 DEF SetPlaying, Call, Issue
    <2>2. n \in Nat /\ Issued = calls /\ Issued' = calls + 1
      BY <1>1, <2>1 DEF Issued, None
    <2>3. PICK x \in StoreType : x = Store("playing", n)
      BY <1>1, <2>2, StoreTyped DEF Cell
    <2>4. x.cell \notin LoopCell
      BY <2>3 DEF Store, LoopCell
    <2>5. PICK b \in Seq(StoreType) : b = storeBuffer
      BY <1>1
    <2>6. storeBuffer' = Append(b, x)
      BY <2>1, <2>3, <2>5
    <2>7. /\ ViewsOK(memory, Append(b, x)) /\ Append(b, x) \in Seq(StoreType)
          /\ LeftAt(End(memory, Append(b, x)), slot, Issued)
      BY <1>1, <2>2, <2>4, <2>5, AsideStored DEF ViewsHold, EndOK
    <2>8. LeftAt(End(memory, Append(b, x)), slot, calls + 1)
      <3>1. End(memory, Append(b, x)) \in View
        BY <1>1, <2>7, EndTyped
      <3> QED BY <1>1, <1>3, <2>2, <2>7, <3>1
    <2> QED BY <1>2, <2>1, <2>2, <2>6, <2>7, <2>8 DEF ViewsHold, EndOK
  <1>9. CASE SetLoop
    <2>1. /\ storeBuffer' = storeBuffer \o LoopStores(calls') /\ slot' = InactiveSlot
          /\ messagePc = "idle" /\ messagePc' = "idle" /\ calls' = calls + 1
      BY <1>9 DEF SetLoop, Call, Issue
    <2>2. PICK n \in Nat : n = calls'
      BY <1>1, <2>1
    <2>3. Issued = calls /\ Issued' = n /\ calls < n
      BY <1>1, <2>1, <2>2 DEF Issued
    <2>4. PICK b \in Seq(StoreType) : b = storeBuffer
      BY <1>1
    <2>5. /\ ViewsOK(memory, b \o LoopStores(n))
          /\ LeftAt(End(memory, b \o LoopStores(n)), InactiveSlot, n)
      BY <1>1, <2>3, <2>4, LoopStored DEF ViewsHold, EndOK
    <2>6. storeBuffer' = b \o LoopStores(n)
      BY <2>1, <2>2, <2>4
    <2> QED BY <1>2, <2>1, <2>3, <2>5, <2>6 DEF ViewsHold, EndOK
  <1>10. CASE RequestSeek
    <2>1. /\ storeBuffer' = storeBuffer \o SeekStores(calls') /\ slot' = slot
          /\ messagePc = "idle" /\ messagePc' = "idle" /\ calls' = calls + 1
      BY <1>10 DEF RequestSeek, Call, Issue
    <2>2. PICK n \in Nat : n = calls'
      BY <1>1, <2>1
    <2>3. Issued = calls /\ Issued' = n /\ calls <= n
      BY <1>1, <2>1, <2>2 DEF Issued
    <2>4. PICK b \in Seq(StoreType) : b = storeBuffer
      BY <1>1
    <2>5. PICK c \in Seq(StoreType) : c = b \o SeekStores(n)
      BY <1>1, <2>4, SeekStored DEF ViewsHold
    <2>6. ViewsOK(memory, c) /\ LeftAt(End(memory, c), slot, calls)
      BY <1>1, <2>3, <2>4, <2>5, SeekStored DEF ViewsHold, EndOK
    <2>7. LeftAt(End(memory, c), slot, n)
      <3>1. End(memory, c) \in View
        BY <1>1, EndTyped
      <3> QED BY <1>1, <1>3, <2>3, <2>6, <3>1
    <2>8. storeBuffer' = c
      BY <2>1, <2>2, <2>4, <2>5
    <2> QED BY <1>2, <2>1, <2>3, <2>6, <2>7, <2>8 DEF ViewsHold, EndOK
  <1> QED BY <1>5, <1>6, <1>7, <1>8, <1>9, <1>10 DEF MessageThread

(* What becomes visible was foreseen. *)
LEMMA PublishKeepsViews ==
  ASSUME TypeOK, ViewsHold, EndOK, Publish
  PROVE  ViewsHold' /\ EndOK' /\ ViewOK(memory) /\ ViewOK(memory') /\ StepOK(memory, memory')
  <1>1. PICK m \in View : m = memory
    BY DEF TypeOK, View
  <1>2. PICK b \in Seq(StoreType) : b = storeBuffer
    BY DEF TypeOK
  <1>3. b # <<>> /\ Head(b) = b[1] /\ storeBuffer' = Tail(b)
        /\ slot' = slot /\ Issued' = Issued
    BY <1>2, Shifted DEF Publish, message, Issued
  <1>4. memory' = After(m, b[1])
    BY <1>1, <1>2, <1>3 DEF Publish, After
  <1>5. ViewsOK(m, b)
    BY <1>1, <1>2 DEF ViewsHold
  <1>6. /\ ViewsOK(After(m, b[1]), Tail(b)) /\ End(After(m, b[1]), Tail(b)) = End(m, b)
        /\ ViewOK(m) /\ ViewOK(After(m, b[1])) /\ StepOK(m, After(m, b[1]))
    BY <1>3, <1>5, OneSeen
  <1>7. LeftAt(End(m, b), slot, Issued)
    BY <1>1, <1>2 DEF EndOK
  <1>8. ViewsHold'
    BY <1>3, <1>4, <1>6 DEF ViewsHold
  <1>9. EndOK'
    <2>1. End(memory', storeBuffer') = End(m, b)
      BY <1>3, <1>4, <1>6
    <2> QED BY <1>3, <1>7, <2>1 DEF EndOK
  <1> QED BY <1>1, <1>4, <1>6, <1>8, <1>9

(* What is seen now is one of the views. *)
LEMMA MemoryOK ==
  ASSUME TypeOK, ViewsHold
  PROVE  memory \in View /\ ViewOK(memory) /\ Using(memory) \in {0, 1}
  <1>1. PICK m \in View : m = memory
    BY DEF TypeOK, View
  <1>2. PICK b \in Seq(StoreType) : b = storeBuffer
    BY DEF TypeOK
  <1>3. 0 \in 0 .. Len(b) /\ Sees(m, b)[0] = m
    BY SeesIs
  <1>4. ViewOK(m)
    BY <1>1, <1>2, <1>3 DEF ViewsHold, ViewsOK
  <1> QED BY <1>1, <1>4 DEF ViewOK

(* The audio thread only clears flags. *)
LEMMA AudioKeepsLoops ==
  ASSUME TypeOK, ViewsHold, EndOK, AudioThread
  PROVE  ViewsHold' /\ EndOK' /\ \A c \in LoopCell : memory'[c] = memory[c]
  <1>1. PICK m \in View : m = memory
    BY DEF TypeOK, View
  <1>2. PICK b \in Seq(StoreType) : b = storeBuffer
    BY DEF TypeOK
  <1>3. storeBuffer' = storeBuffer /\ slot' = slot /\ Issued' = Issued
    BY DEF AudioThread, StartBlock, ReadSeekPending, ApplySeek, ClearSeekPending, ReadBuffer,
           StopForNoAudio, ReadPlaying, ReadLoopSlot, CopyIn, CopyOut, Render, StopAtEnd,
           Audio, message, Issued
  <1>4. \/ memory' = m
        \/ memory' = [m EXCEPT !["seekPending"] = None]
        \/ memory' = [m EXCEPT !["playing"] = None]
    BY <1>1 DEF AudioThread, StartBlock, ReadSeekPending, ApplySeek, ClearSeekPending,
           ReadBuffer, StopForNoAudio, ReadPlaying, ReadLoopSlot, CopyIn, CopyOut, Render,
           StopAtEnd
  <1>5. PICK x \in View : x = memory'
    BY <1>4 DEF View, None
  <1>6. SameLoops(m, x)
    BY <1>4, <1>5 DEF SameLoops, LoopCell, View, Cell
  <1>7. ViewsOK(m, b)
    BY <1>1, <1>2 DEF ViewsHold
  <1>8. /\ ViewsOK(x, b)
        /\ \A s \in {0, 1}, n \in Int : LeftAt(End(m, b), s, n) => LeftAt(End(x, b), s, n)
    BY <1>6, <1>7, SeesCleared
  <1>9. LeftAt(End(m, b), slot, Issued) /\ slot \in {0, 1} /\ Issued \in Int
    BY <1>1, <1>2 DEF EndOK, TypeOK, Issued
  <1>10. LeftAt(End(x, b), slot, Issued)
    BY <1>8, <1>9
  <1>11. ViewsHold'
    BY <1>2, <1>3, <1>5, <1>8 DEF ViewsHold
  <1>12. EndOK'
    BY <1>2, <1>3, <1>5, <1>10 DEF EndOK
  <1>13. \A c \in LoopCell : memory'[c] = memory[c]
    BY <1>1, <1>5, <1>6 DEF SameLoops
  <1> QED BY <1>11, <1>12, <1>13

(* A view, slot by slot. *)
LEMMA SlotsOf ==
  ASSUME NEW v \in View, NEW s \in {0, 1}, NEW t \in {0, 1}, s # t, Using(v) = s, ViewOK(v)
  PROVE  /\ Spare(v) = t /\ v[InCell(s)] = v[OutCell(s)]
         /\ AtRest(v) =>
              /\ v[InCell(t)] = v[OutCell(t)]
              /\ Older(v[OutCell(t)], v[InCell(s)], s)
         /\ ~AtRest(v) =>
              /\ v[InCell(s)] < v[InCell(t)]
              /\ v[InCell(t)] = v[OutCell(t)] \/ Older(v[OutCell(t)], v[InCell(s)], s)
  <1> USE SlotCells DEF View, Cell
  <1>1. CASE s = 0 /\ t = 1
    <2>1. v["activeLoopSlot"] = 0
      BY <1>1 DEF Using
    <2> QED BY <1>1, <2>1 DEF ViewOK, AtRest, OlderOut, Older, Spare, Using
  <1>2. CASE s = 1 /\ t = 0
    <2>1. v["activeLoopSlot"] = 1
      BY <1>2 DEF Using
    <2> QED BY <1>2, <2>1 DEF ViewOK, AtRest, OlderOut, Older, Spare, Using
  <1> QED BY <1>1, <1>2

(* A store that becomes visible takes nothing back. *)
LEMMA TakenPublished ==
  ASSUME NEW v \in View, NEW w \in View, ViewOK(v), ViewOK(w), StepOK(v, w),
         NEW a \in {0, 1}, NEW p \in Nat, NEW x \in Nat, NEW y \in Nat
  PROVE  /\ p <= v[InCell(Using(v))] => p <= w[InCell(Using(w))]
         /\ Within(v, a, p) => Within(w, a, p)
         /\ Within(v, a, p) /\ InTaken(v, a, p, x) => InTaken(w, a, p, x)
         /\ Within(v, a, p) /\ InTaken(v, a, p, x) /\ StillThere(v, a, x)
              => StillThere(w, a, x)
         /\ Within(v, a, p) /\ OutTaken(v, a, p, x, y) => OutTaken(w, a, p, x, y)
  <1> DEFINE o == 1 - a
  <1>1. o \in {0, 1} /\ o # a /\ 1 - o = a
    OBVIOUS
  <1>2. /\ v[InCell(a)] \in Nat /\ v[OutCell(a)] \in Nat /\ v[InCell(o)] \in Nat
        /\ w[InCell(a)] \in Nat /\ w[OutCell(a)] \in Nat /\ w[InCell(o)] \in Nat
        /\ v[OutCell(o)] \in Nat
    BY <1>1, SlotCells DEF View, Cell
  <1>3. /\ v[InCell(a)] <= w[InCell(a)] /\ v[OutCell(a)] <= w[OutCell(a)]
        /\ v[InCell(o)] <= w[InCell(o)]
    BY <1>1 DEF StepOK
  <1>4. Using(v) \in {a, o} /\ Using(w) \in {a, o}
    BY DEF ViewOK
  <1> HIDE DEF o
  <1>5. ASSUME v[InCell(o)] # w[InCell(o)]
        PROVE  v[InCell(a)] = v[OutCell(a)] /\ v[InCell(a)] < w[InCell(o)]
    <2>1. o = Spare(v) /\ v[InCell(Using(v))] < w[InCell(o)]
      BY <1>1, <1>5 DEF StepOK
    <2>2. Using(v) = a
      BY <1>1, <1>4, <2>1 DEF Spare
    <2> QED BY <2>1, <2>2 DEF ViewOK
  <1>6. ASSUME v[InCell(a)] # w[InCell(a)]
        PROVE  /\ v[InCell(a)] = v[OutCell(a)]
               /\ v[OutCell(a)] < v[InCell(o)] \/ (v[OutCell(a)] = 0 /\ a = 1)
    <2>1. a = Spare(v) /\ AtRest(v)
      BY <1>6 DEF StepOK
    <2>2. Using(v) = o
      BY <1>1, <1>4, <2>1 DEF Spare
    <2>3. v[OutCell(a)] < v[InCell(o)] \/ (v[OutCell(a)] = 0 /\ o = 0)
      BY <1>1, <2>1, <2>2, SlotsOf DEF Older
    <2> QED BY <1>1, <2>1, <2>3 DEF AtRest
  <1>7. p <= v[InCell(Using(v))] => p <= w[InCell(Using(w))]
    <2>1. v[InCell(Using(v))] <= w[InCell(Using(w))]
      BY DEF StepOK
    <2>2. v[InCell(Using(v))] \in Nat /\ w[InCell(Using(w))] \in Nat
      BY <1>4, <1>2, SlotCells DEF View, Cell, ViewOK
    <2> QED BY <2>1, <2>2
  <1>8. Within(v, a, p) => Within(w, a, p)
    <2>1. a = 1 => v["out1"] <= w["out1"] /\ v["out1"] \in Nat /\ w["out1"] \in Nat
      BY <1>2, <1>3, SlotCells
    <2>2. a = 1 /\ v["out1"] > 0 => w["out1"] > 0
      BY <2>1
    <2> QED BY <1>2, <1>3, <2>2 DEF Within
  <1>9. ASSUME Within(v, a, p), InTaken(v, a, p, x) PROVE InTaken(w, a, p, x)
    BY <1>2, <1>3, <1>5, <1>9 DEF InTaken, o
  <1>10. ASSUME Within(v, a, p), InTaken(v, a, p, x), StillThere(v, a, x)
         PROVE  StillThere(w, a, x)
    <2>1. a = 1 => v[OutCell(a)] > 0
      BY <1>10, SlotCells DEF Within
    <2>2. x < v[InCell(o)] => x < w[InCell(o)]
      BY <1>2, <1>3
    <2>3. v[InCell(a)] # w[InCell(a)] => v[InCell(a)] < v[InCell(o)]
      BY <1>2, <1>6, <2>1
    <2>4. x = v[InCell(a)] \/ x < v[InCell(o)]
      BY <1>10 DEF StillThere, o
    <2>5. x = w[InCell(a)] \/ x < w[InCell(o)]
      BY <2>2, <2>3, <2>4
    <2> QED BY <2>5 DEF StillThere, o
  <1>11. ASSUME Within(v, a, p), OutTaken(v, a, p, x, y) PROVE OutTaken(w, a, p, x, y)
    BY <1>2, <1>3, <1>5, <1>11 DEF OutTaken, o
  <1> QED BY <1>7, <1>8, <1>9, <1>10, <1>11

(* The slot in use is taken for the buffer it was set for, or a later loop. *)
LEMMA SlotTaken ==
  ASSUME NEW v \in View, ViewOK(v), NEW p \in Nat, p <= v[InCell(Using(v))]
  PROVE  Within(v, Using(v), p)
  <1>1. v[InCell(Using(v))] = v[OutCell(Using(v))] /\ (Using(v) = 1 => v[InCell(Using(v))] > 0)
    BY DEF ViewOK
  <1> QED BY <1>1, SlotCells DEF Within

(* The two members are copied one after the other. *)
LEMMA MembersTaken ==
  ASSUME NEW v \in View, ViewOK(v), NEW a \in {0, 1}, NEW p \in Nat, Within(v, a, p)
  PROVE  /\ InTaken(v, a, p, v[InCell(a)]) /\ StillThere(v, a, v[InCell(a)])
         /\ \A x \in Nat : StillThere(v, a, x) => OutTaken(v, a, p, x, v[OutCell(a)])
  <1> DEFINE o == 1 - a
  <1>1. o \in {0, 1} /\ o # a /\ 1 - o = a
    OBVIOUS
  <1>2. /\ v[InCell(a)] \in Nat /\ v[OutCell(a)] \in Nat /\ v[InCell(o)] \in Nat
        /\ v[OutCell(o)] \in Nat
    BY <1>1, SlotCells DEF View, Cell
  <1>3. /\ p <= v[InCell(a)] /\ p <= v[OutCell(a)] /\ (a = 1 => v[OutCell(a)] > 0)
    BY SlotCells DEF Within
  <1>4. Using(v) \in {a, o}
    BY DEF ViewOK
  <1> HIDE DEF o
  <1>5. CASE Using(v) = a
    <2>2. /\ v[InCell(a)] = v[OutCell(a)]
          /\ \/ v[InCell(o)] = v[OutCell(o)] /\ Older(v[OutCell(o)], v[InCell(a)], a)
             \/ v[InCell(a)] < v[InCell(o)]
      BY <1>1, <1>5, SlotsOf
    <2>3. v[InCell(o)] = v[InCell(a)] => v[InCell(a)] = 0
      BY <1>2, <2>2 DEF Older
    <2>4. InTaken(v, a, p, v[InCell(a)]) /\ StillThere(v, a, v[InCell(a)])
      BY <1>2, <1>3, <2>3 DEF InTaken, StillThere, o
    <2>5. ASSUME NEW x \in Nat, StillThere(v, a, x) PROVE OutTaken(v, a, p, x, v[OutCell(a)])
      <3>1. x = v[InCell(a)] \/ x < v[InCell(o)]
        BY <2>5 DEF StillThere, o
      <3> QED BY <1>2, <1>3, <2>2, <2>3, <3>1 DEF OutTaken, o
    <2> QED BY <2>4, <2>5
  <1>6. CASE Using(v) = o
    <2>2. \/ v[InCell(a)] = v[OutCell(a)] /\ Older(v[OutCell(a)], v[InCell(o)], o)
          \/ v[InCell(o)] < v[InCell(a)] /\ Older(v[OutCell(a)], v[InCell(o)], o)
          \/ v[InCell(o)] < v[InCell(a)] /\ v[InCell(a)] = v[OutCell(a)]
      BY <1>1, <1>6, SlotsOf
    <2>3. o = 0 => v[OutCell(a)] > 0
      BY <1>1, <1>3
    <2>4. InTaken(v, a, p, v[InCell(a)]) /\ StillThere(v, a, v[InCell(a)])
      BY <1>2, <1>3, <2>2, <2>3 DEF InTaken, StillThere, Older, o
    <2>5. ASSUME NEW x \in Nat, StillThere(v, a, x) PROVE OutTaken(v, a, p, x, v[OutCell(a)])
      <3>1. x = v[InCell(a)] \/ x < v[InCell(o)]
        BY <2>5 DEF StillThere, o
      <3>2. v[InCell(o)] = v[OutCell(a)] => v[OutCell(a)] = 0
        BY <1>2, <2>2, <2>3 DEF Older
      <3>3. x # v[OutCell(a)] => x < v[InCell(o)] \/ v[OutCell(a)] < v[InCell(o)]
        BY <1>2, <2>2, <2>3, <3>1 DEF Older
      <3> QED BY <1>2, <1>3, <3>2, <3>3 DEF OutTaken, o
    <2> QED BY <2>4, <2>5
  <1> QED BY <1>4, <1>5, <1>6

(* Every step keeps what the audio thread has taken. *)
LEMMA TakenStep ==
  ASSUME TypeOK, ViewsHold, EndOK, LoopsTaken, [Next]_vars
  PROVE  LoopsTaken'
  <1>1. memory \in View /\ ViewOK(memory) /\ Using(memory) \in {0, 1}
    BY MemoryOK
  <1>2. PICK a \in {0, 1}, p \in Nat, x \in Nat, y \in Nat :
          audio.slot = a /\ audio.buffer = p /\ audio.in = x /\ audio.out = y
    BY DEF TypeOK
  <1>3. /\ audioPc \in {"playing?", "slot"} => p <= memory[InCell(Using(memory))]
        /\ audioPc \in {"in", "out", "render"} => Within(memory, a, p)
        /\ audioPc \in {"out", "render"} => InTaken(memory, a, p, x)
        /\ audioPc = "out" => StillThere(memory, a, x)
        /\ audioPc = "render" => OutTaken(memory, a, p, x, y)
    BY <1>2 DEF LoopsTaken
  <1>4. CASE Publish
    <2>1. audioPc' = audioPc /\ audio' = audio
      BY <1>4 DEF Publish, rendering
    <2>2. PICK v \in View : v = memory
      BY <1>1
    <2>3. PICK w \in View : w = memory'
      BY <1>4, TypeStep DEF Next, TypeOK, View
    <2>4. ViewOK(v) /\ ViewOK(w) /\ StepOK(v, w)
      BY <1>4, <2>2, <2>3, PublishKeepsViews
    <2>5. /\ audioPc \in {"playing?", "slot"} => p <= w[InCell(Using(w))]
          /\ audioPc \in {"in", "out", "render"} => Within(w, a, p)
          /\ audioPc \in {"out", "render"} => InTaken(w, a, p, x)
          /\ audioPc = "out" => StillThere(w, a, x)
          /\ audioPc = "render" => OutTaken(w, a, p, x, y)
      BY <1>3, <2>2, <2>4, TakenPublished
    <2> QED BY <1>2, <2>1, <2>3, <2>5 DEF LoopsTaken
  <1>5. CASE MessageThread
    <2>1. memory' = memory /\ audioPc' = audioPc /\ audio' = audio
      BY <1>5 DEF MessageThread, Load, LoadStore, LoadRetire, SetPlaying, SetLoop, RequestSeek,
                  rendering
    <2> QED BY <2>1 DEF LoopsTaken, Using, Within, InTaken, StillThere, OutTaken
  <1>6. CASE AudioThread
    <2>1. CASE ReadBuffer
      <3>1. memory["activeBuffer"] <= memory[InCell(Using(memory))]
        BY <1>1 DEF ViewOK
      <3>2. /\ memory' = memory /\ audio'.buffer = memory["activeBuffer"]
            /\ audioPc' \in {"playing?", "no audio"}
        BY <2>1 DEF ReadBuffer, TypeOK
      <3> QED BY <3>1, <3>2 DEF LoopsTaken, Using
    <2>2. CASE ReadPlaying
      <3>1. memory' = memory /\ ((audioPc' = "slot" /\ audio' = audio) \/ audioPc' = "idle")
            /\ audioPc = "playing?"
        BY <2>2 DEF ReadPlaying, BlockDone
      <3> QED BY <1>2, <1>3, <3>1 DEF LoopsTaken, Using
    <2>3. CASE ReadLoopSlot
      <3>1. /\ memory' = memory /\ audioPc = "slot" /\ audioPc' = "in"
            /\ audio'.slot = Using(memory) /\ audio'.buffer = audio.buffer
        BY <2>3 DEF ReadLoopSlot, Audio, TypeOK, Using
      <3>2. Within(memory, Using(memory), p)
        BY <1>1, <1>3, <3>1, SlotTaken
      <3> QED BY <1>2, <3>1, <3>2 DEF LoopsTaken, Within
    <2>4. CASE CopyIn
      <3>1. /\ memory' = memory /\ audioPc = "in" /\ audioPc' = "out"
            /\ audio' = [audio EXCEPT !.in = memory[InCell(audio.slot)]]
        BY <2>4 DEF CopyIn, Audio
      <3>2. /\ audio'.slot = audio.slot /\ audio'.buffer = audio.buffer
            /\ audio'.in = memory[InCell(audio.slot)]
        BY <3>1 DEF TypeOK
      <3>3. Within(memory, a, p)
        BY <1>3, <3>1
      <3>4. InTaken(memory, a, p, memory[InCell(a)]) /\ StillThere(memory, a, memory[InCell(a)])
        BY <1>1, <3>3, MembersTaken
      <3> QED BY <1>2, <3>1, <3>2, <3>3, <3>4 DEF LoopsTaken, Within, InTaken, StillThere
    <2>5. CASE CopyOut
      <3>1. /\ memory' = memory /\ audioPc = "out" /\ audioPc' = "render"
            /\ audio' = [audio EXCEPT !.out = memory[OutCell(audio.slot)]]
        BY <2>5 DEF CopyOut, Audio
      <3>2. /\ audio'.slot = audio.slot /\ audio'.buffer = audio.buffer
            /\ audio'.in = audio.in /\ audio'.out = memory[OutCell(audio.slot)]
        BY <3>1 DEF TypeOK
      <3>3. Within(memory, a, p) /\ InTaken(memory, a, p, x) /\ StillThere(memory, a, x)
        BY <1>3, <3>1
      <3>4. OutTaken(memory, a, p, x, memory[OutCell(a)])
        BY <1>1, <3>3, MembersTaken
      <3> QED BY <1>2, <3>1, <3>2, <3>3, <3>4 DEF LoopsTaken, Within, InTaken, OutTaken
    <2>6. CASE ~(ReadBuffer \/ ReadPlaying \/ ReadLoopSlot \/ CopyIn \/ CopyOut)
      <3>1. audioPc' \notin {"playing?", "slot", "in", "out", "render"}
        BY <1>6, <2>6 DEF AudioThread, StartBlock, ReadSeekPending, ApplySeek, ClearSeekPending,
           StopForNoAudio, Render, StopAtEnd, Audio, BlockDone
      <3> QED BY <3>1 DEF LoopsTaken
    <2> QED BY <2>1, <2>2, <2>3, <2>4, <2>5, <2>6
  <1>7. CASE UNCHANGED vars
    BY <1>7 DEF vars, rendering, LoopsTaken, Using, Within, InTaken, StillThere, OutTaken
  <1> QED BY <1>4, <1>5, <1>6, <1>7 DEF Next

(* Every step keeps the invariant of loops. *)
LEMMA LoopStep == LoopInv /\ [Next]_vars => LoopInv'
  <1> SUFFICES ASSUME LoopInv, [Next]_vars PROVE LoopInv'
    OBVIOUS
  <1>1. TypeOK /\ CallsInOrder /\ ViewsHold /\ EndOK /\ LoopsTaken
    BY DEF LoopInv
  <1>2. TypeOK' /\ CallsInOrder' /\ LoopsTaken'
    BY <1>1, TypeStep, CallsStep, TakenStep
  <1>3. ViewsHold' /\ EndOK'
    <2>1. CASE Publish
      BY <1>1, <2>1, PublishKeepsViews
    <2>2. CASE MessageThread
      BY <1>1, <2>2, MessageKeepsViews
    <2>3. CASE AudioThread
      BY <1>1, <2>3, AudioKeepsLoops
    <2>4. CASE UNCHANGED vars
      BY <1>1, <2>4 DEF vars, message, ViewsHold, EndOK, Issued
    <2> QED BY <2>1, <2>2, <2>3, <2>4 DEF Next
  <1> QED BY <1>2, <1>3 DEF LoopInv

(* Initially both slots are empty and no store is under way. *)
LEMMA LoopInit == Init => LoopInv
  <1> SUFFICES ASSUME Init PROVE LoopInv
    OBVIOUS
  <1>1. TypeOK /\ CallsInOrder
    BY RequestInit DEF RequestInv, SeekInv
  <1>2. PICK m \in View : m = memory /\ \A c \in Cell : m[c] = 0
    BY DEF Init, View
  <1>3. storeBuffer = <<>> /\ slot = 0 /\ Issued = 0 /\ audioPc = "idle"
    BY DEF Init, Issued
  <1>4. PICK b \in Seq(StoreType) : b = <<>>
    <2>1. <<>> \in Seq(StoreType)
      OBVIOUS
    <2> QED BY <2>1
  <1>5. Len(b) = 0 /\ Sees(m, b)[0] = m
    BY <1>4, SeesIs
  <1>6. ViewOK(m) /\ AtRest(m) /\ Using(m) = 0 /\ m[InCell(0)] = 0
    BY <1>2, SlotCells DEF ViewOK, AtRest, OlderOut, Older, Using, Spare, Cell
  <1>7. ViewsOK(m, b)
    BY <1>5, <1>6 DEF ViewsOK
  <1>8. LeftAt(End(m, b), 0, 0)
    BY <1>5, <1>6 DEF End, LeftAt
  <1> QED BY <1>1, <1>2, <1>3, <1>4, <1>7, <1>8 DEF LoopInv, ViewsHold, EndOK, LoopsTaken

(* No block of a track uses loop points set for an earlier one: load()     *)
(* clears the loop before it publishes the buffer, and the audio thread    *)
(* takes the buffer before the slot.                                       *)
THEOREM LoopsFollowBuffers == Spec => []LoopNotOlderThanBuffer
  <1>1. LoopInv => LoopNotOlderThanBuffer
    <2> SUFFICES ASSUME LoopInv, audioPc = "render"
                 PROVE  audio.in >= audio.buffer /\ audio.out >= audio.buffer
      BY DEF LoopNotOlderThanBuffer
    <2>1. /\ InTaken(memory, audio.slot, audio.buffer, audio.in)
          /\ OutTaken(memory, audio.slot, audio.buffer, audio.in, audio.out)
      BY DEF LoopInv, LoopsTaken
    <2> QED BY <2>1 DEF InTaken, OutTaken
  <1> QED BY <1>1, LoopInit, LoopStep, PTL DEF Spec

(* One change of the loop during a block never tears it: the slot written  *)
(* is the one not in use, and is taken only by a block that finds the      *)
(* index flipped (setLoop, clearLoop and the copy in getNextAudioBlock).   *)
THEOREM SlotsHoldTogether == Spec => []SingleChangeNeverTears
  <1>1. LoopInv => SingleChangeNeverTears
    <2> SUFFICES ASSUME LoopInv, audioPc = "render", audio.in # audio.out
                 PROVE  \/ /\ audio.in < memory[InCell(1 - audio.slot)]
                           /\ memory[InCell(1 - audio.slot)] # audio.out
                        \/ /\ audio.out < memory[InCell(1 - audio.slot)]
                           /\ memory[InCell(1 - audio.slot)] # audio.in
      BY DEF SingleChangeNeverTears
    <2>1. PICK a \in {0, 1}, p \in Nat, x \in Nat, y \in Nat :
            audio.slot = a /\ audio.buffer = p /\ audio.in = x /\ audio.out = y
      BY DEF LoopInv, TypeOK
    <2>2. InTaken(memory, a, p, x) /\ OutTaken(memory, a, p, x, y)
      BY <2>1 DEF LoopInv, LoopsTaken
    <2>3. PICK z \in Nat : z = memory[InCell(1 - a)]
      BY SlotCells DEF LoopInv, TypeOK, Cell
    <2>4. x # y /\ (z = x => x = 0) /\ (z = y => y = 0) /\ (x < z \/ y < z)
      BY <2>1, <2>2, <2>3 DEF InTaken, OutTaken
    <2>5. (x < z /\ z # y) \/ (y < z /\ z # x)
      BY <2>4
    <2> QED BY <2>1, <2>3, <2>5
  <1> QED BY <1>1, LoopInit, LoopStep, PTL DEF Spec
=============================================================================
