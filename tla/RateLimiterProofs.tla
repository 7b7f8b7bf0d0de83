-------------------------- MODULE RateLimiterProofs --------------------------
(***************************************************************************)
(* What TLAPS proves of the token bucket, for every rate, burst, ban time  *)
(* and message cost.                                                       *)
(***************************************************************************)
EXTENDS RateLimiter, TLAPS

-----------------------------------------------------------------------------
(* Arithmetic.                                                             *)

(* The refill over a span is the sum of the refills over its parts. *)
LEMMA SpanSplits ==
  ASSUME NEW a \in Int, NEW b \in Int, NEW c \in Int, NEW r \in Int
  PROVE  (b - a) * r + (c - b) * r = (c - a) * r
  OBVIOUS

(* A longer span refills no less. *)
LEMMA LongerRefillsMore ==
  ASSUME NEW a \in Int, NEW b \in Int, NEW r \in Nat, a <= b
  PROVE  a * r <= b * r
  OBVIOUS

(* One more message costs one more token. *)
LEMMA OneMore ==
  ASSUME NEW n \in Nat, NEW t \in Nat
  PROVE  (n + 1) * t = n * t + t
  OBVIOUS

-----------------------------------------------------------------------------
(* Types.                                                                  *)

(* What refill() leaves in the bucket. *)
LEMMA RefilledTyped ==
  ASSUME TypeOK
  PROVE  Refilled \in 0 .. Burst /\ RefillTime \in 0 .. MaxTime
  <1>1. CASE now <= lastRefillMs
    BY <1>1, LimiterAssumption DEF TypeOK, Refilled, RefillTime
  <1>2. CASE now > lastRefillMs
    <2>1. (now - lastRefillMs) * Rate \in Nat
      BY <1>2, LimiterAssumption DEF TypeOK
    <2> QED BY <1>2, <2>1, LimiterAssumption DEF TypeOK, Refilled, RefillTime, AtMost
  <1> QED BY <1>1, <1>2, LimiterAssumption DEF TypeOK

(* Every step keeps the types. *)
LEMMA TypeStep == TypeOK /\ [Next]_vars => TypeOK'
  <1> SUFFICES ASSUME TypeOK, [Next]_vars PROVE TypeOK'
    OBVIOUS
  <1> USE LimiterAssumption DEF TypeOK
  <1>1. CASE Serve
    BY <1>1, RefilledTyped DEF Serve, SinceServed, TooLong, clock
  <1>2. CASE Drop
    BY <1>2, RefilledTyped DEF Drop, SinceDropped, TooLong, clock
  <1>3. CASE Tick
    BY <1>3 DEF Tick, AtMost
  <1>4. CASE StepBack
    BY <1>4 DEF StepBack
  <1>5. CASE UNCHANGED vars
    BY <1>5 DEF vars
  <1> QED BY <1>1, <1>2, <1>3, <1>4, <1>5 DEF Next

(* Types, in particular a bucket between empty and burst, even when the    *)
(* clock is set back.                                                      *)
THEOREM LimiterTypes == Spec => []TypeOK
  <1>1. Init => TypeOK
    <2> SUFFICES ASSUME Init PROVE TypeOK
      OBVIOUS
    <2>1. 0 \in 0 .. BanAfter + 2 /\ 0 \in 0 .. MaxTime /\ 0 \in 0 .. MaxServed
          /\ Burst \in 0 .. Burst
      BY LimiterAssumption
    <2>2. overload \in [length : 0 .. BanAfter + 2, hit : BOOLEAN]
      BY <2>1 DEF Init
    <2> QED BY <2>1, <2>2 DEF Init, TypeOK
  <1> QED BY <1>1, TypeStep, PTL DEF Spec

-----------------------------------------------------------------------------
(* The allowance: what is in the bucket and what was spent never exceed    *)
(* the burst and the refill up to the last refill.                         *)

Ledger ==
    /\ tokens + served * Token <= Burst + lastRefillMs * Rate
    /\ lastRefillMs <= latest /\ now <= latest

(* refill() keeps the books, however much time has passed. *)
LEMMA RefillKeepsLedger ==
  ASSUME TypeOK, Ledger
  PROVE  /\ Refilled + served * Token <= Burst + RefillTime * Rate
         /\ RefillTime <= latest
  <1> USE LimiterAssumption DEF TypeOK, Ledger
  <1>1. CASE now <= lastRefillMs
    BY <1>1 DEF Refilled, RefillTime
  <1>2. CASE now > lastRefillMs
    <2>1. (now - lastRefillMs) * Rate \in Int /\ lastRefillMs * Rate \in Int
          /\ now * Rate \in Int /\ served * Token \in Int
      OBVIOUS
    <2>2. lastRefillMs * Rate + (now - lastRefillMs) * Rate = now * Rate
      BY SpanSplits
    <2>3. Refilled <= tokens + (now - lastRefillMs) * Rate
      BY <1>2, <2>1 DEF Refilled, AtMost
    <2>4. Refilled \in Int
      BY RefilledTyped
    <2>5. Refilled + served * Token <= Burst + now * Rate
      BY <2>1, <2>2, <2>3, <2>4
    <2> QED BY <1>2, <2>5 DEF RefillTime
  <1> QED BY <1>1, <1>2

(* Every step keeps the books. *)
LEMMA LedgerStep == TypeOK /\ Ledger /\ [Next]_vars => Ledger'
  <1> SUFFICES ASSUME TypeOK, Ledger, [Next]_vars PROVE Ledger'
    OBVIOUS
  <1> USE LimiterAssumption DEF TypeOK
  <1>1. CASE Serve
    <2>1. served' * Token = served * Token + Token
      BY <1>1, OneMore DEF Serve
    <2>2. served * Token \in Int /\ RefillTime * Rate \in Int /\ Refilled \in Int
      BY RefilledTyped
    <2> QED BY <1>1, <2>1, <2>2, RefillKeepsLedger DEF Serve, Ledger, clock
  <1>2. CASE Drop
    BY <1>2, RefillKeepsLedger DEF Drop, Ledger, clock
  <1>3. CASE Tick
    BY <1>3 DEF Tick, Ledger
  <1>4. CASE StepBack
    BY <1>4 DEF StepBack, Ledger
  <1>5. CASE UNCHANGED vars
    BY <1>5 DEF vars, Ledger
  <1> QED BY <1>1, <1>2, <1>3, <1>4, <1>5 DEF Next

(* No spacing of frames and no setting back of the clock gets a connection *)
(* served beyond burst and sustained rate.                                 *)
THEOREM NoExtraService == Spec => []AllowanceKept
  <1>1. Init => Ledger
    BY LimiterAssumption DEF Init, Ledger
  <1>2. TypeOK /\ Ledger => AllowanceKept
    <2> SUFFICES ASSUME TypeOK, Ledger PROVE AllowanceKept
      OBVIOUS
    <2> USE LimiterAssumption DEF TypeOK
    <2>1. lastRefillMs * Rate <= latest * Rate
      BY LongerRefillsMore DEF Ledger
    <2>2. served * Token \in Int /\ lastRefillMs * Rate \in Int /\ latest * Rate \in Int
      OBVIOUS
    <2> QED BY <2>1, <2>2 DEF Ledger, AllowanceKept
  <1> QED BY <1>1, <1>2, LedgerStep, LimiterTypes, PTL DEF Spec

-----------------------------------------------------------------------------
(* The ban.  While a deficit episode runs nothing is spent, so the bucket  *)
(* holds all that was refilled since it began: by the time the ban is due  *)
(* there is a token, and the frame is served instead.                      *)

Episode ==
    /\ lastRefillMs <= now
    /\ rateLimitedSince # NotLimited =>
         /\ rateLimitedSince <= lastRefillMs
         /\ tokens >= (lastRefillMs - rateLimitedSince) * Rate
    /\ ~banned

(* As long as the clock has not been set back. *)
EpisodeKept == setBack \/ Episode

(* A frame that is dropped finds less than a token, yet all the refill     *)
(* since the episode began.                                                *)
LEMMA DropInEpisode ==
  ASSUME TypeOK, Episode, Refilled < Token
  PROVE  /\ RefillTime = now
         /\ SinceDropped \in Int /\ SinceDropped <= now
         /\ Refilled >= (now - SinceDropped) * Rate
  <1> USE LimiterAssumption DEF TypeOK, Episode
  <1>1. RefillTime = now
    BY DEF RefillTime
  <1>2. Refilled \in Nat
    BY RefilledTyped
  <1>3. CASE rateLimitedSince = NotLimited
    BY <1>1, <1>2, <1>3 DEF SinceDropped
  <1>4. CASE rateLimitedSince # NotLimited
    <2>1. rateLimitedSince \in Int /\ SinceDropped = rateLimitedSince
      BY <1>4 DEF SinceDropped
    <2>2. (lastRefillMs - rateLimitedSince) * Rate \in Int
          /\ (now - lastRefillMs) * Rate \in Int
          /\ (now - rateLimitedSince) * Rate \in Int
      BY <2>1
    <2>3. Refilled = tokens + (now - lastRefillMs) * Rate
      BY <2>2 DEF Refilled, AtMost
    <2>4. (lastRefillMs - rateLimitedSince) * Rate + (now - lastRefillMs) * Rate
            = (now - rateLimitedSince) * Rate
      BY <2>1, SpanSplits
    <2>5. Refilled >= (now - rateLimitedSince) * Rate
      BY <1>4, <2>2, <2>3, <2>4
    <2> QED BY <1>1, <1>4, <2>1, <2>5
  <1> QED BY <1>3, <1>4

(* Every step but a clock set back keeps the account of the episode. *)
LEMMA EpisodeStep ==
  ASSUME Rate * BanAfter >= Token
  PROVE  TypeOK /\ Episode /\ (Serve \/ Drop \/ Tick \/ UNCHANGED vars) => Episode'
  <1> SUFFICES ASSUME TypeOK, Episode, Serve \/ Drop \/ Tick \/ UNCHANGED vars
               PROVE  Episode'
    OBVIOUS
  <1> USE LimiterAssumption DEF TypeOK
  <1>1. CASE Serve
    BY <1>1 DEF Serve, Episode, SinceServed, TooLong, RefillTime, clock
  <1>2. CASE Drop
    <2>1. /\ RefillTime = now
          /\ SinceDropped \in Int /\ SinceDropped <= now
          /\ Refilled >= (now - SinceDropped) * Rate
      BY <1>2, DropInEpisode DEF Drop
    <2>2. ~TooLong(SinceDropped)
      <3> SUFFICES ASSUME now - SinceDropped > BanAfter PROVE FALSE
        BY DEF TooLong
      <3>1. BanAfter * Rate <= (now - SinceDropped) * Rate
        BY <2>1, LongerRefillsMore
      <3>2. (now - SinceDropped) * Rate \in Int /\ BanAfter * Rate \in Int
            /\ Refilled \in Int
        BY <2>1, RefilledTyped
      <3> QED BY <1>2, <2>1, <3>1, <3>2 DEF Drop
    <2> QED BY <1>2, <2>1, <2>2 DEF Drop, Episode, clock
  <1>3. CASE Tick
    BY <1>3 DEF Tick, Episode
  <1>4. CASE UNCHANGED vars
    BY <1>4 DEF vars, Episode
  <1> QED BY <1>1, <1>2, <1>3, <1>4

(* Once the clock was set back, that is remembered. *)
LEMMA KeptStep ==
  ASSUME Rate * BanAfter >= Token
  PROVE  TypeOK /\ EpisodeKept /\ [Next]_vars => EpisodeKept'
  <1> SUFFICES ASSUME TypeOK, EpisodeKept, [Next]_vars PROVE EpisodeKept'
    OBVIOUS
  <1>1. CASE StepBack
    BY <1>1 DEF StepBack, EpisodeKept
  <1>2. CASE Serve \/ Drop \/ Tick \/ UNCHANGED vars
    <2>1. CASE setBack
      BY <1>2, <2>1 DEF Serve, Drop, Tick, clock, vars, EpisodeKept
    <2>2. CASE Episode
      BY <1>2, <2>2, EpisodeStep DEF EpisodeKept
    <2> QED BY <2>1, <2>2 DEF EpisodeKept
  <1> QED BY <1>1, <1>2 DEF Next

(* With a rate that refills a token within the ban time, no connection is  *)
(* banned before the clock is set back, flood or not.                      *)
THEOREM BanUnreachable ==
  ASSUME Rate * BanAfter >= Token
  PROVE  Spec => []BanNeedsClockSetBack
  <1>1. Init => EpisodeKept
    BY LimiterAssumption DEF Init, Episode, EpisodeKept
  <1>2. EpisodeKept => BanNeedsClockSetBack
    BY DEF Episode, EpisodeKept, BanNeedsClockSetBack
  <1> QED BY <1>1, <1>2, KeptStep, LimiterTypes, PTL DEF Spec
=============================================================================
