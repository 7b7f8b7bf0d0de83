----------------------------- MODULE RateLimiter -----------------------------
(***************************************************************************)
(* The token bucket of one connection: refill and charge in                *)
(* server/src/server.js.  Tokens are counted in integer fractions, Token   *)
(* of them to one message, so that a refill of Rate fractions per          *)
(* millisecond is exact (60 messages per second: Token = 1000, Rate = 60). *)
(*                                                                         *)
(* The clock is Date.now(): it may be set back.  Any number of frames may  *)
(* be charged in the same millisecond.                                     *)
(***************************************************************************)
EXTENDS Integers

CONSTANTS
    Token,         \* fractions of a token that one message costs
    Rate,          \* rateLimit.sustainedPerSecond, in fractions per ms
    Burst,         \* rateLimit.burst, in fractions
    BanAfter,      \* rateLimit.banAfterMs
    MaxStepBack,   \* how far the clock may be set back at once
    MaxTime,       \* bound of the model on the clock
    MaxServed,     \* bound of the model on the messages counted as served
    NotLimited     \* null

ASSUME LimiterAssumption ==
    /\ Token \in Nat \ {0} /\ Rate \in Nat /\ Burst \in Nat /\ BanAfter \in Nat
    /\ Burst >= Token
    /\ MaxStepBack \in Nat /\ MaxTime \in Nat /\ MaxServed \in Nat
    /\ NotLimited \notin Int

VARIABLES
    now,                \* Date.now(), from the connection's start
    latest,             \* the latest time the clock has shown
    setBack,            \* the clock was set back (history)
    tokens,
    lastRefillMs,
    rateLimitedSince,
    banned,             \* close(4003) was called
    served,             \* messages served so far
    overload            \* milliseconds in a row with a dropped message in each,
                        \* counted to just past the ban time

vars == <<now, latest, setBack, tokens, lastRefillMs, rateLimitedSince, banned, served, overload>>

clock == <<now, latest, setBack>>

Init ==
    /\ now = 0 /\ latest = 0 /\ setBack = FALSE
    /\ tokens = Burst
    /\ lastRefillMs = 0
    /\ rateLimitedSince = NotLimited
    /\ banned = FALSE
    /\ served = 0
    /\ overload = [length |-> 0, hit |-> FALSE]

-----------------------------------------------------------------------------
AtMost(bound, n) == IF n < bound THEN n ELSE bound

(* The bucket after refill(); a clock that has not advanced adds nothing. *)
Refilled ==
    IF now <= lastRefillMs THEN tokens
    ELSE AtMost(Burst, tokens + (now - lastRefillMs) * Rate)

(* MUTANT: the refill time follows the clock back. *)
ClockFollowed == now

RefillTime == IF now <= lastRefillMs THEN lastRefillMs ELSE now

(* MUTANT: a served frame leaves the violation clock running. *)
SinceUntouched == rateLimitedSince

(* A served frame ends the deficit episode. *)
SinceServed == NotLimited

(* A dropped one starts it, if none is running. *)
SinceDropped == IF rateLimitedSince = NotLimited THEN now ELSE rateLimitedSince

TooLong(since) == since # NotLimited /\ now - since > BanAfter

Serve ==
    /\ ~banned /\ Refilled >= Token
    /\ served < MaxServed                                     \* model bound
    /\ tokens' = Refilled - Token
    /\ lastRefillMs' = RefillTime
    /\ rateLimitedSince' = SinceServed
    /\ banned' = TooLong(SinceServed)
    /\ served' = served + 1
    /\ UNCHANGED <<clock, overload>>

Drop ==
    /\ ~banned /\ Refilled < Token
    /\ tokens' = Refilled
    /\ lastRefillMs' = RefillTime
    /\ rateLimitedSince' = SinceDropped
    /\ banned' = TooLong(SinceDropped)
    /\ overload' = [overload EXCEPT !.hit = TRUE]
    /\ UNCHANGED <<clock, served>>

(* Time passes. *)
Tick ==
    /\ now < MaxTime                                          \* model bound
    /\ now' = now + 1
    /\ latest' = IF latest < now' THEN now' ELSE latest
    /\ overload' = [length |-> IF overload.hit THEN AtMost(BanAfter + 2, overload.length + 1)
                               ELSE 0,
                    hit    |-> FALSE]
    /\ UNCHANGED <<setBack, tokens, lastRefillMs, rateLimitedSince, banned, served>>

(* The clock of the host is set back. *)
StepBack ==
    /\ \E back \in 1 .. MaxStepBack : back <= now /\ now' = now - back
    /\ setBack' = TRUE
    /\ UNCHANGED <<latest, tokens, lastRefillMs, rateLimitedSince, banned, served, overload>>

Next == Serve \/ Drop \/ Tick \/ StepBack

Spec == Init /\ [][Next]_vars

-----------------------------------------------------------------------------
(* Correctness.                                                            *)

(* Every variable has its type. *)
TypeOK ==
    /\ now \in 0 .. MaxTime /\ latest \in 0 .. MaxTime
    /\ lastRefillMs \in 0 .. MaxTime
    /\ tokens \in 0 .. Burst
    /\ rateLimitedSince \in (0 .. MaxTime) \cup {NotLimited}
    /\ banned \in BOOLEAN /\ setBack \in BOOLEAN
    /\ served \in 0 .. MaxServed
    /\ overload \in [length : 0 .. BanAfter + 2, hit : BOOLEAN]

(* However frames are spaced and however the clock jumps, a connection is  *)
(* never served more than a burst and the sustained rate over the time the *)
(* clock has shown: setting the clock back earns nothing.                  *)
AllowanceKept == served * Token <= Burst + latest * Rate

(* At a rate that refills a whole token within the ban time, which the     *)
(* defaults do three hundred times over, a connection is banned only after *)
(* the clock was set back: otherwise a served frame always comes in time   *)
(* to stop the violation clock.                                            *)
BanNeedsClockSetBack == banned => setBack

(* docs/plan/02-protocol.md, rate limiting: "continuous violation for > 5 s *)
(* => close 4003"; server.js:121: "a genuine flood has almost nothing      *)
(* served, so the ban clock still holds against it".  A connection with a  *)
(* dropped frame in every millisecond for longer than the ban time is      *)
(* banned.                                                                 *)
FloodIsBanned == overload.length > BanAfter + 1 => banned
=============================================================================
