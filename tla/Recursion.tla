------------------------------ MODULE Recursion ------------------------------
(***************************************************************************)
(* Induction and recursion over the natural numbers, stated with sets and  *)
(* functions, so that the provers can instantiate them.  The proofs about  *)
(* what a recursive function computes rest on these: the replay of a       *)
(* channel (DjSync), the views of the store buffer (Handoff) and the pull  *)
(* loop of a render block (Engine).                                        *)
(***************************************************************************)
EXTENDS FiniteSetTheorems, TLAPS

(* Every set of numbers has a least one: below a member n, the intervals   *)
(* from 0 are finitely many, and the smallest of them is minimal.          *)
LEMMA LeastNumber ==
    ASSUME NEW S, S \subseteq Nat, NEW n \in S
    PROVE  \E m \in S : \A k \in S : m <= k
<1> DEFINE below == {k \in S : k <= n}
           T     == {0 .. k : k \in below}
           R     == StrictSubsetOrdering(0 .. n)
<1>1. n \in Nat /\ n \in below /\ below \subseteq 0 .. n
  <2>1. n \in Nat
    OBVIOUS
  <2>2. n \in below
    BY <2>1
  <2>3. ASSUME NEW k \in below PROVE k \in 0 .. n
    <3>1. k \in Nat /\ k <= n
      OBVIOUS
    <3> QED
      BY <2>1, <3>1
  <2> QED
    BY <2>1, <2>2, <2>3
<1> HIDE DEF below
<1>2. IsWellFoundedOn(R, SUBSET (0 .. n))
  <2>1. IsFiniteSet(0 .. n)
    BY <1>1, FS_Interval
  <2>2. FiniteSubsetsOf(0 .. n) = SUBSET (0 .. n)
    BY <2>1, FS_FiniteSubsetsOfFinite
  <2>3. IsWellFoundedOn(R, FiniteSubsetsOf(0 .. n))
    BY FS_StrictSubsetOrderingWellFounded
  <2> QED
    BY <2>2, <2>3
<1>3. T \subseteq SUBSET (0 .. n) /\ T # {}
  BY <1>1
<1>4. PICK x \in T : \A y \in T : <<y, x>> \notin R
  <2> HIDE DEF R, T
  <2> QED
    BY <1>2, <1>3, WFMin
<1>5. PICK m \in below : x = 0 .. m
  BY <1>4
<1>6. ASSUME NEW k \in S, k < m PROVE FALSE
  <2>1. k \in below /\ k \in Nat /\ m \in Nat /\ m <= n
    BY <1>1, <1>5, <1>6 DEF below
  <2>2. 0 .. k \in T
    BY <2>1
  <2>3. 0 .. k \subseteq 0 .. m /\ m \in 0 .. m /\ m \notin 0 .. k /\ 0 .. m \subseteq 0 .. n
    BY <2>1, <1>1, <1>6
  <2>4. <<0 .. k, 0 .. m>> \in R
    BY <2>3 DEF StrictSubsetOrdering
  <2> QED
    BY <2>2, <2>4, <1>4, <1>5
<1> QED
  BY <1>5, <1>6, <1>1 DEF below

(* Induction up to a bound. *)
LEMMA InductionTo ==
    ASSUME NEW N \in Nat, NEW S, 0 \in S, \A n \in 0 .. N - 1 : n \in S => n + 1 \in S
    PROVE  0 .. N \subseteq S
<1> DEFINE bad == {n \in 0 .. N : n \notin S}
<1> SUFFICES ASSUME NEW b \in bad PROVE FALSE
  OBVIOUS
<1>1. PICK m \in bad : \A k \in bad : m <= k
  <2>1. bad \subseteq Nat
    OBVIOUS
  <2> HIDE DEF bad
  <2> QED
    BY <2>1, LeastNumber
<1>2. m # 0 /\ m \in 0 .. N /\ m - 1 \in 0 .. N - 1 /\ (m - 1) + 1 = m
  OBVIOUS
<1>3. m - 1 \in S
  BY <1>1, <1>2
<1> QED
  BY <1>2, <1>3

(* Induction over all numbers. *)
LEMMA InductionOverNat ==
    ASSUME NEW S, 0 \in S, \A n \in Nat : n \in S => n + 1 \in S
    PROVE  Nat \subseteq S
<1> SUFFICES ASSUME NEW n \in Nat PROVE n \in S
  OBVIOUS
<1>1. 0 .. n \subseteq S
  BY InductionTo
<1> QED
  BY <1>1

-----------------------------------------------------------------------------
(* A function that is defined step by step up to N: it starts with base,   *)
(* and step gives each value from its number and the value before.         *)
Follows(f, base, step, N) ==
    /\ f[0] = base
    /\ \A i \in 1 .. N : f[i] = step[<<i, f[i - 1]>>]

(* One that is defined for all numbers. *)
FollowsOn(f, base, step) ==
    /\ f[0] = base
    /\ \A i \in Nat \ {0} : f[i] = step[<<i, f[i - 1]>>]

(* There is one, up to any bound. *)
LEMMA RecursionTo ==
    ASSUME NEW V, NEW base \in V, NEW N \in Nat, NEW step \in [(1 .. N) \X V -> V]
    PROVE  \E f \in [0 .. N -> V] : Follows(f, base, step, N)
<1> DEFINE S == {n \in 0 .. N : \E f \in [0 .. n -> V] : Follows(f, base, step, n)}
<1>1. 0 \in S
  <2>1. [i \in 0 .. 0 |-> base] \in [0 .. 0 -> V]
    OBVIOUS
  <2>2. Follows([i \in 0 .. 0 |-> base], base, step, 0)
    BY DEF Follows
  <2> QED
    BY <2>1, <2>2
<1>2. ASSUME NEW n \in 0 .. N - 1, n \in S PROVE n + 1 \in S
  <2>1. PICK f \in [0 .. n -> V] : Follows(f, base, step, n)
    BY <1>2
  <2> DEFINE g == [i \in 0 .. n + 1 |-> IF i = n + 1 THEN step[<<i, f[n]>>] ELSE f[i]]
  <2>2. n \in Nat /\ n + 1 \in 1 .. N /\ f[n] \in V
    OBVIOUS
  <2>3. step[<<n + 1, f[n]>>] \in V
    <3>1. <<n + 1, f[n]>> \in (1 .. N) \X V
      BY <2>2
    <3> QED
      BY <3>1
  <2>4. g \in [0 .. n + 1 -> V]
    BY <2>2, <2>3
  <2>5. g[0] = base
    BY <2>1, <2>2 DEF Follows
  <2>6. ASSUME NEW i \in 1 .. n + 1 PROVE g[i] = step[<<i, g[i - 1]>>]
    <3>1. CASE i = n + 1
      BY <2>2, <3>1
    <3>2. CASE i \in 1 .. n
      <4>1. g[i] = f[i] /\ g[i - 1] = f[i - 1]
        BY <2>2, <3>2
      <4> QED
        BY <2>1, <3>2, <4>1 DEF Follows
    <3> QED
      BY <2>2, <3>1, <3>2
  <2> HIDE DEF g
  <2>7. Follows(g, base, step, n + 1)
    BY <2>5, <2>6 DEF Follows
  <2> QED
    BY <2>2, <2>4, <2>7
<1> HIDE DEF S
<1>3. 0 .. N \subseteq S
  BY <1>1, <1>2, InductionTo
<1> QED
  BY <1>3 DEF S

(* And one over all numbers: the value at n is the one that all the        *)
(* functions up to a bound from n on agree on.                             *)
LEMMA RecursionOverNat ==
    ASSUME NEW V, NEW base \in V, NEW step \in [(Nat \ {0}) \X V -> V]
    PROVE  \E f \in [Nat -> V] : FollowsOn(f, base, step)
<1> DEFINE Upto(n) == {f \in [0 .. n -> V] : Follows(f, base, step, n)}
<1>1. ASSUME NEW n \in Nat PROVE Upto(n) # {}
  <2> DEFINE part == [x \in (1 .. n) \X V |-> step[x]]
  <2>1. part \in [(1 .. n) \X V -> V]
    <3>1. ASSUME NEW x \in (1 .. n) \X V PROVE step[x] \in V
      <4>1. x \in (Nat \ {0}) \X V
        BY <3>1
      <4> QED
        BY <4>1
    <3> QED
      BY <3>1
  <2>2. PICK f \in [0 .. n -> V] : Follows(f, base, part, n)
    <3> HIDE DEF part
    <3> QED
      BY <2>1, RecursionTo
  <2>3. ASSUME NEW i \in 1 .. n PROVE f[i] = step[<<i, f[i - 1]>>]
    <3>1. f[i] = part[<<i, f[i - 1]>>]
      BY <2>2 DEF Follows
    <3>2. i - 1 \in 0 .. n
      OBVIOUS
    <3>3. <<i, f[i - 1]>> \in (1 .. n) \X V
      BY <3>2
    <3> QED
      BY <3>1, <3>3
  <2>4. Follows(f, base, step, n)
    BY <2>2, <2>3 DEF Follows
  <2> QED
    BY <2>4
<1>2. ASSUME NEW n \in Nat, NEW k \in 0 .. n, NEW f \in Upto(n), NEW g \in Upto(k)
      PROVE  f[k] = g[k]
  <2> DEFINE S == {i \in 0 .. k : f[i] = g[i]}
  <2>1. 0 \in S
    BY DEF Follows
  <2>2. ASSUME NEW i \in 0 .. k - 1, i \in S PROVE i + 1 \in S
    <3>1. i + 1 \in 1 .. k /\ i + 1 \in 1 .. n /\ (i + 1) - 1 = i
      OBVIOUS
    <3>2. f[i + 1] = step[<<i + 1, f[i]>>] /\ g[i + 1] = step[<<i + 1, g[i]>>]
      BY <3>1 DEF Follows
    <3>3. f[i] = g[i] /\ i + 1 \in 0 .. k
      BY <2>2, <3>1
    <3>4. f[i + 1] = g[i + 1]
      BY <3>2, <3>3
    <3> QED
      BY <3>3, <3>4
  <2>3. k \in Nat
    OBVIOUS
  <2> HIDE DEF S
  <2>4. 0 .. k \subseteq S
    BY <2>1, <2>2, <2>3, InductionTo
  <2>5. k \in S
    BY <2>3, <2>4
  <2> QED
    BY <2>5 DEF S
<1> DEFINE pick(n) == CHOOSE f : f \in Upto(n)
           whole   == [n \in Nat |-> pick(n)[n]]
<1>3. ASSUME NEW n \in Nat PROVE pick(n) \in Upto(n)
  BY <1>1
<1> HIDE DEF pick
<1>4. whole \in [Nat -> V]
  <2>1. ASSUME NEW n \in Nat PROVE pick(n)[n] \in V
    BY <1>3
  <2> QED
    BY <2>1
<1>5. whole[0] = base
  <2>1. pick(0)[0] = base
    BY <1>3 DEF Follows
  <2> QED
    BY <2>1
<1>6. ASSUME NEW i \in Nat \ {0} PROVE whole[i] = step[<<i, whole[i - 1]>>]
  <2>1. i \in 1 .. i /\ i - 1 \in Nat /\ i - 1 \in 0 .. i
    OBVIOUS
  <2>2. pick(i)[i] = step[<<i, pick(i)[i - 1]>>]
    BY <1>3, <2>1 DEF Follows
  <2>3. pick(i)[i - 1] = pick(i - 1)[i - 1]
    <3>1. pick(i) \in Upto(i) /\ pick(i - 1) \in Upto(i - 1)
      BY <1>3, <2>1
    <3> HIDE DEF Upto
    <3> QED
      BY <1>2, <2>1, <3>1
  <2> QED
    BY <2>1, <2>2, <2>3
<1> HIDE DEF whole
<1>7. FollowsOn(whole, base, step)
  BY <1>5, <1>6 DEF FollowsOn
<1> QED
  BY <1>4, <1>7
=============================================================================
