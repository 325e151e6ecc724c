---------------------------- MODULE PacingProofs ----------------------------
(***************************************************************************)
(* The rate limiter never grants more than its allowance, for every size   *)
(* of the bucket, every clock and all rates, and for any number of threads *)
(* that pace themselves.                                                   *)
(***************************************************************************)
EXTENDS Pacing, TLAPS

-----------------------------------------------------------------------------
(***************************************************************************)
(* The limiter on its own.  WithinAllowance alone is not inductive: what   *)
(* is in the bucket, together with what the time since the last refill may *)
(* still bring, must be covered by the allowance as well.                  *)
(***************************************************************************)
\* The most a refill at this moment may leave in the bucket.
Claim == Smaller(tokens * Quanta + Fastest * since, Full * Quanta)

Covered == Claim <= allowance

LimiterInv == LimiterTypeOK /\ Covered

\* A product of naturals is a natural.
LEMMA Product == \A m, n \in Nat : m * n \in Nat
  OBVIOUS

\* A factor may be replaced by a larger one.
LEMMA LargerFactor ==
  ASSUME NEW m \in Nat, NEW n \in Nat, NEW k \in Nat, m <= n
  PROVE  m * k <= n * k
  OBVIOUS

\* One more of m adds one k.
LEMMA OneMore ==
  ASSUME NEW m \in Nat, NEW n \in Nat, NEW k \in Nat, m <= n + 1
  PROVE  k * m <= k * n + k
  <1>1. m * k <= (n + 1) * k
    BY LargerFactor
  <1>2. QED
    BY <1>1

\* A quotient is a natural, and what it stands for is no more than there was.
LEMMA Quotient ==
  ASSUME NEW m \in Nat, NEW q \in Nat \ {0}
  PROVE  /\ m \div q \in Nat
         /\ (m \div q) * q <= m
  OBVIOUS

-----------------------------------------------------------------------------
LEMMA FullIsNat == Full \in Nat /\ Full * Quanta \in Nat
  <1>1. Full \in Nat
    BY Product, LimiterAssumption DEF Full
  <1>2. QED
    BY <1>1, Product, LimiterAssumption

\* The time in which the bucket has filled counts in whole milliseconds, so
\* that a refill brings no more than the highest rate in that time.
LEMMA RefillClaimed ==
  ASSUME LimiterTypeOK
  PROVE  /\ Refilled \in 0 .. Full
         /\ Refilled * Quanta <= Claim
  <1> DEFINE gain == rate * Elapsed
             brim == tokens + gain
  <1>1. /\ rate \in Nat /\ rate <= Fastest /\ Fastest \in Nat
        /\ tokens \in 0 .. Full /\ tokens \in Nat
        /\ since \in Nat
        /\ Quanta \in Nat \ {0}
    BY LimiterAssumption, FullIsNat DEF LimiterTypeOK
  <1>2. Elapsed \in Nat /\ Elapsed * Quanta <= since
    BY <1>1, Quotient DEF Elapsed
  <1>3. gain \in Nat /\ brim \in Nat
    BY <1>1, <1>2, Product
  <1>4. gain * Quanta <= Fastest * since
    <2>1. Elapsed * Quanta \in Nat
      BY <1>1, <1>2, Product
    <2>2. rate * (Elapsed * Quanta) <= Fastest * (Elapsed * Quanta)
      BY <1>1, <2>1, LargerFactor
    <2>3. (Elapsed * Quanta) * Fastest <= since * Fastest
      BY <1>1, <1>2, <2>1, LargerFactor
    <2>4. gain * Quanta = rate * (Elapsed * Quanta)
      BY <1>1, <1>2
    <2>5. QED
      BY <2>1, <2>2, <2>3, <2>4, <1>1, <1>3, Product
  <1>5. brim * Quanta = tokens * Quanta + gain * Quanta
    BY <1>1, <1>3
  <1> HIDE DEF brim, gain
  <1>6. brim * Quanta <= tokens * Quanta + Fastest * since
    <2>1. /\ gain * Quanta \in Nat /\ tokens * Quanta \in Nat
          /\ Fastest * since \in Nat
      BY <1>1, <1>3, Product
    <2>2. QED
      BY <2>1, <1>4, <1>5
  <1>7. Refilled = Smaller(brim, Full)
    BY DEF Refilled, brim, gain
  <1>8. Refilled \in 0 .. Full
    BY <1>7, <1>3, FullIsNat DEF Smaller
  <1>9. Refilled * Quanta <= brim * Quanta /\ Refilled * Quanta <= Full * Quanta
    <2>1. Refilled \in Nat /\ Refilled <= brim /\ Refilled <= Full
      BY <1>7, <1>3, FullIsNat DEF Smaller
    <2>2. QED
      BY <2>1, <1>1, <1>3, FullIsNat, LargerFactor
  <1>10. /\ Refilled * Quanta \in Nat /\ brim * Quanta \in Nat
         /\ tokens * Quanta + Fastest * since \in Nat
    BY <1>1, <1>3, <1>8, FullIsNat, Product
  <1>11. QED
    BY <1>6, <1>8, <1>9, <1>10, FullIsNat DEF Claim, Smaller

LEMMA InitCovered == LimiterInit => LimiterInv
  <1> SUFFICES ASSUME LimiterInit PROVE LimiterInv
    OBVIOUS
  <1> USE DEF LimiterInit
  <1>1. LimiterTypeOK
    BY FullIsNat, LimiterAssumption DEF LimiterTypeOK
  <1>2. Claim = Full * Quanta
    <2>1. Fastest * 0 = 0
      BY LimiterAssumption
    <2>2. QED
      BY <2>1, FullIsNat DEF Claim, Smaller
  <1>3. QED
    BY <1>1, <1>2, FullIsNat DEF LimiterInv, Covered

LEMMA TryAcquireKeeps ==
  ASSUME LimiterInv, NEW n \in Nat, TryAcquire(n)
  PROVE  LimiterInv'
  <1> USE DEF LimiterInv
  <1>1. /\ Refilled \in 0 .. Full /\ Refilled * Quanta <= Claim
        /\ Claim <= allowance /\ allowance \in Int /\ Quanta \in Nat \ {0}
    BY RefillClaimed, LimiterAssumption DEF Covered, LimiterTypeOK
  <1>2. /\ n * Unit \in Nat /\ n * Unit * Quanta \in Nat
        /\ Refilled * Quanta \in Nat
    BY <1>1, Product, LimiterAssumption, FullIsNat
  <1>3. Claim \in Int
    BY FullIsNat, Product, LimiterAssumption DEF Claim, Smaller, LimiterTypeOK
  <1>4. tokens' \in 0 .. Full
    BY <1>1, <1>2, FullIsNat DEF TryAcquire, Covers
  <1>5. tokens' * Quanta <= allowance' /\ allowance' \in Int
    <2>1. CASE Covers(n)
      <3>1. /\ tokens' = Refilled - n * Unit
            /\ allowance' = allowance - n * Unit * Quanta
        BY <2>1 DEF TryAcquire
      <3>2. (Refilled - n * Unit) * Quanta = Refilled * Quanta - n * Unit * Quanta
        <4>1. Refilled \in Int /\ n * Unit \in Int /\ Quanta \in Int
          BY <1>1, <1>2, FullIsNat
        <4>2. QED
          BY <4>1
      <3>3. QED
        BY <3>1, <3>2, <1>1, <1>2, <1>3
    <2>2. CASE ~Covers(n)
      BY <2>2, <1>1, <1>2, <1>3 DEF TryAcquire
    <2>3. QED
      BY <2>1, <2>2
  <1>6. LimiterTypeOK'
    BY <1>4, <1>5, LimiterAssumption DEF LimiterTypeOK, TryAcquire, Full
  <1>7. Claim' <= allowance'
    <2>1. since' = 0 /\ Fastest * 0 = 0
      BY LimiterAssumption DEF TryAcquire
    <2>2. tokens' * Quanta \in Int
      BY <1>1, <1>4, FullIsNat
    <2>3. Claim' = Smaller(tokens' * Quanta, Full * Quanta)
      BY <2>1, <2>2 DEF Claim, Full
    <2>4. QED
      BY <2>2, <2>3, <1>5, FullIsNat DEF Smaller
  <1>8. QED
    BY <1>6, <1>7 DEF Covered

LEMMA SetRateKeeps ==
  ASSUME LimiterInv, NEW r \in Rates, SetRate(r)
  PROVE  LimiterInv'
  BY DEF LimiterInv, LimiterTypeOK, Covered, Claim, SetRate, Full, Smaller

\* Both sides grow by the highest rate, or stop at the brim.
LEMMA PassesKeeps ==
  ASSUME LimiterInv, Passes
  PROVE  LimiterInv'
  <1> USE DEF LimiterInv
  <1>1. /\ tokens \in Nat /\ since \in Nat /\ since' \in Nat /\ Fastest \in Nat
        /\ tokens' = tokens /\ rate' = rate /\ Full' = Full
        /\ since' <= since + 1 /\ since' \in 0 .. MaxSince
        /\ allowance \in Int
        /\ allowance' = Smaller(allowance + Fastest, Full * Quanta)
    BY FullIsNat, LimiterAssumption DEF LimiterTypeOK, Passes, Smaller, Full
  <1>2. Fastest * since' <= Fastest * since + Fastest
    BY <1>1, OneMore
  <1>3. /\ tokens * Quanta \in Nat /\ Fastest * since \in Nat
        /\ Fastest * since' \in Nat
    BY <1>1, Product, LimiterAssumption
  <1>4. LimiterTypeOK'
    BY <1>1, FullIsNat DEF LimiterTypeOK, Smaller
  <1>5. Claim' = Smaller(tokens * Quanta + Fastest * since', Full * Quanta)
    BY <1>1 DEF Claim
  <1>6. Smaller(tokens * Quanta + Fastest * since, Full * Quanta) <= allowance
    BY DEF Covered, Claim
  <1>7. Claim' <= allowance'
    BY <1>1, <1>2, <1>3, <1>5, <1>6, FullIsNat DEF Smaller
  <1>8. QED
    BY <1>4, <1>7 DEF Covered

LEMMA LimiterStep == LimiterInv /\ [LimiterNext]_limiter => LimiterInv'
  <1> SUFFICES ASSUME LimiterInv, [LimiterNext]_limiter PROVE LimiterInv'
    OBVIOUS
  <1>1. ASSUME NEW n \in Nat, TryAcquire(n) PROVE LimiterInv'
    BY <1>1, TryAcquireKeeps
  <1>2. ASSUME NEW r \in Rates, SetRate(r) PROVE LimiterInv'
    BY <1>2, SetRateKeeps
  <1>3. CASE Passes
    BY <1>3, PassesKeeps
  <1>4. CASE UNCHANGED limiter
    BY <1>4 DEF limiter, LimiterInv, LimiterTypeOK, Covered, Claim, Smaller, Full
  <1>5. QED
    BY <1>1, <1>2, <1>3, <1>4 DEF LimiterNext

LEMMA CoveredIsEnough == LimiterInv => WithinAllowance
  <1> SUFFICES ASSUME LimiterInv PROVE allowance >= 0
    BY DEF WithinAllowance
  <1>1. /\ tokens * Quanta + Fastest * since \in Nat /\ allowance \in Int
    BY FullIsNat, Product, LimiterAssumption DEF LimiterInv, LimiterTypeOK
  <1>2. QED
    BY <1>1, FullIsNat DEF LimiterInv, Covered, Claim, Smaller

\* Whatever is asked, whenever and by whomever, and however the rate changes,
\* the limiter stays within its allowance.
THEOREM LimiterWithin == LimiterSpec => [](LimiterTypeOK /\ WithinAllowance)
  <1>1. LimiterInv => LimiterTypeOK /\ WithinAllowance
    BY CoveredIsEnough DEF LimiterInv
  <1>2. QED
    BY InitCovered, LimiterStep, <1>1, PTL DEF LimiterSpec
-----------------------------------------------------------------------------
(***************************************************************************)
(* The threads that pace themselves: what they do to the limiter are steps *)
(* of the limiter.                                                         *)
(***************************************************************************)
\* Each thread is after a natural number of tokens.
WantOK == want \in [Threads -> Nat]

LEMMA WantInit == Init => WantOK
  BY DEF Init, WantOK

LEMMA WantStep == WantOK /\ [Next]_vars => WantOK'
  <1> SUFFICES ASSUME WantOK, [Next]_vars PROVE WantOK'
    OBVIOUS
  <1> USE DEF WantOK
  <1>1. ASSUME NEW t \in Threads, NEW n \in Wanted, Begin(t, n) PROVE WantOK'
    BY <1>1, PacingAssumption DEF Begin
  <1>2. ASSUME NEW t \in Threads, Granted(t) PROVE WantOK'
    BY <1>2 DEF Granted
  <1>3. CASE Tick \/ ChangeRate
    BY <1>3 DEF Tick, ChangeRate
  <1>4. ASSUME NEW t \in Callers, CallerStep(t) PROVE WantOK'
    BY <1>4, <1>2 DEF CallerStep, CallerGranted, CallerRefused, CallerWakes, Threads
  <1>5. ASSUME NEW t \in Waiters, WaiterStep(t) PROVE WantOK'
    BY <1>5, <1>2 DEF WaiterStep, WaitLooks, WaitGranted, WaitRefused, WaitWakes, Threads
  <1>6. CASE UNCHANGED vars
    BY <1>6 DEF vars, threads
  <1>7. QED
    BY <1>1, <1>3, <1>4, <1>5, <1>6 DEF Next, CallerBegins, WaitBegins, Threads

\* A step of a thread, or of the clock, is a step of the limiter or leaves it
\* alone.
LEMMA LimiterStepSimulated == WantOK /\ [Next]_vars => [LimiterNext]_limiter
  <1> SUFFICES ASSUME WantOK, [Next]_vars PROVE [LimiterNext]_limiter
    OBVIOUS
  <1> USE DEF LimiterNext
  <1>1. ASSUME NEW t \in Threads, TryAcquire(want[t]) PROVE LimiterNext
    <2>1. want[t] \in Nat
      BY DEF WantOK
    <2>2. QED
      BY <2>1, <1>1
  <1>2. CASE Tick
    BY <1>2 DEF Tick
  <1>3. CASE ChangeRate
    BY <1>3 DEF ChangeRate
  <1>4. ASSUME NEW t \in Callers, CallerStep(t) PROVE [LimiterNext]_limiter
    <2>1. t \in Threads
      BY DEF Threads
    <2>2. CASE CallerWakes(t)
      BY <2>2 DEF CallerWakes
    <2>3. CASE CallerGranted(t) \/ CallerRefused(t)
      BY <2>1, <2>3, <1>1 DEF CallerGranted, CallerRefused, Granted
    <2>4. QED
      BY <1>4, <2>2, <2>3 DEF CallerStep
  <1>5. ASSUME NEW t \in Waiters, WaiterStep(t) PROVE [LimiterNext]_limiter
    <2>1. t \in Threads
      BY DEF Threads
    <2>2. CASE WaitLooks(t) \/ WaitWakes(t)
      BY <2>2 DEF WaitLooks, WaitWakes
    <2>3. CASE WaitGranted(t) \/ WaitRefused(t)
      BY <2>1, <2>3, <1>1 DEF WaitGranted, WaitRefused, Granted
    <2>4. QED
      BY <1>5, <2>2, <2>3 DEF WaiterStep
  <1>6. ASSUME NEW t \in Threads, NEW n \in Wanted, Begin(t, n)
        PROVE  UNCHANGED limiter
    BY <1>6 DEF Begin
  <1>7. CASE UNCHANGED vars
    BY <1>7 DEF vars
  <1>8. QED
    BY <1>2, <1>3, <1>4, <1>5, <1>6, <1>7 DEF Next, CallerBegins, WaitBegins, Threads

\* The threads use the limiter as its own specification allows.
THEOREM UsesLimiter == Spec => LimiterSpec
  <1>1. Init => LimiterInit
    BY DEF Init
  <1>2. QED
    BY WantInit, WantStep, LimiterStepSimulated, <1>1, PTL DEF Spec, LimiterSpec

\* For any callers, waiters, delays, rates and sizes, no stretch of time sees
\* more tokens granted than the limiter's allowance.
THEOREM LimitAlwaysHolds == Spec => []LimiterHolds
  BY UsesLimiter, LimiterWithin, PTL DEF LimiterHolds
====
