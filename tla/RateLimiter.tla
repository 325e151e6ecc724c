----------------------------- MODULE RateLimiter -----------------------------
(***************************************************************************)
(* RateLimiter of src/src/utils.cpp: a bucket of tokens that fills up by   *)
(* the time that has passed whenever somebody asks.  Every operation holds *)
(* mutex_ from its first line to its last, so each is one action; what     *)
(* happens between them is left to the module that extends this one.       *)
(*                                                                         *)
(* tokens_ is a double: it is counted in parts of a token, and rate_ in    *)
(* such parts per millisecond.  The steady clock is finer than the         *)
(* millisecond that refill_tokens() counts in.                             *)
(***************************************************************************)
EXTENDS Integers

CONSTANTS
  Unit,      \* the parts of a token
  Quanta,    \* the readings of the steady clock in a millisecond
  Burst,     \* burst_size_
  Rates,     \* values of rate_
  Fastest,   \* the highest of them
  MaxSince   \* bound: readings since the last refill, see LimiterAssumption

\* Past MaxSince the bucket is full at any rate but 0, so that nothing changes.
ASSUME LimiterAssumption ==
  /\ {Unit, Quanta} \subseteq Nat \ {0}
  /\ Burst \in Nat
  /\ Rates \subseteq Nat
  /\ Fastest \in Nat /\ \A r \in Rates : r <= Fastest
  /\ MaxSince \in Nat
  /\ \A r \in Rates \ {0} : r * (MaxSince \div Quanta) >= Burst * Unit

VARIABLES
  rate,      \* rate_
  tokens,    \* tokens_
  since,     \* the time since last_refill_
  allowance  \* history: what a bucket of the same size that fills at the
             \* highest rate, reading by reading, has left; in parts of a
             \* part, one for each reading of a millisecond

limiter == <<rate, tokens, since, allowance>>

Smaller(m, n) == IF m <= n THEN m ELSE n

Full == Burst * Unit

LimiterTypeOK ==
  /\ rate \in Rates
  /\ tokens \in 0 .. Full
  /\ since \in 0 .. MaxSince
  /\ allowance \in Int

LimiterInit ==
  /\ rate \in Rates
  /\ tokens = Full
  /\ since = 0
  /\ allowance = Full * Quanta

-----------------------------------------------------------------------------
\* duration_cast<milliseconds>
Elapsed == since \div Quanta

\* Fault: the bucket has no brim.
RefilledOver == tokens + rate * Elapsed

\* refill_tokens()
Refilled == Smaller(tokens + rate * Elapsed, Full)

Covers(n) == Refilled >= n * Unit

\* try_acquire(n); last_refill_ moves on whether or not a millisecond was over.
TryAcquire(n) ==
  /\ tokens' = IF Covers(n) THEN Refilled - n * Unit ELSE Refilled
  /\ since' = 0
  /\ allowance' = IF Covers(n) THEN allowance - n * Unit * Quanta ELSE allowance
  /\ UNCHANGED rate

\* set_rate(): the new rate holds for the time since the last refill as well.
SetRate(r) ==
  /\ rate' = r
  /\ UNCHANGED <<tokens, since, allowance>>

Passes ==
  /\ since' = Smaller(since + 1, MaxSince)
  /\ allowance' = Smaller(allowance + Fastest, Full * Quanta)
  /\ UNCHANGED <<rate, tokens>>

LimiterNext ==
  \/ \E n \in Nat : TryAcquire(n)
  \/ \E r \in Rates : SetRate(r)
  \/ Passes

LimiterSpec == LimiterInit /\ [][LimiterNext]_limiter

-----------------------------------------------------------------------------
\* However many callers ask, in whatever steps, and however the rate is
\* changed meanwhile, in no stretch of time more tokens are granted than the
\* burst and what the highest rate gives in that time (utils.cpp:452-492).
WithinAllowance == allowance >= 0
=============================================================================
