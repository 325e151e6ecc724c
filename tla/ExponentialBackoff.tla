------------------------- MODULE ExponentialBackoff -------------------------
(***************************************************************************)
(* ExponentialBackoff of src/src/utils.cpp: the delays, in milliseconds,   *)
(* between the attempts of one caller.  The class has no lock: an object   *)
(* belongs to one thread, and is a record of its two changing members.     *)
(***************************************************************************)
EXTENDS Integers

CONSTANTS
  Base,         \* base_delay_
  Times, Over,  \* multiplier_ is Times / Over
  MaxDelay,     \* max_delay_
  MaxAttempts   \* bound: attempts that are counted

ASSUME BackoffAssumption ==
  /\ {Base, Times, MaxDelay} \subseteq Nat
  /\ Over \in Nat \ {0}
  /\ MaxAttempts \in Nat \ {0}

NewBackoff == [attempts |-> 0, current |-> Base]

\* The product is cut to whole milliseconds.
Grown(delay) == (delay * Times) \div Over

Clamped(delay) == IF delay > MaxDelay THEN MaxDelay ELSE delay

\* Fault: the delay is that of the first attempt again.
NextDelayConstant(b) ==
  [attempts |-> IF b.attempts < MaxAttempts THEN b.attempts + 1 ELSE b.attempts,
   current |-> b.current]

\* next_delay() returns the member "current" of this; the first one is the
\* base, even where that is above the maximum.
NextDelay(b) ==
  [attempts |-> IF b.attempts < MaxAttempts THEN b.attempts + 1 ELSE b.attempts,
   current |-> IF b.attempts = 0 THEN b.current ELSE Clamped(Grown(b.current))]

\* reset()
ResetDelay == NewBackoff
=============================================================================
