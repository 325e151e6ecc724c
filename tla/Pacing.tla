-------------------------------- MODULE Pacing --------------------------------
(***************************************************************************)
(* Threads that share a RateLimiter: callers that ask with try_acquire()   *)
(* and, when refused, wait as their ExponentialBackoff tells them and ask  *)
(* again, waiters in wait_for_tokens(), and an application that changes    *)
(* the rate.  Nothing in the SDK puts the two classes together; an         *)
(* application that needs both does it in this way.                        *)
(*                                                                         *)
(* A sleep lasts at least as long as was asked for; a thread may be        *)
(* scheduled any time later.                                               *)
(***************************************************************************)
EXTENDS RateLimiter, ExponentialBackoff

CONSTANTS
  Callers,    \* threads that use try_acquire() and back off
  Waiters,    \* threads that use wait_for_tokens()
  Wanted,     \* numbers of tokens they ask for
  Timeouts,   \* time-outs of wait_for_tokens(), in readings of the clock
  Pause       \* its sleep between two tries, in readings of the clock

Threads == Callers \union Waiters

ASSUME PacingAssumption ==
  /\ Callers \intersect Waiters = {}
  /\ Wanted \subseteq Nat
  /\ Timeouts \subseteq Nat
  /\ Pause \in Nat

VARIABLES
  pc,       \* "idle"; "ask" before try_acquire(); "sleep" after a refusal;
            \* "check" before a waiter's look at the clock
  want,     \* the tokens a thread is after
  left,     \* what is left of its sleep
  backoff,  \* a caller's ExponentialBackoff
  patience, \* what is left of a waiter's time-out
  served    \* history: the last step granted tokens

threads == <<pc, want, left, backoff, patience, served>>
vars == <<limiter, threads>>

TypeOK ==
  /\ LimiterTypeOK
  /\ pc \in [Threads -> {"idle", "ask", "sleep", "check"}]
  /\ want \in [Threads -> Wanted \union {0}]
  /\ left \in [Threads -> Nat]
  /\ backoff \in [Callers -> [attempts : 0 .. MaxAttempts, current : Nat]]
  /\ patience \in [Waiters -> Nat]
  /\ served \in BOOLEAN

Init ==
  /\ LimiterInit
  /\ pc = [t \in Threads |-> "idle"]
  /\ want = [t \in Threads |-> 0]
  /\ left = [t \in Threads |-> 0]
  /\ backoff = [t \in Callers |-> NewBackoff]
  /\ patience = [t \in Waiters |-> 0]
  /\ served = FALSE

Goto(t, step) == pc' = [pc EXCEPT ![t] = step]
Awake(t) == left[t] = 0

-----------------------------------------------------------------------------
Less(f, t) == IF f[t] = 0 THEN 0 ELSE f[t] - 1

Tick ==
  /\ Passes
  /\ left' = [t \in Threads |-> Less(left, t)]
  /\ patience' = [t \in Waiters |-> Less(patience, t)]
  /\ served' = FALSE
  /\ UNCHANGED <<pc, want, backoff>>

ChangeRate ==
  /\ \E r \in Rates \ {rate} : SetRate(r)
  /\ served' = FALSE
  /\ UNCHANGED <<pc, want, left, backoff, patience>>

Begin(t, n) ==
  /\ pc[t] = "idle"
  /\ want' = [want EXCEPT ![t] = n]
  /\ served' = FALSE
  /\ UNCHANGED <<limiter, left, backoff>>

\* try_acquire() has taken the tokens: the work is done and forgotten.
Granted(t) ==
  /\ Covers(want[t])
  /\ TryAcquire(want[t])
  /\ served' = TRUE
  /\ want' = [want EXCEPT ![t] = 0]
  /\ Goto(t, "idle")
  /\ UNCHANGED <<left, patience>>

-----------------------------------------------------------------------------
(***************************************************************************)
(* A caller with a back-off.                                               *)
(***************************************************************************)
\* Bound: callers ask for no more than the bucket can hold.
CallerBegins(t, n) ==
  /\ n <= Burst
  /\ Begin(t, n)
  /\ Goto(t, "ask")
  /\ UNCHANGED patience

CallerGranted(t) ==
  /\ pc[t] = "ask"
  /\ Granted(t)
  /\ backoff' = [backoff EXCEPT ![t] = ResetDelay]

CallerRefused(t) ==
  /\ pc[t] = "ask"
  /\ ~Covers(want[t])
  /\ TryAcquire(want[t])
  /\ LET b == NextDelay(backoff[t])
     IN  /\ backoff' = [backoff EXCEPT ![t] = b]
         /\ left' = [left EXCEPT ![t] = b.current * Quanta]
  /\ Goto(t, "sleep")
  /\ served' = FALSE
  /\ UNCHANGED <<want, patience>>

CallerWakes(t) ==
  /\ pc[t] = "sleep"
  /\ Awake(t)
  /\ Goto(t, "ask")
  /\ served' = FALSE
  /\ UNCHANGED <<limiter, want, left, backoff, patience>>

-----------------------------------------------------------------------------
(***************************************************************************)
(* wait_for_tokens(): while the time-out is not over, ask and sleep.       *)
(***************************************************************************)
WaitBegins(t, n) ==
  /\ Begin(t, n)
  /\ \E w \in Timeouts : patience' = [patience EXCEPT ![t] = w]
  /\ Goto(t, "check")

\* Fault: the clock is not looked at again.
WaitLooksOnce(t) ==
  /\ pc[t] = "check"
  /\ Goto(t, "ask")
  /\ served' = FALSE
  /\ UNCHANGED <<limiter, want, left, backoff, patience>>

WaitLooks(t) ==
  /\ pc[t] = "check"
  /\ IF patience[t] > 0
     THEN Goto(t, "ask") /\ UNCHANGED want
     ELSE Goto(t, "idle") /\ want' = [want EXCEPT ![t] = 0]
  /\ served' = FALSE
  /\ UNCHANGED <<limiter, left, backoff, patience>>

WaitGranted(t) ==
  /\ pc[t] = "ask"
  /\ Granted(t)
  /\ UNCHANGED backoff

WaitRefused(t) ==
  /\ pc[t] = "ask"
  /\ ~Covers(want[t])
  /\ TryAcquire(want[t])
  /\ left' = [left EXCEPT ![t] = Pause]
  /\ Goto(t, "sleep")
  /\ served' = FALSE
  /\ UNCHANGED <<want, backoff, patience>>

WaitWakes(t) ==
  /\ pc[t] = "sleep"
  /\ Awake(t)
  /\ Goto(t, "check")
  /\ served' = FALSE
  /\ UNCHANGED <<limiter, want, left, backoff, patience>>

-----------------------------------------------------------------------------
CallerStep(t) == CallerGranted(t) \/ CallerRefused(t) \/ CallerWakes(t)
WaiterStep(t) == WaitLooks(t) \/ WaitGranted(t) \/ WaitRefused(t) \/ WaitWakes(t)

Next ==
  \/ Tick
  \/ ChangeRate
  \/ \E t \in Callers : CallerStep(t) \/ \E n \in Wanted : CallerBegins(t, n)
  \/ \E t \in Waiters : WaiterStep(t) \/ \E n \in Wanted : WaitBegins(t, n)

Spec == Init /\ [][Next]_vars

\* The clock goes on, and a thread that is in a call is scheduled again.
FairSpec ==
  /\ Spec
  /\ WF_vars(Tick)
  /\ \A t \in Callers : WF_vars(CallerStep(t))
  /\ \A t \in Waiters : WF_vars(WaiterStep(t))

-----------------------------------------------------------------------------
\* The limit of the limiter holds for all threads together, whichever way
\* each of them asks (utils.cpp:452-492).
LimiterHolds == WithinAllowance

\* As long as somebody keeps asking with a back-off, tokens are granted,
\* although refill_tokens() drops the part of a millisecond that has passed at
\* every call (utils.cpp:485-492): the growing delays (utils.cpp:501-517) drive
\* the callers apart until whole milliseconds pass between their calls.
GetsThrough == (\E t \in Callers : pc[t] # "idle") ~> served

\* wait_for_tokens() returns, even to a caller that asks for more than the
\* bucket holds, and whatever the others take (utils.cpp:463-473).
WaitReturns == \A t \in Waiters : pc[t] # "idle" ~> pc[t] = "idle"
=============================================================================
