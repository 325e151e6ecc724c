--------------------------- MODULE CircuitBreaker ---------------------------
(***************************************************************************)
(* Utils::CircuitBreaker of src/src/utils.cpp and the threads that use it: *)
(* a thread asks is_call_allowed(), makes its call and then records how it *)
(* ended.  Each operation is atomic under mutex_, but between the answer   *)
(* and the record the breaker may go through any number of states, and     *)
(* nothing ties a record to the answer that allowed the call.              *)
(***************************************************************************)
EXTENDS Integers, FiniteSets

CONSTANTS
  Callers,
  FailureThreshold,
  SuccessThreshold,
  Timeout,   \* in ticks of the clock
  Cap,       \* bound: failure_count_ is followed up to here
  Resets     \* somebody calls reset()

\* The constructor takes any int; no positive threshold is below one.
ASSUME BreakerAssumption ==
  /\ FailureThreshold \in Nat \ {0}
  /\ SuccessThreshold \in Nat \ {0}
  /\ Timeout \in Nat
  /\ Cap \in Nat /\ Cap >= FailureThreshold
  /\ Resets \in BOOLEAN

VARIABLES
  state,      \* state_
  failures,   \* failure_count_
  successes,  \* success_count_
  age,        \* time since last_failure_time_, up to Timeout + 1
  up,         \* whether the service the calls go to answers
  call        \* what each caller is doing

breaker == <<state, failures, successes, age>>
vars == <<state, failures, successes, age, up, call>>

TypeOK ==
  /\ state \in {"CLOSED", "OPEN", "HALF_OPEN"}
  /\ failures \in 0 .. Cap
  /\ successes \in 0 .. SuccessThreshold
  /\ age \in 0 .. (Timeout + 1)
  /\ up \in BOOLEAN
  /\ call \in [Callers -> {"idle", "calling", "succeeded", "failed"}]

Init ==
  /\ state = "CLOSED"
  /\ failures = 0
  /\ successes = 0
  /\ age = 0
  /\ up = TRUE
  /\ call = [t \in Callers |-> "idle"]

Becomes(t, step) == call' = [call EXCEPT ![t] = step]

\* Fault: the time since the failure is computed backwards.
ElapsedSwapped == -age > Timeout

Elapsed == age > Timeout

-----------------------------------------------------------------------------
(***************************************************************************)
(* is_call_allowed(), where it answers yes; "no" leaves all as it is.      *)
(***************************************************************************)
AskClosed(t) ==
  /\ call[t] = "idle"
  /\ state = "CLOSED"
  /\ Becomes(t, "calling")
  /\ UNCHANGED <<breaker, up>>

AskOpen(t) ==
  /\ call[t] = "idle"
  /\ state = "OPEN"
  /\ Elapsed
  /\ state' = "HALF_OPEN"
  /\ successes' = 0
  /\ Becomes(t, "calling")
  /\ UNCHANGED <<failures, age, up>>

\* Fault: only the call that finds the timeout over is let through.
AskHalfOpenRefused(t) ==
  /\ call[t] = "idle"
  /\ state = "HALF_OPEN"
  /\ UNCHANGED vars

AskHalfOpen(t) ==
  /\ call[t] = "idle"
  /\ state = "HALF_OPEN"
  /\ Becomes(t, "calling")
  /\ UNCHANGED <<breaker, up>>

-----------------------------------------------------------------------------
(***************************************************************************)
(* The call itself, and the service.                                       *)
(***************************************************************************)
CallEnds(t) ==
  /\ call[t] = "calling"
  /\ Becomes(t, IF up THEN "succeeded" ELSE "failed")
  /\ UNCHANGED <<breaker, up>>

ServiceChanges ==
  /\ up' = ~up
  /\ UNCHANGED <<breaker, call>>

Tick ==
  /\ age <= Timeout
  /\ age' = age + 1
  /\ UNCHANGED <<state, failures, successes, up, call>>

-----------------------------------------------------------------------------
(***************************************************************************)
(* record_success(), record_failure() and reset().                         *)
(***************************************************************************)
Enough(n) == n >= SuccessThreshold

\* Fault: closing forgets the failures' count.
RecordSuccessForgets(t) ==
  /\ call[t] = "succeeded"
  /\ Becomes(t, "idle")
  /\ IF state = "HALF_OPEN"
     THEN /\ successes' = successes + 1
          /\ state' = IF Enough(successes + 1) THEN "CLOSED" ELSE state
          /\ UNCHANGED failures
     ELSE /\ failures' = IF state = "CLOSED" THEN 0 ELSE failures
          /\ UNCHANGED <<state, successes>>
  /\ UNCHANGED <<age, up>>

RecordSuccess(t) ==
  /\ call[t] = "succeeded"
  /\ Becomes(t, "idle")
  /\ IF state = "HALF_OPEN"
     THEN /\ successes' = successes + 1
          /\ IF Enough(successes + 1)
             THEN state' = "CLOSED" /\ failures' = 0
             ELSE UNCHANGED <<state, failures>>
     ELSE /\ failures' = IF state = "CLOSED" THEN 0 ELSE failures
          /\ UNCHANGED <<state, successes>>
  /\ UNCHANGED <<age, up>>

\* Fault: a failure opens the breaker only from CLOSED.
RecordFailureClosedOnly(t) ==
  /\ call[t] = "failed"
  /\ Becomes(t, "idle")
  /\ failures' = IF failures < Cap THEN failures + 1 ELSE Cap
  /\ age' = 0
  /\ state' = IF state = "CLOSED" /\ failures + 1 >= FailureThreshold
              THEN "OPEN" ELSE state
  /\ UNCHANGED <<successes, up>>

\* A failure of an old call that is recorded late puts last_failure_time_
\* off as well.
RecordFailure(t) ==
  /\ call[t] = "failed"
  /\ Becomes(t, "idle")
  /\ failures' = IF failures < Cap THEN failures + 1 ELSE Cap
  /\ age' = 0
  /\ state' = IF state = "HALF_OPEN" \/ failures + 1 >= FailureThreshold
              THEN "OPEN" ELSE state
  /\ UNCHANGED <<successes, up>>

Reset ==
  /\ Resets
  /\ state' = "CLOSED"
  /\ failures' = 0
  /\ successes' = 0
  /\ UNCHANGED <<age, up, call>>

-----------------------------------------------------------------------------
Record(t) == RecordSuccess(t) \/ RecordFailure(t)
Ask(t) == AskClosed(t) \/ AskOpen(t) \/ AskHalfOpen(t)

Next ==
  \/ \E t \in Callers : Ask(t) \/ CallEnds(t) \/ Record(t)
  \/ ServiceChanges \/ Tick \/ Reset

Spec == Init /\ [][Next]_vars

\* Time passes; every caller keeps calling, as the senders of a client with
\* work to do would, and its calls end.
FairSpec ==
  /\ Spec
  /\ WF_vars(Tick)
  /\ \A t \in Callers : WF_vars(Ask(t)) /\ WF_vars(CallEnds(t)) /\ WF_vars(Record(t))

-----------------------------------------------------------------------------
(***************************************************************************)
(* Properties.                                                             *)
(***************************************************************************)
\* The counters and the state agree, whichever calls are still out when a
\* record arrives: a closed breaker is below its failure threshold, one that
\* is not closed has reached it (the count survives HALF_OPEN), and a
\* half-open one is below its success threshold.
CountsMatchState ==
  /\ state = "CLOSED" <=> failures < FailureThreshold
  /\ state = "HALF_OPEN" => successes < SuccessThreshold

\* No call is let through to a service that failed less than the timeout
\* ago, unless the breaker is closed: a failure recorded in HALF_OPEN, by a
\* probe or by a late caller, shuts the others out again.
HalfOpenIsQuiet == state = "HALF_OPEN" => Elapsed

\* A breaker does not stay open for ever: the calls that are still out can
\* put the end of the timeout off only so often.
LeavesOpen == state = "OPEN" ~> state # "OPEN"

\* When the service comes back for good the breaker closes for good.
RecoversWithService == <>[]up => <>[](state = "CLOSED")

=============================================================================
