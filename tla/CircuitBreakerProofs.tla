------------------------ MODULE CircuitBreakerProofs ------------------------
(***************************************************************************)
(* What TLAPS proves of CircuitBreaker, for any number of callers and any  *)
(* thresholds, timeout and bound.                                          *)
(***************************************************************************)
EXTENDS CircuitBreaker, TLAPS

\* TypeOK alone is not inductive: a success in HALF_OPEN stays within the
\* threshold because the counts match the state.
Inv ==
  /\ TypeOK
  /\ CountsMatchState
  /\ HalfOpenIsQuiet

\* The invariant holds in the constructed breaker.
LEMMA InitInv == Init => Inv
  BY BreakerAssumption DEF Init, Inv, TypeOK, CountsMatchState, HalfOpenIsQuiet

\* Every step keeps it: the answers, the records, whatever call they are
\* of, reset(), and the clock.
LEMMA NextInv == Inv /\ [Next]_vars => Inv'
<1>. SUFFICES ASSUME Inv, [Next]_vars PROVE Inv'
  OBVIOUS
<1>. USE BreakerAssumption DEF Inv, TypeOK, CountsMatchState, HalfOpenIsQuiet, Elapsed
<1>1. ASSUME NEW t \in Callers, AskClosed(t) PROVE Inv'
  BY <1>1 DEF AskClosed, Becomes, breaker
<1>2. ASSUME NEW t \in Callers, AskOpen(t) PROVE Inv'
  BY <1>2 DEF AskOpen, Becomes
<1>3. ASSUME NEW t \in Callers, AskHalfOpen(t) PROVE Inv'
  BY <1>3 DEF AskHalfOpen, Becomes, breaker
<1>4. ASSUME NEW t \in Callers, CallEnds(t) PROVE Inv'
  BY <1>4 DEF CallEnds, Becomes, breaker
<1>5. ASSUME NEW t \in Callers, RecordSuccess(t) PROVE Inv'
  <2>1. CASE state = "HALF_OPEN"
    BY <1>5, <2>1 DEF RecordSuccess, Becomes, Enough
  <2>2. CASE state # "HALF_OPEN"
    BY <1>5, <2>2 DEF RecordSuccess, Becomes
  <2>. QED BY <2>1, <2>2
<1>6. ASSUME NEW t \in Callers, RecordFailure(t) PROVE Inv'
  BY <1>6 DEF RecordFailure, Becomes
<1>7. CASE ServiceChanges
  BY <1>7 DEF ServiceChanges, breaker
<1>8. CASE Tick
  BY <1>8 DEF Tick
<1>9. CASE Reset
  BY <1>9 DEF Reset
<1>10. CASE UNCHANGED vars
  BY <1>10 DEF vars
<1>. QED
  BY <1>1, <1>2, <1>3, <1>4, <1>5, <1>6, <1>7, <1>8, <1>9, <1>10
     DEF Next, Ask, Record

\* Whatever the callers do, the counters and the state agree.
THEOREM BreakerInvariant == Spec => []Inv
  BY InitInv, NextInv, PTL DEF Spec

\* The variables keep their types: no counter leaves its range.
THEOREM BreakerTypes == Spec => []TypeOK
  BY BreakerInvariant, PTL DEF Inv

\* A closed breaker is below its failure threshold, one that is not closed
\* has reached it, a half-open one is below its success threshold.
THEOREM CountsAlwaysMatch == Spec => []CountsMatchState
  BY BreakerInvariant, PTL DEF Inv

\* Nobody is let through within the timeout of a recorded failure unless
\* the breaker is closed.
THEOREM AlwaysQuiet == Spec => []HalfOpenIsQuiet
  BY BreakerInvariant, PTL DEF Inv
=============================================================================
