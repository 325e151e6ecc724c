---------------------------- MODULE ClientProofs ----------------------------
(***************************************************************************)
(* What TLAPS proves of Client, for any number of application threads,     *)
(* items, sizes of a batch and starts, with a valid key or without one,    *)
(* and of the configurations it can be made with (Config).                 *)
(***************************************************************************)
EXTENDS Client, Config, FiniteSetTheorems, TLAPS

-----------------------------------------------------------------------------
(***************************************************************************)
(* The inductive invariant.                                                *)
(***************************************************************************)
\* Nothing leaves while the mutex is free.  Who holds it is flushing, one kind only
\* if it submits; but for the timer, which may want one kind as well, a flush has no
\* events left behind it, and no logs that it does not mean to send.
FlushCalls == {"flush", "shutflush", "stopflush", "dtorflush"}
MutexOK ==
  /\ owner = Nobody => leaving = {} /\ todo = {}
  /\ owner # Nobody => pc[owner] \in FlushCalls \union {"submit", "timerflush"}
  /\ owner # Nobody /\ pc[owner] = "submit" => todo = {}
  /\ owner # Nobody /\ pc[owner] \in FlushCalls =>
       /\ pending["event"] = {}
       /\ "log" \notin todo => pending["log"] = {}

\* The items that are about to be submitted are new, those that are about to be
\* counted were accepted, and no two threads track the same one.
AboutToCount == {"read", "write"}
Tracking == {"submit"} \union AboutToCount

ArgOK ==
  /\ \A t \in Apps : pc[t] = "submit" => arg[t] \in Items \ accepted
  /\ \A t \in Apps : pc[t] \in AboutToCount => arg[t] \in accepted
  /\ \A t, u \in Apps :
       t # u /\ pc[t] \in Tracking /\ pc[u] \in Tracking => arg[t] # arg[u]

Flushing == {"stopflush", "dtorflush"}
Stopping == {"join", "dtorjoin"} \union Flushing

\* A manager that does not run has no thread and is empty, but for the time in
\* which stop() joins the thread and flushes, and but for the logs that the
\* exception of an invalid key left behind.
StoppedOK ==
  /\ pc[Owner] \in Stopping => ~running
  /\ pc[Owner] \in Flushing => pc[Timer] = "none"
  /\ ~running /\ pc[Owner] \notin Stopping \union {"dead"} =>
       /\ pc[Timer] = "none" /\ pending["event"] = {}
       /\ key => owner = Nobody /\ pending["log"] = {}

\* With a valid key, shutdown() closes the socket of a stopped manager, and
\* nothing starts it again but initialize(), which leaves it without a thread if
\* it fails; with another key there is no socket.
SocketOK ==
  /\ ~key => ~socket
  /\ key /\ pc[Owner] = "close" => ~running
  /\ key /\ pc[Owner] = "end" => ~running /\ ~socket
  /\ key /\ ~initialized /\ pc[Owner] \in {"idle", "start"} =>
       Unmanned \/ (~running /\ ~socket)

\* A client that was shut down before has nothing to send in its destructor.
GoneOK ==
  ShutsDownFirst =>
    /\ ~astray
    /\ ~exists =>
         pc[Owner] \in {"dtorstop", "dtorjoin", "dtorflush", "gone", "dead"}
    /\ ~exists /\ key => ~running /\ pc[Owner] \in {"dtorstop", "gone"}

\* What the counter of a kind says, and what it will say when a thread stores
\* what it has read plus one, is covered by the accepted items of the kind that no
\* thread is about to count.
Counted(k) ==
  Taken(k) \ {arg[t] : t \in {u \in Apps : pc[u] \in AboutToCount}}

CountOK ==
  \A k \in Kinds :
    /\ sent[k] <= Cardinality(Counted(k))
    /\ \A t \in Apps :
         pc[t] = "write" /\ arg[t][1] = k => read[t] <= Cardinality(Counted(k))
    /\ Taken(k) # {} =>
         \/ sent[k] > 0
         \/ \E t \in Apps : pc[t] = "dead"
         \/ \E t \in Apps : pc[t] \in AboutToCount /\ arg[t][1] = k

Inv ==
  /\ TypeOK
  /\ MutexOK
  /\ ArgOK
  /\ AcceptedIsKept
  /\ StoppedOK
  /\ SocketOK
  /\ GoneOK
  /\ CountOK

-----------------------------------------------------------------------------
\* No thread is two of an application's, the owner and the timer.
LEMMA ThreadsDiffer ==
  /\ Owner \notin Apps /\ Timer \notin Apps /\ Owner # Timer
  /\ Nobody \notin Threads
  /\ Owner \in Threads /\ Timer \in Threads /\ Apps \subseteq Threads
  BY ClientAssumption DEF Threads

\* Where a flush, and one that threw, leaves a thread.
LEMMA AfterAFlush ==
  /\ DOMAIN After = {"flush", "shutflush", "stopflush", "dtorflush", "timerflush"}
  /\ After["flush"] = "idle" /\ After["shutflush"] = "stop"
  /\ After["stopflush"] = "close" /\ After["dtorflush"] = "gone"
  /\ After["timerflush"] = "wait"
  /\ DOMAIN AfterThrow = {"flush", "shutflush", "stopflush"}
  /\ AfterThrow["flush"] = "idle" /\ AfterThrow["shutflush"] = "end"
  /\ AfterThrow["stopflush"] = "end"
  BY DEF After, AfterThrow

\* An item is an event or a log.
LEMMA ItemKinds ==
  /\ \A i \in Items : i[1] \in Kinds
  /\ \A K \in SUBSET Kinds : K # {} => First(K) \in K
  BY DEF Items, Kinds, First

\* There are never more than MaxEvents and MaxLogs accepted items, so they can be
\* counted.
LEMMA CountedFinite ==
  ASSUME TypeOK, NEW k \in Kinds
  PROVE  /\ IsFiniteSet(Taken(k)) /\ Cardinality(Taken(k)) \in Nat
         /\ IsFiniteSet(Counted(k)) /\ Cardinality(Counted(k)) \in Nat
         /\ Cardinality(Counted(k)) <= Cardinality(Taken(k))
<1>1. IsFiniteSet(Items)
  <2>1. /\ IsFiniteSet({"event"}) /\ IsFiniteSet({"log"})
        /\ IsFiniteSet(1 .. MaxEvents) /\ IsFiniteSet(1 .. MaxLogs)
    <3>1. 1 \in Int /\ MaxEvents \in Int /\ MaxLogs \in Int
      BY ClientAssumption
    <3>2. IsFiniteSet(1 .. MaxEvents) /\ IsFiniteSet(1 .. MaxLogs)
      BY <3>1, FS_Interval
    <3> QED
      BY <3>2, FS_Singleton
  <2>2. /\ IsFiniteSet({"event"} \X (1 .. MaxEvents))
        /\ IsFiniteSet({"log"} \X (1 .. MaxLogs))
    BY <2>1, FS_Product
  <2> QED
    BY <2>2, FS_Union DEF Items
<1>2. Taken(k) \subseteq Items
  BY DEF Taken, TypeOK
<1>3. IsFiniteSet(Taken(k)) /\ Cardinality(Taken(k)) \in Nat
  BY <1>1, <1>2, FS_Subset, FS_CardinalityType
<1>4. Counted(k) \subseteq Taken(k)
  BY DEF Counted
<1> QED
  BY <1>3, <1>4, FS_Subset, FS_CardinalityType

\* A batch leaves with all that is pending of one kind.
LEMMA TakeTypes ==
  ASSUME TypeOK, NEW t \in Threads, NEW K \in SUBSET Kinds, K # {}, Take(t, K)
  PROVE  /\ owner' = t /\ owner' \in Threads \union {Nobody}
         /\ pending' \in [Kinds -> SUBSET Items]
         /\ leaving' \subseteq Items /\ todo' \subseteq Kinds
         /\ UNCHANGED <<key, running>>
<1>1. First(K) \in Kinds
  BY ItemKinds
<1> QED
  BY <1>1 DEF Take, TypeOK

\* Nothing is lost on the way from the queue into a batch.
LEMMA TakeKeeps ==
  ASSUME TypeOK, AcceptedIsKept, leaving = {},
         NEW t \in Threads, NEW K \in SUBSET Kinds, K # {}, Take(t, K),
         UNCHANGED <<accepted, handed, lost>>
  PROVE  AcceptedIsKept'
<1> DEFINE kind == First(K)
<1>1. kind \in Kinds
  BY ItemKinds
<1>2. /\ pending' = [pending EXCEPT ![kind] = {}]
      /\ leaving' = pending[kind] /\ key' = key
  BY DEF Take
<1>3. \A i \in pending["event"] : i[1] = "event"
  BY DEF AcceptedIsKept, Kinds
<1>4. \A i \in pending["log"] : i[1] = "log"
  BY DEF AcceptedIsKept, Kinds
<1>5. pending["event"] \intersect pending["log"] = {}
  BY <1>3, <1>4
<1>6. CASE kind = "event"
  <2>1. /\ pending'["event"] = {} /\ pending'["log"] = pending["log"]
        /\ leaving' = pending["event"]
    BY <1>2, <1>6 DEF TypeOK, Kinds
  <2> QED
    BY <1>2, <1>5, <2>1 DEF AcceptedIsKept, Kinds
<1>7. CASE kind = "log"
  <2>1. /\ pending'["log"] = {} /\ pending'["event"] = pending["event"]
        /\ leaving' = pending["log"]
    BY <1>2, <1>7 DEF TypeOK, Kinds
  <2> QED
    BY <1>2, <1>5, <2>1 DEF AcceptedIsKept, Kinds
<1> QED
  BY <1>1, <1>6, <1>7 DEF Kinds

\* A new item joins what is pending of its kind.
LEMMA SubmitKeeps ==
  ASSUME TypeOK, AcceptedIsKept, NEW i \in Items \ accepted,
         pending' = [pending EXCEPT ![i[1]] = @ \union {i}],
         accepted' = accepted \union {i},
         leaving' \union handed' = leaving \union handed,
         leaving' \intersect handed' = {},
         UNCHANGED <<lost, key>>
  PROVE  AcceptedIsKept'
<1>1. i[1] \in Kinds
  BY ItemKinds
<1>2. CASE i[1] = "event"
  <2>1. /\ pending'["event"] = pending["event"] \union {i}
        /\ pending'["log"] = pending["log"]
    BY <1>2 DEF TypeOK, Kinds
  <2> QED
    BY <1>2, <2>1 DEF AcceptedIsKept, Kinds
<1>3. CASE i[1] = "log"
  <2>1. /\ pending'["log"] = pending["log"] \union {i}
        /\ pending'["event"] = pending["event"]
    BY <1>3 DEF TypeOK, Kinds
  <2> QED
    BY <1>3, <2>1 DEF AcceptedIsKept, Kinds
<1> QED
  BY <1>1, <1>2, <1>3 DEF Kinds

\* Every step is one of these.
LEMMA Steps ==
  [Next]_vars =>
    \/ \E t \in Apps : Track(t) \/ Flush(t)
    \/ \E t \in Apps : SubmitRefused(t) \/ Submit(t) \/ SubmitTakes(t)
    \/ \E t \in Apps : SubmitSends(t) \/ SubmitThrows(t)
    \/ \E t \in Apps : CountRead(t) \/ CountWrite(t)
    \/ \E t \in Threads : FlushStep(t)
    \/ TimerTakes \/ TimerStops
    \/ Start \/ StartFails \/ Initialized
    \/ Stop \/ Join \/ NetworkShutdown \/ ShutdownEnds
    \/ Initialize \/ Shutdown \/ Destroy
    \/ UNCHANGED vars
  BY ThreadsDiffer
     DEF Next, AppStep, TimerStep, OwnerStep, FlushStep

-----------------------------------------------------------------------------
(***************************************************************************)
(* One lemma per part of the invariant, one step per action.               *)
(***************************************************************************)
\* Every step keeps the types: an item that is submitted is one of them.
LEMMA TypeStep ==
  Inv /\ [Next]_vars => TypeOK'
<1> SUFFICES ASSUME Inv, [Next]_vars PROVE TypeOK'
  OBVIOUS
<1> USE ThreadsDiffer
    DEF Inv, TypeOK, AppSteps, OwnerSteps, TimerSteps, Goto, manager,
        network, counting
<1>1. ASSUME NEW t \in Apps, Track(t) PROVE TypeOK'
  BY <1>1 DEF Track, Untracked
<1>2. ASSUME NEW t \in Apps, Flush(t) PROVE TypeOK'
  BY <1>2 DEF Flush
<1>3. ASSUME NEW t \in Apps, SubmitRefused(t) PROVE TypeOK'
  BY <1>3 DEF SubmitRefused
<1>4. ASSUME NEW t \in Apps, Submit(t) PROVE TypeOK'
  <2>1. arg[t] \in Items
    BY <1>4 DEF Submit, ArgOK
  <2> QED
    BY <1>4, <2>1 DEF Submit
<1>5. ASSUME NEW t \in Apps, SubmitTakes(t) PROVE TypeOK'
  <2> DEFINE K == {arg[t][1]}
  <2>1. K \in SUBSET Kinds /\ K # {} /\ Take(t, K)
    BY <1>5, ItemKinds DEF SubmitTakes, ArgOK
  <2>2. UNCHANGED <<initialized, network, counting, pc, starts>>
    BY <1>5 DEF SubmitTakes
  <2> HIDE DEF K
  <2> QED
    BY <2>1, <2>2, TakeTypes
<1>6. ASSUME NEW t \in Apps, SubmitSends(t) PROVE TypeOK'
  <2>1. arg[t] \in Items
    BY <1>6 DEF SubmitSends, ArgOK
  <2> QED
    BY <1>6, <2>1 DEF SubmitSends, SendData
<1>7. ASSUME NEW t \in Apps, SubmitThrows(t) PROVE TypeOK'
  BY <1>7 DEF SubmitThrows, Throws
<1>8. ASSUME NEW t \in Apps, CountRead(t) PROVE TypeOK'
  <2>1. arg[t][1] \in Kinds
    BY <1>8, ItemKinds DEF CountRead, ArgOK, AboutToCount
  <2>2. sent[arg[t][1]] \in Nat
    BY <2>1
  <2> QED
    BY <1>8, <2>2 DEF CountRead
<1>9. ASSUME NEW t \in Apps, CountWrite(t) PROVE TypeOK'
  <2>1. read[t] + 1 \in Nat
    OBVIOUS
  <2>2. sent' \in [Kinds -> Nat] /\ read' \in [Apps -> Nat]
    BY <1>9, <2>1 DEF CountWrite
  <2> QED
    BY <1>9, <2>2 DEF CountWrite
<1>10. ASSUME NEW t \in Threads, FlushTakes(t) PROVE TypeOK'
  <2>1. Waiting \in SUBSET Kinds /\ Waiting # {} /\ Take(t, Waiting)
    BY <1>10 DEF FlushTakes, Waiting
  <2> QED
    BY <1>10, <2>1, TakeTypes DEF FlushTakes
<1>11. ASSUME NEW t \in Threads, FlushSends(t) PROVE TypeOK'
  BY <1>11, AfterAFlush DEF FlushSends, SendData
<1>12. ASSUME NEW t \in Threads, FlushNothing(t) PROVE TypeOK'
  BY <1>12, AfterAFlush DEF FlushNothing
<1>13. ASSUME NEW t \in Threads, FlushThrows(t) PROVE TypeOK'
  BY <1>13, AfterAFlush DEF FlushThrows, Throws
<1>14. ASSUME NEW t \in Threads, FlushTerminates(t) PROVE TypeOK'
  BY <1>14, AfterAFlush DEF FlushTerminates, Throws
<1>27. ASSUME NEW t \in Threads, FlushGoesOn(t) PROVE TypeOK'
  BY <1>27, TakeTypes DEF FlushGoesOn
<1>15. CASE TimerTakes
  <2>1. PICK K \in (SUBSET Waiting) \ {{}} : Take(Timer, K)
    BY <1>15 DEF TimerTakes
  <2>2. K \in SUBSET Kinds /\ K # {}
    BY <2>1 DEF Waiting
  <2> QED
    BY <1>15, <2>1, <2>2, TakeTypes DEF TimerTakes
<1>16. CASE TimerStops
  BY <1>16 DEF TimerStops
<1>17. CASE Start
  BY <1>17 DEF Start
<1>28. CASE StartFails
  BY <1>28 DEF StartFails
<1>18. CASE Initialized
  BY <1>18 DEF Initialized
<1>19. CASE Stop
  BY <1>19 DEF Stop
<1>20. CASE Join
  BY <1>20 DEF Join
<1>21. CASE NetworkShutdown
  BY <1>21 DEF NetworkShutdown
<1>22. CASE ShutdownEnds
  BY <1>22 DEF ShutdownEnds
<1>23. CASE Initialize
  BY <1>23, ClientAssumption DEF Initialize
<1>24. CASE Shutdown
  BY <1>24 DEF Shutdown
<1>25. CASE Destroy
  BY <1>25 DEF Destroy
<1>26. CASE UNCHANGED vars
  BY <1>26 DEF vars
<1> QED
  BY Steps, <1>1, <1>2, <1>3, <1>4, <1>5, <1>6, <1>7, <1>8, <1>9, <1>10,
     <1>11, <1>12, <1>13, <1>14, <1>15, <1>16, <1>17, <1>18, <1>19, <1>20, <1>21,
     <1>22, <1>23, <1>24, <1>25, <1>26, <1>27, <1>28
  DEF FlushStep

\* Every step keeps the mutex and the queue in line: who takes the mutex empties
\* the queue into the batch that leaves, and gives it back only without that batch.
LEMMA MutexStep ==
  Inv /\ [Next]_vars => MutexOK'
<1> SUFFICES ASSUME Inv, [Next]_vars PROVE MutexOK'
  OBVIOUS
<1> USE ThreadsDiffer, ItemKinds
    DEF Inv, TypeOK, MutexOK, FlushCalls, Kinds, First, Goto, manager, network,
        counting
<1>1. ASSUME NEW t \in Apps, Track(t) PROVE MutexOK'
  BY <1>1 DEF Track
<1>2. ASSUME NEW t \in Apps, Flush(t) PROVE MutexOK'
  BY <1>2 DEF Flush
<1>3. ASSUME NEW t \in Apps, SubmitRefused(t) PROVE MutexOK'
  BY <1>3 DEF SubmitRefused
<1>4. ASSUME NEW t \in Apps, Submit(t) PROVE MutexOK'
  BY <1>4 DEF Submit
<1>5. ASSUME NEW t \in Apps, SubmitTakes(t) PROVE MutexOK'
  <2>1. arg[t][1] \in Kinds /\ Take(t, {arg[t][1]}) /\ pc' = pc /\ pc[t] = "submit"
    BY <1>5 DEF SubmitTakes, ArgOK
  <2>2. First({arg[t][1]}) = arg[t][1]
    BY <2>1
  <2>3. owner' = t /\ todo' = {}
    BY <2>1, <2>2 DEF Take
  <2> QED
    BY <2>1, <2>3
<1>6. ASSUME NEW t \in Apps, SubmitSends(t) PROVE MutexOK'
  BY <1>6 DEF SubmitSends, SendData
<1>7. ASSUME NEW t \in Apps, SubmitThrows(t) PROVE MutexOK'
  BY <1>7 DEF SubmitThrows, Throws
<1>8. ASSUME NEW t \in Apps, CountRead(t) PROVE MutexOK'
  BY <1>8 DEF CountRead
<1>9. ASSUME NEW t \in Apps, CountWrite(t) PROVE MutexOK'
  BY <1>9 DEF CountWrite
<1>10. ASSUME NEW t \in Threads, FlushTakes(t) PROVE MutexOK'
  <2>1. owner' = t /\ pc' = pc /\ pc[t] \in DOMAIN After
    BY <1>10 DEF FlushTakes, Take
  <2>2. CASE pending["event"] # {}
    <3>1. First(Waiting) = "event" /\ "event" \in Waiting
      BY <2>2 DEF Waiting
    <3>2. pending'["event"] = {} /\ pending'["log"] = pending["log"]
      BY <1>10, <3>1 DEF FlushTakes, Take
    <3>3. "log" \notin todo' => pending["log"] = {}
      BY <1>10, <3>1 DEF FlushTakes, Take, Waiting
    <3> QED
      BY <2>1, <3>2, <3>3, AfterAFlush
  <2>3. CASE pending["event"] = {}
    <3>1. First(Waiting) = "log"
      BY <2>3 DEF Waiting
    <3>2. pending'["event"] = {} /\ pending'["log"] = {}
      BY <1>10, <2>3, <3>1 DEF FlushTakes, Take
    <3> QED
      BY <2>1, <3>2, AfterAFlush
  <2> QED
    BY <2>2, <2>3
<1>11. ASSUME NEW t \in Threads, FlushSends(t) PROVE MutexOK'
  BY <1>11, AfterAFlush DEF FlushSends, SendData
<1>12. ASSUME NEW t \in Threads, FlushNothing(t) PROVE MutexOK'
  BY <1>12, AfterAFlush DEF FlushNothing
<1>13. ASSUME NEW t \in Threads, FlushThrows(t) PROVE MutexOK'
  BY <1>13, AfterAFlush DEF FlushThrows, Throws
<1>14. ASSUME NEW t \in Threads, FlushTerminates(t) PROVE MutexOK'
  BY <1>14, AfterAFlush DEF FlushTerminates, Throws
<1>27. ASSUME NEW t \in Threads, FlushGoesOn(t) PROVE MutexOK'
  BY <1>27, AfterAFlush DEF FlushGoesOn, Take
<1>15. CASE TimerTakes
  BY <1>15 DEF TimerTakes, Take
<1>16. CASE TimerStops
  BY <1>16 DEF TimerStops
<1>17. CASE Start
  BY <1>17 DEF Start
<1>28. CASE StartFails
  BY <1>28 DEF StartFails
<1>18. CASE Initialized
  BY <1>18 DEF Initialized
<1>19. CASE Stop
  BY <1>19 DEF Stop
<1>20. CASE Join
  BY <1>20 DEF Join
<1>21. CASE NetworkShutdown
  BY <1>21 DEF NetworkShutdown
<1>22. CASE ShutdownEnds
  BY <1>22 DEF ShutdownEnds
<1>23. CASE Initialize
  BY <1>23 DEF Initialize
<1>24. CASE Shutdown
  BY <1>24 DEF Shutdown
<1>25. CASE Destroy
  BY <1>25 DEF Destroy
<1>26. CASE UNCHANGED vars
  BY <1>26 DEF vars
<1> QED
  BY Steps, <1>1, <1>2, <1>3, <1>4, <1>5, <1>6, <1>7, <1>8, <1>9, <1>10,
     <1>11, <1>12, <1>13, <1>14, <1>15, <1>16, <1>17, <1>18, <1>19, <1>20, <1>21,
     <1>22, <1>23, <1>24, <1>25, <1>26, <1>27, <1>28
  DEF FlushStep

\* Every step leaves two threads with different items in their calls, and a
\* submitted item new.
LEMMA ArgStep ==
  Inv /\ [Next]_vars => ArgOK'
<1> SUFFICES ASSUME Inv, [Next]_vars PROVE ArgOK'
  OBVIOUS
<1> USE ThreadsDiffer
    DEF Inv, TypeOK, ArgOK, AboutToCount, Tracking, Goto, manager, network,
        counting
<1>1. ASSUME NEW t \in Apps, Track(t) PROVE ArgOK'
  <2>1. PICK i \in Untracked : arg' = [arg EXCEPT ![t] = i]
    BY <1>1 DEF Track
  <2>2. i \in Items \ accepted /\ \A u \in Apps : arg[u] # i
    BY <2>1 DEF Untracked
  <2>3. pc' = [pc EXCEPT ![t] = "submit"] /\ accepted' = accepted
    BY <1>1 DEF Track
  <2> QED
    BY <2>1, <2>2, <2>3
<1>2. ASSUME NEW t \in Apps, Flush(t) PROVE ArgOK'
  BY <1>2 DEF Flush
<1>3. ASSUME NEW t \in Apps, SubmitRefused(t) PROVE ArgOK'
  BY <1>3 DEF SubmitRefused
<1>4. ASSUME NEW t \in Apps, Submit(t) PROVE ArgOK'
  BY <1>4 DEF Submit
<1>5. ASSUME NEW t \in Apps, SubmitTakes(t) PROVE ArgOK'
  BY <1>5 DEF SubmitTakes, Take
<1>6. ASSUME NEW t \in Apps, SubmitSends(t) PROVE ArgOK'
  BY <1>6 DEF SubmitSends, SendData
<1>7. ASSUME NEW t \in Apps, SubmitThrows(t) PROVE ArgOK'
  BY <1>7 DEF SubmitThrows, Throws
<1>8. ASSUME NEW t \in Apps, CountRead(t) PROVE ArgOK'
  BY <1>8 DEF CountRead
<1>9. ASSUME NEW t \in Apps, CountWrite(t) PROVE ArgOK'
  BY <1>9 DEF CountWrite
<1>10. ASSUME NEW t \in Threads, FlushTakes(t) PROVE ArgOK'
  BY <1>10, AfterAFlush DEF FlushTakes, Take
<1>11. ASSUME NEW t \in Threads, FlushSends(t) PROVE ArgOK'
  BY <1>11, AfterAFlush DEF FlushSends, SendData
<1>12. ASSUME NEW t \in Threads, FlushNothing(t) PROVE ArgOK'
  BY <1>12, AfterAFlush DEF FlushNothing
<1>13. ASSUME NEW t \in Threads, FlushThrows(t) PROVE ArgOK'
  BY <1>13, AfterAFlush DEF FlushThrows, Throws
<1>14. ASSUME NEW t \in Threads, FlushTerminates(t) PROVE ArgOK'
  BY <1>14, AfterAFlush DEF FlushTerminates, Throws
<1>27. ASSUME NEW t \in Threads, FlushGoesOn(t) PROVE ArgOK'
  BY <1>27, AfterAFlush DEF FlushGoesOn, Take
<1>15. CASE TimerTakes
  BY <1>15 DEF TimerTakes, Take
<1>16. CASE TimerStops
  BY <1>16 DEF TimerStops
<1>17. CASE Start
  BY <1>17 DEF Start
<1>28. CASE StartFails
  BY <1>28 DEF StartFails
<1>18. CASE Initialized
  BY <1>18 DEF Initialized
<1>19. CASE Stop
  BY <1>19 DEF Stop
<1>20. CASE Join
  BY <1>20 DEF Join
<1>21. CASE NetworkShutdown
  BY <1>21 DEF NetworkShutdown
<1>22. CASE ShutdownEnds
  BY <1>22 DEF ShutdownEnds
<1>23. CASE Initialize
  BY <1>23 DEF Initialize
<1>24. CASE Shutdown
  BY <1>24 DEF Shutdown
<1>25. CASE Destroy
  BY <1>25 DEF Destroy
<1>26. CASE UNCHANGED vars
  BY <1>26 DEF vars
<1> QED
  BY Steps, <1>1, <1>2, <1>3, <1>4, <1>5, <1>6, <1>7, <1>8, <1>9, <1>10,
     <1>11, <1>12, <1>13, <1>14, <1>15, <1>16, <1>17, <1>18, <1>19, <1>20, <1>21,
     <1>22, <1>23, <1>24, <1>25, <1>26, <1>27, <1>28
  DEF FlushStep

\* No step loses an accepted item or puts it in two places; only an exception,
\* which needs a key that is no key, makes one lost.
LEMMA KeptStep ==
  Inv /\ [Next]_vars => AcceptedIsKept'
<1> SUFFICES ASSUME Inv, [Next]_vars PROVE AcceptedIsKept'
  OBVIOUS
<1> USE ThreadsDiffer
    DEF Inv, TypeOK, MutexOK, ArgOK, AcceptedIsKept, Goto, manager, network,
        counting
<1>1. ASSUME NEW t \in Apps, Track(t) PROVE AcceptedIsKept'
  BY <1>1 DEF Track
<1>2. ASSUME NEW t \in Apps, Flush(t) PROVE AcceptedIsKept'
  BY <1>2 DEF Flush
<1>3. ASSUME NEW t \in Apps, SubmitRefused(t) PROVE AcceptedIsKept'
  BY <1>3 DEF SubmitRefused
<1>4. ASSUME NEW t \in Apps, Submit(t) PROVE AcceptedIsKept'
  <2>1. arg[t] \in Items \ accepted
    BY <1>4 DEF Submit
  <2>2. /\ accepted' = accepted \union {arg[t]}
        /\ pending' = [pending EXCEPT ![arg[t][1]] = @ \union {arg[t]}]
        /\ UNCHANGED <<leaving, handed, lost, key>>
    BY <1>4 DEF Submit
  <2>3. leaving \intersect handed = {}
    OBVIOUS
  <2> HIDE DEF AcceptedIsKept
  <2> QED
    BY <2>1, <2>2, <2>3, SubmitKeeps
<1>5. ASSUME NEW t \in Apps, SubmitTakes(t) PROVE AcceptedIsKept'
  <2> DEFINE K == {arg[t][1]}
  <2>1. /\ K \in SUBSET Kinds /\ K # {} /\ Take(t, K) /\ leaving = {}
        /\ UNCHANGED <<accepted, handed, lost>>
    BY <1>5, ItemKinds DEF SubmitTakes
  <2> HIDE DEF K
  <2> QED
    BY <2>1, TakeKeeps
<1>6. ASSUME NEW t \in Apps, SubmitSends(t) PROVE AcceptedIsKept'
  <2>1. arg[t] \in Items \ accepted
    BY <1>6 DEF SubmitSends
  <2>2. /\ leaving' = {} /\ handed' = handed \union leaving
        /\ accepted' = accepted \union {arg[t]} /\ UNCHANGED <<lost, key>>
        /\ pending' = [pending EXCEPT ![arg[t][1]] = @ \union {arg[t]}]
    BY <1>6 DEF SubmitSends, SendData
  <2>3. /\ leaving' \union handed' = leaving \union handed
        /\ leaving' \intersect handed' = {}
    BY <2>2
  <2> HIDE DEF AcceptedIsKept
  <2> QED
    BY <2>1, <2>2, <2>3, SubmitKeeps
<1>7. ASSUME NEW t \in Apps, SubmitThrows(t) PROVE AcceptedIsKept'
  BY <1>7 DEF SubmitThrows, Throws
<1>8. ASSUME NEW t \in Apps, CountRead(t) PROVE AcceptedIsKept'
  BY <1>8 DEF CountRead
<1>9. ASSUME NEW t \in Apps, CountWrite(t) PROVE AcceptedIsKept'
  BY <1>9 DEF CountWrite
<1>10. ASSUME NEW t \in Threads, FlushTakes(t) PROVE AcceptedIsKept'
  <2>1. /\ Waiting \in SUBSET Kinds /\ Waiting # {} /\ Take(t, Waiting)
        /\ leaving = {} /\ UNCHANGED <<accepted, handed, lost>>
    BY <1>10 DEF FlushTakes, Waiting
  <2> QED
    BY <2>1, TakeKeeps
<1>11. ASSUME NEW t \in Threads, FlushSends(t) PROVE AcceptedIsKept'
  BY <1>11, AfterAFlush DEF FlushSends, SendData
<1>12. ASSUME NEW t \in Threads, FlushNothing(t) PROVE AcceptedIsKept'
  BY <1>12, AfterAFlush DEF FlushNothing
<1>13. ASSUME NEW t \in Threads, FlushThrows(t) PROVE AcceptedIsKept'
  BY <1>13, AfterAFlush DEF FlushThrows, Throws
<1>14. ASSUME NEW t \in Threads, FlushTerminates(t) PROVE AcceptedIsKept'
  BY <1>14, AfterAFlush DEF FlushTerminates, Throws
<1>27. ASSUME NEW t \in Threads, FlushGoesOn(t) PROVE AcceptedIsKept'
  <2>1. /\ todo # {} /\ Take(t, todo) /\ leaving = {}
        /\ UNCHANGED <<accepted, handed, lost>>
    BY <1>27 DEF FlushGoesOn
  <2> QED
    BY <2>1, TakeKeeps
<1>15. CASE TimerTakes
  <2>1. PICK K \in (SUBSET Waiting) \ {{}} : Take(Timer, K)
    BY <1>15 DEF TimerTakes
  <2>2. /\ K \in SUBSET Kinds /\ K # {} /\ leaving = {}
        /\ UNCHANGED <<accepted, handed, lost>>
    BY <1>15, <2>1 DEF TimerTakes, Waiting
  <2> QED
    BY <2>1, <2>2, TakeKeeps
<1>16. CASE TimerStops
  BY <1>16 DEF TimerStops
<1>17. CASE Start
  BY <1>17 DEF Start
<1>28. CASE StartFails
  BY <1>28 DEF StartFails
<1>18. CASE Initialized
  BY <1>18 DEF Initialized
<1>19. CASE Stop
  BY <1>19 DEF Stop
<1>20. CASE Join
  BY <1>20 DEF Join
<1>21. CASE NetworkShutdown
  BY <1>21 DEF NetworkShutdown
<1>22. CASE ShutdownEnds
  BY <1>22 DEF ShutdownEnds
<1>23. CASE Initialize
  BY <1>23 DEF Initialize
<1>24. CASE Shutdown
  BY <1>24 DEF Shutdown
<1>25. CASE Destroy
  BY <1>25 DEF Destroy
<1>26. CASE UNCHANGED vars
  BY <1>26 DEF vars
<1> QED
  BY Steps, <1>1, <1>2, <1>3, <1>4, <1>5, <1>6, <1>7, <1>8, <1>9, <1>10,
     <1>11, <1>12, <1>13, <1>14, <1>15, <1>16, <1>17, <1>18, <1>19, <1>20, <1>21,
     <1>22, <1>23, <1>24, <1>25, <1>26, <1>27, <1>28
  DEF FlushStep

\* No step wakes a manager that has stopped, but start().
LEMMA StoppedStep ==
  Inv /\ [Next]_vars => StoppedOK'
<1> SUFFICES ASSUME Inv, [Next]_vars PROVE StoppedOK'
  OBVIOUS
<1> USE ThreadsDiffer
    DEF Inv, TypeOK, MutexOK, StoppedOK, Stopping, Flushing, FlushCalls, Kinds,
        Goto, manager, network, counting
<1>1. ASSUME NEW t \in Apps, Track(t) PROVE StoppedOK'
  BY <1>1 DEF Track
<1>2. ASSUME NEW t \in Apps, Flush(t) PROVE StoppedOK'
  BY <1>2 DEF Flush
<1>3. ASSUME NEW t \in Apps, SubmitRefused(t) PROVE StoppedOK'
  BY <1>3 DEF SubmitRefused
<1>4. ASSUME NEW t \in Apps, Submit(t) PROVE StoppedOK'
  BY <1>4 DEF Submit
<1>5. ASSUME NEW t \in Apps, SubmitTakes(t) PROVE StoppedOK'
  BY <1>5 DEF SubmitTakes, Take
<1>6. ASSUME NEW t \in Apps, SubmitSends(t) PROVE StoppedOK'
  BY <1>6 DEF SubmitSends, SendData
<1>7. ASSUME NEW t \in Apps, SubmitThrows(t) PROVE StoppedOK'
  BY <1>7 DEF SubmitThrows, Throws
<1>8. ASSUME NEW t \in Apps, CountRead(t) PROVE StoppedOK'
  BY <1>8 DEF CountRead
<1>9. ASSUME NEW t \in Apps, CountWrite(t) PROVE StoppedOK'
  BY <1>9 DEF CountWrite
<1>10. ASSUME NEW t \in Threads, FlushTakes(t) PROVE StoppedOK'
  <2>1. /\ UNCHANGED <<pc, running, key>>
        /\ pending' = [pending EXCEPT ![First(Waiting)] = {}]
    BY <1>10 DEF FlushTakes, Take
  <2>2. pending["event"] = {} => pending'["event"] = {}
    BY <2>1
  <2>3. pending["event"] # {} \/ pending["log"] # {}
    BY <1>10 DEF FlushTakes, Waiting
  <2> QED
    BY <2>1, <2>2, <2>3
<1>11. ASSUME NEW t \in Threads, FlushSends(t) PROVE StoppedOK'
  BY <1>11, AfterAFlush DEF FlushSends, SendData
<1>12. ASSUME NEW t \in Threads, FlushNothing(t) PROVE StoppedOK'
  <2>1. pending["event"] = {} /\ pending["log"] = {} /\ owner = Nobody
    BY <1>12 DEF FlushNothing, Waiting
  <2> QED
    BY <1>12, <2>1, AfterAFlush DEF FlushNothing
<1>13. ASSUME NEW t \in Threads, FlushThrows(t) PROVE StoppedOK'
  BY <1>13, AfterAFlush DEF FlushThrows, Throws
<1>14. ASSUME NEW t \in Threads, FlushTerminates(t) PROVE StoppedOK'
  BY <1>14, AfterAFlush DEF FlushTerminates, Throws
<1>27. ASSUME NEW t \in Threads, FlushGoesOn(t) PROVE StoppedOK'
  BY <1>27, AfterAFlush DEF FlushGoesOn, Take
<1>15. CASE TimerTakes
  BY <1>15 DEF TimerTakes, Take
<1>16. CASE TimerStops
  BY <1>16 DEF TimerStops
<1>17. CASE Start
  BY <1>17 DEF Start
<1>28. CASE StartFails
  BY <1>28 DEF StartFails
<1>18. CASE Initialized
  BY <1>18 DEF Initialized
<1>19. CASE Stop
  BY <1>19 DEF Stop
<1>20. CASE Join
  BY <1>20 DEF Join
<1>21. CASE NetworkShutdown
  BY <1>21 DEF NetworkShutdown
<1>22. CASE ShutdownEnds
  BY <1>22 DEF ShutdownEnds
<1>23. CASE Initialize
  BY <1>23 DEF Initialize
<1>24. CASE Shutdown
  BY <1>24 DEF Shutdown
<1>25. CASE Destroy
  BY <1>25 DEF Destroy
<1>26. CASE UNCHANGED vars
  BY <1>26 DEF vars
<1> QED
  BY Steps, <1>1, <1>2, <1>3, <1>4, <1>5, <1>6, <1>7, <1>8, <1>9, <1>10,
     <1>11, <1>12, <1>13, <1>14, <1>15, <1>16, <1>17, <1>18, <1>19, <1>20, <1>21,
     <1>22, <1>23, <1>24, <1>25, <1>26, <1>27, <1>28
  DEF FlushStep

\* No step opens a socket again once shutdown() has closed it over a stopped
\* manager.
LEMMA SocketStep ==
  Inv /\ [Next]_vars => SocketOK'
<1> SUFFICES ASSUME Inv, [Next]_vars PROVE SocketOK'
  OBVIOUS
<1> USE ThreadsDiffer
    DEF Inv, TypeOK, StoppedOK, SocketOK, Unmanned, Stopping, Flushing, Goto,
        manager, network, counting
<1>1. ASSUME NEW t \in Apps, Track(t) PROVE SocketOK'
  BY <1>1 DEF Track
<1>2. ASSUME NEW t \in Apps, Flush(t) PROVE SocketOK'
  BY <1>2 DEF Flush
<1>3. ASSUME NEW t \in Apps, SubmitRefused(t) PROVE SocketOK'
  BY <1>3 DEF SubmitRefused
<1>4. ASSUME NEW t \in Apps, Submit(t) PROVE SocketOK'
  BY <1>4 DEF Submit
<1>5. ASSUME NEW t \in Apps, SubmitTakes(t) PROVE SocketOK'
  BY <1>5 DEF SubmitTakes, Take
<1>6. ASSUME NEW t \in Apps, SubmitSends(t) PROVE SocketOK'
  BY <1>6 DEF SubmitSends, SendData
<1>7. ASSUME NEW t \in Apps, SubmitThrows(t) PROVE SocketOK'
  BY <1>7 DEF SubmitThrows, Throws
<1>8. ASSUME NEW t \in Apps, CountRead(t) PROVE SocketOK'
  BY <1>8 DEF CountRead
<1>9. ASSUME NEW t \in Apps, CountWrite(t) PROVE SocketOK'
  BY <1>9 DEF CountWrite
<1>10. ASSUME NEW t \in Threads, FlushTakes(t) PROVE SocketOK'
  BY <1>10, AfterAFlush DEF FlushTakes, Take
<1>11. ASSUME NEW t \in Threads, FlushSends(t) PROVE SocketOK'
  <2>1. CASE t = Owner
    BY <1>11, <2>1, AfterAFlush DEF FlushSends, SendData, OwnerSteps
  <2>2. CASE t # Owner
    BY <1>11, <2>2, AfterAFlush DEF FlushSends, SendData
  <2> QED
    BY <2>1, <2>2
<1>12. ASSUME NEW t \in Threads, FlushNothing(t) PROVE SocketOK'
  <2>1. CASE t = Owner
    BY <1>12, <2>1, AfterAFlush DEF FlushNothing, OwnerSteps
  <2>2. CASE t # Owner
    BY <1>12, <2>2, AfterAFlush DEF FlushNothing
  <2> QED
    BY <2>1, <2>2
<1>13. ASSUME NEW t \in Threads, FlushThrows(t) PROVE SocketOK'
  BY <1>13, AfterAFlush DEF FlushThrows, Throws
<1>14. ASSUME NEW t \in Threads, FlushTerminates(t) PROVE SocketOK'
  BY <1>14, AfterAFlush DEF FlushTerminates, Throws
<1>27. ASSUME NEW t \in Threads, FlushGoesOn(t) PROVE SocketOK'
  BY <1>27, AfterAFlush DEF FlushGoesOn, Take
<1>15. CASE TimerTakes
  BY <1>15 DEF TimerTakes, Take
<1>16. CASE TimerStops
  BY <1>16 DEF TimerStops
<1>17. CASE Start
  BY <1>17 DEF Start
<1>28. CASE StartFails
  BY <1>28 DEF StartFails
<1>18. CASE Initialized
  BY <1>18 DEF Initialized
<1>19. CASE Stop
  BY <1>19 DEF Stop
<1>20. CASE Join
  BY <1>20 DEF Join
<1>21. CASE NetworkShutdown
  BY <1>21 DEF NetworkShutdown
<1>22. CASE ShutdownEnds
  BY <1>22 DEF ShutdownEnds
<1>23. CASE Initialize
  BY <1>23 DEF Initialize
<1>24. CASE Shutdown
  BY <1>24 DEF Shutdown
<1>25. CASE Destroy
  BY <1>25 DEF Destroy
<1>26. CASE UNCHANGED vars
  BY <1>26 DEF vars
<1> QED
  BY Steps, <1>1, <1>2, <1>3, <1>4, <1>5, <1>6, <1>7, <1>8, <1>9, <1>10,
     <1>11, <1>12, <1>13, <1>14, <1>15, <1>16, <1>17, <1>18, <1>19, <1>20, <1>21,
     <1>22, <1>23, <1>24, <1>25, <1>26, <1>27, <1>28
  DEF FlushStep

\* No step brings the destructor of a client that was shut down to send.
LEMMA GoneStep ==
  Inv /\ [Next]_vars => GoneOK'
<1> SUFFICES ASSUME Inv, [Next]_vars PROVE GoneOK'
  OBVIOUS
<1> USE ThreadsDiffer
    DEF Inv, TypeOK, StoppedOK, SocketOK, GoneOK, Unmanned, Stopping, Flushing,
        Goto, manager, network, counting
<1>1. ASSUME NEW t \in Apps, Track(t) PROVE GoneOK'
  BY <1>1 DEF Track
<1>2. ASSUME NEW t \in Apps, Flush(t) PROVE GoneOK'
  BY <1>2 DEF Flush
<1>3. ASSUME NEW t \in Apps, SubmitRefused(t) PROVE GoneOK'
  BY <1>3 DEF SubmitRefused
<1>4. ASSUME NEW t \in Apps, Submit(t) PROVE GoneOK'
  BY <1>4 DEF Submit
<1>5. ASSUME NEW t \in Apps, SubmitTakes(t) PROVE GoneOK'
  BY <1>5 DEF SubmitTakes, Take
<1>6. ASSUME NEW t \in Apps, SubmitSends(t) PROVE GoneOK'
  BY <1>6 DEF SubmitSends, SendData
<1>7. ASSUME NEW t \in Apps, SubmitThrows(t) PROVE GoneOK'
  BY <1>7 DEF SubmitThrows, Throws
<1>8. ASSUME NEW t \in Apps, CountRead(t) PROVE GoneOK'
  BY <1>8 DEF CountRead
<1>9. ASSUME NEW t \in Apps, CountWrite(t) PROVE GoneOK'
  BY <1>9 DEF CountWrite
<1>10. ASSUME NEW t \in Threads, FlushTakes(t) PROVE GoneOK'
  BY <1>10, AfterAFlush DEF FlushTakes, Take
<1>11. ASSUME NEW t \in Threads, FlushSends(t) PROVE GoneOK'
  BY <1>11, AfterAFlush DEF FlushSends, SendData
<1>12. ASSUME NEW t \in Threads, FlushNothing(t) PROVE GoneOK'
  BY <1>12, AfterAFlush DEF FlushNothing
<1>13. ASSUME NEW t \in Threads, FlushThrows(t) PROVE GoneOK'
  BY <1>13, AfterAFlush DEF FlushThrows, Throws
<1>14. ASSUME NEW t \in Threads, FlushTerminates(t) PROVE GoneOK'
  BY <1>14, AfterAFlush DEF FlushTerminates, Throws
<1>27. ASSUME NEW t \in Threads, FlushGoesOn(t) PROVE GoneOK'
  BY <1>27, AfterAFlush DEF FlushGoesOn, Take
<1>15. CASE TimerTakes
  BY <1>15 DEF TimerTakes, Take
<1>16. CASE TimerStops
  BY <1>16 DEF TimerStops
<1>17. CASE Start
  BY <1>17 DEF Start
<1>28. CASE StartFails
  BY <1>28 DEF StartFails
<1>18. CASE Initialized
  BY <1>18 DEF Initialized
<1>19. CASE Stop
  BY <1>19 DEF Stop
<1>20. CASE Join
  BY <1>20 DEF Join
<1>21. CASE NetworkShutdown
  BY <1>21 DEF NetworkShutdown
<1>22. CASE ShutdownEnds
  BY <1>22 DEF ShutdownEnds
<1>23. CASE Initialize
  BY <1>23 DEF Initialize
<1>24. CASE Shutdown
  BY <1>24 DEF Shutdown
<1>25. CASE Destroy
  BY <1>25 DEF Destroy
<1>26. CASE UNCHANGED vars
  BY <1>26 DEF vars
<1> QED
  BY Steps, <1>1, <1>2, <1>3, <1>4, <1>5, <1>6, <1>7, <1>8, <1>9, <1>10,
     <1>11, <1>12, <1>13, <1>14, <1>15, <1>16, <1>17, <1>18, <1>19, <1>20, <1>21,
     <1>22, <1>23, <1>24, <1>25, <1>26, <1>27, <1>28
  DEF FlushStep

\* An item that is accepted is one that its thread is about to count.
LEMMA Accepting ==
  ASSUME Inv, NEW t \in Apps, pc[t] = "submit",
         accepted' = accepted \union {arg[t]},
         pc' = [pc EXCEPT ![t] = "read"],
         UNCHANGED <<arg, read, sent>>
  PROVE  CountOK'
<1> USE DEF Inv, TypeOK, AboutToCount
<1>1. arg[t] \in Items \ accepted
  BY DEF ArgOK
<1>2. ASSUME NEW k \in Kinds PROVE Counted(k)' = Counted(k)
  <2>1. \A u \in Apps : pc'[u] \in AboutToCount <=> u = t \/ pc[u] \in AboutToCount
    BY ThreadsDiffer
  <2>2. {arg'[v] : v \in {u \in Apps : pc'[u] \in AboutToCount}}
          = {arg[t]} \union {arg[v] : v \in {u \in Apps : pc[u] \in AboutToCount}}
    BY <2>1
  <2>3. Taken(k)' \ {arg[t]} = Taken(k)
    BY <1>1 DEF Taken
  <2> QED
    BY <2>2, <2>3 DEF Counted
<1>3. ASSUME NEW k \in Kinds
      PROVE  Taken(k)' = Taken(k) \/ (arg[t][1] = k /\ pc'[t] = "read")
  BY ThreadsDiffer DEF Taken
<1>4. \A u \in Apps : /\ pc'[u] = "write" <=> pc[u] = "write"
                      /\ pc[u] \in AboutToCount => pc'[u] = pc[u]
                      /\ pc[u] = "dead" => pc'[u] = "dead"
  BY ThreadsDiffer
<1> QED
  BY <1>2, <1>3, <1>4 DEF CountOK

\* No step lets a stale read count more than was accepted: a thread's item leaves
\* the uncounted ones only when its own store is made.
LEMMA CountStep ==
  Inv /\ [Next]_vars => CountOK'
<1> SUFFICES ASSUME Inv, [Next]_vars PROVE CountOK'
  OBVIOUS
<1> USE ThreadsDiffer DEF Inv, TypeOK, AppSteps, OwnerSteps, TimerSteps,
                          AboutToCount, Goto, manager, network, counting
<1>0. ASSUME UNCHANGED <<sent, read, accepted>>,
             \A t \in Apps :
               /\ pc'[t] \in AboutToCount <=> pc[t] \in AboutToCount
               /\ pc[t] \in AboutToCount => arg'[t] = arg[t]
               /\ pc'[t] = "write" => pc[t] = "write"
               /\ pc[t] = "dead" => pc'[t] = "dead"
      PROVE  CountOK'
  <2>1. ASSUME NEW k \in Kinds
        PROVE  Counted(k)' = Counted(k) /\ Taken(k)' = Taken(k)
    BY <1>0 DEF Counted, Taken
  <2> QED
    BY <1>0, <2>1 DEF CountOK
<1>1. ASSUME NEW t \in Apps, Track(t) PROVE CountOK'
  BY <1>0, <1>1 DEF Track
<1>2. ASSUME NEW t \in Apps, Flush(t) PROVE CountOK'
  BY <1>0, <1>2 DEF Flush
<1>3. ASSUME NEW t \in Apps, SubmitRefused(t) PROVE CountOK'
  BY <1>0, <1>3 DEF SubmitRefused
<1>4. ASSUME NEW t \in Apps, Submit(t) PROVE CountOK'
  <2>1. /\ accepted' = accepted \union {arg[t]}
        /\ pc' = [pc EXCEPT ![t] = "read"] /\ pc[t] = "submit"
        /\ arg' = arg /\ read' = read /\ sent' = sent
    BY <1>4 DEF Submit
  <2> QED
    BY <2>1, Accepting
<1>5. ASSUME NEW t \in Apps, SubmitTakes(t) PROVE CountOK'
  BY <1>0, <1>5 DEF SubmitTakes, Take
<1>6. ASSUME NEW t \in Apps, SubmitSends(t) PROVE CountOK'
  <2>1. /\ accepted' = accepted \union {arg[t]}
        /\ pc' = [pc EXCEPT ![t] = "read"] /\ pc[t] = "submit"
        /\ arg' = arg /\ read' = read /\ sent' = sent
    BY <1>6 DEF SubmitSends
  <2> QED
    BY <2>1, Accepting
<1>7. ASSUME NEW t \in Apps, SubmitThrows(t) PROVE CountOK'
  BY <1>0, <1>7 DEF SubmitThrows, Throws
<1>8. ASSUME NEW t \in Apps, CountRead(t) PROVE CountOK'
  <2>1. /\ pc[t] = "read" /\ pc' = [pc EXCEPT ![t] = "write"]
        /\ read' = [read EXCEPT ![t] = sent[arg[t][1]]]
        /\ arg' = arg /\ accepted' = accepted /\ sent' = sent
    BY <1>8 DEF CountRead
  <2>2. ASSUME NEW k \in Kinds
        PROVE  Counted(k)' = Counted(k) /\ Taken(k)' = Taken(k)
    BY <2>1 DEF Counted, Taken
  <2> QED
    BY <2>1, <2>2 DEF CountOK
<1>9. ASSUME NEW t \in Apps, CountWrite(t) PROVE CountOK'
  <2>0. PICK i : i = arg[t]
    OBVIOUS
  <2> DEFINE kind == i[1]
  <2>1. /\ pc[t] = "write" /\ pc' = [pc EXCEPT ![t] = "idle"]
        /\ read' = [read EXCEPT ![t] = 0]
        /\ sent' = [sent EXCEPT ![kind] = read[t] + 1]
        /\ arg' = [arg EXCEPT ![t] = NoItem] /\ accepted' = accepted
    BY <1>9, <2>0 DEF CountWrite
  <2>2. i \in accepted /\ kind \in Kinds
    BY <2>0, <2>1, ItemKinds DEF ArgOK
  <2>3. \A u \in Apps : u # t /\ pc[u] \in AboutToCount => arg[u] # i
    BY <2>0, <2>1 DEF ArgOK, Tracking
  <2>4. /\ \A u \in Apps : u # t => arg'[u] = arg[u] /\ pc'[u] = pc[u]
        /\ pc'[t] = "idle" /\ pc[t] = "write" /\ arg[t] = i
        /\ \A u \in Apps : u # t => read'[u] = read[u]
    BY <2>0, <2>1
  <2>5. {arg'[v] : v \in {u \in Apps : pc'[u] \in AboutToCount}}
           = {arg[v] : v \in {u \in Apps : pc[u] \in AboutToCount}} \ {i}
    BY <2>3, <2>4
  <2>6. \A k \in Kinds : Taken(k)' = Taken(k)
    BY <2>1 DEF Taken
  <2>7. Counted(kind)' = Counted(kind) \union {i} /\ i \notin Counted(kind)
    <3>1. i \in {arg[v] : v \in {u \in Apps : pc[u] \in AboutToCount}}
      BY <2>4
    <3>2. i \in Taken(kind)
      BY <2>2 DEF Taken
    <3> QED
      BY <2>2, <2>6, <2>5, <3>1, <3>2 DEF Counted
  <2>8. Cardinality(Counted(kind)') = Cardinality(Counted(kind)) + 1
    BY <2>2, <2>7, CountedFinite, FS_AddElement
  <2>9. ASSUME NEW k \in Kinds, k # kind PROVE Counted(k)' = Counted(k)
    <3>1. i \notin Taken(k)
      BY <2>9 DEF Taken
    <3> QED
      BY <2>6, <2>5, <3>1 DEF Counted
  <2>10. read[t] \in Nat /\ read[t] <= Cardinality(Counted(kind))
    BY <2>0, <2>1, <2>2 DEF CountOK
  <2>11. ASSUME NEW k \in Kinds, k # kind
         PROVE  /\ sent'[k] <= Cardinality(Counted(k)')
                /\ \A u \in Apps : pc'[u] = "write" /\ arg'[u][1] = k =>
                     read'[u] <= Cardinality(Counted(k)')
                /\ Taken(k)' # {} =>
                     \/ sent'[k] > 0
                     \/ \E u \in Apps : pc'[u] = "dead"
                     \/ \E u \in Apps : pc'[u] \in AboutToCount /\ arg'[u][1] = k
    <3>1. sent'[k] = sent[k]
      BY <2>1, <2>11
    <3>2. \A u \in Apps : pc'[u] = "write" => u # t /\ pc[u] = "write"
      BY <2>4
    <3>3. ASSUME NEW u \in Apps,
                 pc[u] = "dead" \/ (pc[u] \in AboutToCount /\ arg[u][1] = k)
          PROVE  u # t
      BY <2>4, <2>11, <3>3
    <3> QED
      BY <2>6, <2>9, <2>4, <2>11, <3>1, <3>2, <3>3 DEF CountOK
  <2>12. \A u \in Apps : pc'[u] = "write" /\ arg'[u][1] = kind =>
           read'[u] \in Nat /\ read'[u] <= Cardinality(Counted(kind))
    <3>1. \A u \in Apps : pc'[u] = "write" => u # t /\ pc[u] = "write"
      BY <2>4
    <3> QED
      BY <2>2, <2>4, <3>1 DEF CountOK
  <2>13. Cardinality(Counted(kind)) \in Nat /\ sent'[kind] = read[t] + 1
    BY <2>1, <2>2, CountedFinite
  <2>14. /\ sent'[kind] <= Cardinality(Counted(kind)')
         /\ \A u \in Apps : pc'[u] = "write" /\ arg'[u][1] = kind =>
              read'[u] <= Cardinality(Counted(kind)')
         /\ sent'[kind] > 0
    BY <2>8, <2>10, <2>12, <2>13
  <2> QED
    BY <2>11, <2>14 DEF CountOK
<1>10. ASSUME NEW t \in Threads, FlushTakes(t) PROVE CountOK'
  BY <1>0, <1>10, AfterAFlush DEF FlushTakes, Take
<1>11. ASSUME NEW t \in Threads, FlushSends(t) PROVE CountOK'
  BY <1>0, <1>11, AfterAFlush DEF FlushSends, SendData
<1>12. ASSUME NEW t \in Threads, FlushNothing(t) PROVE CountOK'
  BY <1>0, <1>12, AfterAFlush DEF FlushNothing
<1>13. ASSUME NEW t \in Threads, FlushThrows(t) PROVE CountOK'
  BY <1>0, <1>13, AfterAFlush DEF FlushThrows, Throws
<1>14. ASSUME NEW t \in Threads, FlushTerminates(t) PROVE CountOK'
  <2>1. /\ accepted' = accepted /\ sent' = sent
        /\ \A u \in Apps : pc'[u] = "dead"
    BY <1>14 DEF FlushTerminates
  <2>2. ASSUME NEW k \in Kinds
        PROVE  Counted(k)' = Taken(k) /\ Taken(k)' = Taken(k)
    BY <2>1 DEF Counted, Taken
  <2>3. ASSUME NEW k \in Kinds PROVE sent[k] <= Cardinality(Taken(k))
    BY CountedFinite DEF CountOK
  <2>4. ASSUME NEW k \in Kinds, Taken(k) # {}, ~(sent[k] > 0)
        PROVE  \E u \in Apps : TRUE
    BY <2>4 DEF CountOK
  <2> QED
    BY <2>1, <2>2, <2>3, <2>4 DEF CountOK
<1>27. ASSUME NEW t \in Threads, FlushGoesOn(t) PROVE CountOK'
  BY <1>0, <1>27, AfterAFlush DEF FlushGoesOn, Take
<1>15. CASE TimerTakes
  BY <1>0, <1>15 DEF TimerTakes, Take
<1>16. CASE TimerStops
  BY <1>0, <1>16 DEF TimerStops
<1>17. CASE Start
  BY <1>0, <1>17 DEF Start
<1>28. CASE StartFails
  BY <1>0, <1>28 DEF StartFails
<1>18. CASE Initialized
  BY <1>0, <1>18 DEF Initialized
<1>19. CASE Stop
  BY <1>0, <1>19 DEF Stop
<1>20. CASE Join
  BY <1>0, <1>20 DEF Join
<1>21. CASE NetworkShutdown
  BY <1>0, <1>21 DEF NetworkShutdown
<1>22. CASE ShutdownEnds
  BY <1>0, <1>22 DEF ShutdownEnds
<1>23. CASE Initialize
  BY <1>0, <1>23 DEF Initialize
<1>24. CASE Shutdown
  BY <1>0, <1>24 DEF Shutdown
<1>25. CASE Destroy
  BY <1>0, <1>25 DEF Destroy
<1>26. CASE UNCHANGED vars
  BY <1>0, <1>26 DEF vars
<1> QED
  BY Steps, <1>1, <1>2, <1>3, <1>4, <1>5, <1>6, <1>7, <1>8, <1>9, <1>10,
     <1>11, <1>12, <1>13, <1>14, <1>15, <1>16, <1>17, <1>18, <1>19, <1>20, <1>21,
     <1>22, <1>23, <1>24, <1>25, <1>26, <1>27, <1>28
  DEF FlushStep

-----------------------------------------------------------------------------
(***************************************************************************)
(* The theorems.                                                           *)
(***************************************************************************)
\* The invariant holds before initialize().
LEMMA InitInv ==
  Init => Inv
<1> SUFFICES ASSUME Init PROVE Inv
  OBVIOUS
<1> USE ThreadsDiffer, ClientAssumption DEF Init
<1>1. TypeOK
  <2>1. pc \in [Threads -> AppSteps \union OwnerSteps \union TimerSteps]
    BY DEF AppSteps, OwnerSteps, TimerSteps
  <2>2. /\ \A t \in Apps : pc[t] \in AppSteps
        /\ pc[Owner] \in OwnerSteps /\ pc[Timer] \in TimerSteps
    BY DEF AppSteps, OwnerSteps, TimerSteps
  <2>3. starts \in 0 .. MaxStarts
    OBVIOUS
  <2>4. arg \in [Apps -> Items \union {NoItem}] /\ read \in [Apps -> Nat]
    OBVIOUS
  <2> QED
    BY <2>1, <2>2, <2>3, <2>4 DEF TypeOK
<1>2. MutexOK /\ ArgOK /\ AcceptedIsKept
  BY DEF MutexOK, ArgOK, AcceptedIsKept, AboutToCount, Tracking, Kinds
<1>3. StoppedOK /\ SocketOK
  BY DEF StoppedOK, SocketOK, Stopping, Flushing, Kinds
<1>4. GoneOK
  BY DEF GoneOK
<1>5. CountOK
  <2>1. ASSUME NEW k \in Kinds PROVE Taken(k) = {}
    BY DEF Taken
  <2> QED
    BY CountedFinite, <1>1, <2>1 DEF CountOK
<1> QED
  BY <1>1, <1>2, <1>3, <1>4, <1>5 DEF Inv

\* The invariant holds at every moment of a client's life, from its constructor to
\* its destructor, with or without a valid key.
THEOREM ClientInvariant ==
  Spec => []Inv
<1>1. Init => Inv
  BY InitInv
<1>2. Inv /\ [Next]_vars => Inv'
  BY TypeStep, MutexStep, ArgStep, KeptStep, StoppedStep, SocketStep, GoneStep,
     CountStep
     DEF Inv
<1> QED
  BY <1>1, <1>2, PTL DEF Spec

\* Every variable keeps its type in every step of ClientImpl.
THEOREM ClientTypes ==
  Spec => []TypeOK
<1>1. Inv => TypeOK
  BY DEF Inv
<1> QED
  BY <1>1, ClientInvariant, PTL

\* AcceptedIsKept: what event() and log_message() accepted is pending with its
\* kind, being sent, handed to send_data() or, only without a valid key, lost with
\* its batch, and never two of these, however the calls that track, flush(),
\* shutdown() and the destructor interleave.
THEOREM NothingForgotten ==
  Spec => []AcceptedIsKept
<1>1. Inv => AcceptedIsKept
  BY DEF Inv
<1> QED
  BY <1>1, ClientInvariant, PTL

\* ShutDownIsFinal: after shutdown() no call that it met opens a connection again,
\* and a stopped manager has no thread, no events and, but for those that an invalid
\* key's exception left behind, no logs.  Only after an initialize() that failed is
\* a client that is not initialized left with a manager that runs.
THEOREM ShutDownStaysDown ==
  Spec => []ShutDownIsFinal
<1>1. Inv => ShutDownIsFinal
  BY
     DEF Inv, TypeOK, MutexOK, StoppedOK, SocketOK, ShutDownIsFinal,
         Stopping, Flushing, Unmanned, Waiting, Kinds
<1> QED
  BY <1>1, ClientInvariant, PTL

\* NeverOvercounted: threads that raise the plain events_sent or logs_sent at once
\* lose counts, but they never count more than was accepted of the kind, and never
\* end at none.
THEOREM NeverOvercountedAlways ==
  Spec => []NeverOvercounted
<1>1. Inv => NeverOvercounted
  <2> SUFFICES ASSUME Inv PROVE NeverOvercounted
    OBVIOUS
  <2>1. ASSUME NEW k \in Kinds PROVE sent[k] <= Cardinality(Taken(k))
    BY CountedFinite DEF Inv, TypeOK, CountOK
  <2>2. ASSUME NEW k \in Kinds, \A t \in Apps : pc[t] = "idle", Taken(k) # {}
        PROVE  sent[k] > 0
    BY <2>2 DEF Inv, CountOK, AboutToCount
  <2> QED
    BY <2>1, <2>2 DEF NeverOvercounted
<1> QED
  BY <1>1, ClientInvariant, PTL

\* NoUseAfterDestroy: an application that destroys the client only after shutdown()
\* never has the batch manager's destructor call send_data() on the destroyed
\* network client.
THEOREM NothingSentAfterDestroy ==
  ASSUME ShutsDownFirst
  PROVE  Spec => []NoUseAfterDestroy
<1>1. Inv => NoUseAfterDestroy
  BY ShutsDownFirst DEF Inv, GoneOK, NoUseAfterDestroy
<1> QED
  BY <1>1, ClientInvariant, PTL

-----------------------------------------------------------------------------
(***************************************************************************)
(* The configuration a client is made with.  Both properties of Config are *)
(* inductive: every call looks at its own values only.                     *)
(***************************************************************************)
\* What LogsGoFirst asks of a configuration.
InOrder(c) ==
  /\ c.log_flush_interval <= c.event_flush_interval
  /\ c.log_batch_size <= c.event_batch_size
  /\ c.event_batch_size <= c.max_queue_size

\* Only the endpoint is left for NetworkConfigValidator to refuse.
Dialled(c) ==
  ValidNetwork(c) <=> c.host = "name" /\ c.port # NoPort /\ Cut(c.port) # 0

\* A port that is cut is a natural number.
LEMMA CutPort == \A port \in Nat : Cut(port) \in Nat
BY DEF Cut

\* With numbers in range, only host and port matter.
LEMMA DialledWhen ==
  ASSUME NEW c, c.port \in Nat \union {NoPort},
         ValidTimeout(c.connect_timeout), ValidTimeout(c.send_timeout),
         ValidTimeout(c.receive_timeout), ValidRetries(c)
  PROVE  Dialled(c)
<1>1. c.port # NoPort => (Cut(c.port) > 0 <=> Cut(c.port) # 0)
  <2>1. c.port # NoPort => Cut(c.port) \in Nat
    BY CutPort
  <2> QED
    BY <2>1
<1> QED
  BY <1>1 DEF Dialled, ValidNetwork, ValidEndpoint

\* The presets are in order, and nothing but host and port could be refused.
LEMMA PresetsGood ==
  ASSUME NEW name \in Presets, NEW k
  PROVE  /\ InOrder(Preset(name, Defaults(k)))
         /\ Dialled(Preset(name, Defaults(k)))
<1> DEFINE c == Preset(name, Defaults(k))
<1>1. InOrder(c) /\ c.port = 50000
  BY DEF Presets, Preset, Defaults, Collector, Endpoint, Batching, Retries,
         Timeouts, QueueLimits, Performance, InOrder
<1>2. /\ ValidTimeout(c.connect_timeout)
      /\ ValidTimeout(c.send_timeout)
      /\ ValidTimeout(c.receive_timeout)
      /\ ValidRetries(c)
  BY DEF Presets, Preset, Defaults, Collector, Endpoint, Batching, Retries,
         Timeouts, QueueLimits, Performance, ValidTimeout, ValidRetries
<1>3. c.port \in Nat \union {NoPort}
  BY <1>1
<1> QED
  BY <1>1, <1>2, <1>3, DialledWhen

\* The configuration that from_environment() validates.
Loaded(env) ==
  WithInterval(env, WithBatchSize(env, WithEndpoint(env, Defaults(env.key))))

\* So is what an environment gives, when Config takes it.
LEMMA LoadedGood ==
  ASSUME NEW env \in Environments, IsValid(Loaded(env))
  PROVE  InOrder(Loaded(env)) /\ Dialled(Loaded(env))
<1> DEFINE c == Loaded(env)
<1>1. InRange(c, "event_batch_size")
  <2>1. "event_batch_size" \in DOMAIN c
    <3>1. "event_batch_size" \in DOMAIN Defaults(env.key)
      BY DEF Defaults
    <3>2. \A d : DOMAIN WithEndpoint(env, d) = DOMAIN d
      BY DEF WithEndpoint, Endpoint
    <3>3. \A d : DOMAIN WithBatchSize(env, d) = DOMAIN d
      BY DEF WithBatchSize, Batching
    <3>4. \A d : DOMAIN WithInterval(env, d) = DOMAIN d
      BY DEF WithInterval, Batching
    <3> QED
      BY <3>1, <3>2, <3>3, <3>4 DEF Loaded
  <2>2. "event_batch_size" \notin NetworkFields
    BY DEF NetworkFields
  <2> QED
    BY <2>1, <2>2 DEF IsValid
<1>2. c.event_batch_size <= 10000
  BY <1>1 DEF InRange
<1>3. /\ c.log_flush_interval <= c.event_flush_interval
      /\ c.log_batch_size <= c.event_batch_size
      /\ c.max_queue_size = 10000
  BY ConfigAssumption
     DEF Loaded, Environments, WithInterval, WithBatchSize, WithEndpoint,
         Defaults, Endpoint, Batching
<1>4. c.port \in Nat \union {NoPort}
  BY ConfigAssumption
     DEF Loaded, Environments, Endpoints, WithInterval, WithBatchSize,
         WithEndpoint, Defaults, Endpoint, Batching
<1>5. /\ ValidTimeout(c.connect_timeout)
      /\ ValidTimeout(c.send_timeout)
      /\ ValidTimeout(c.receive_timeout)
      /\ ValidRetries(c)
  BY DEF Loaded, WithInterval, WithBatchSize, WithEndpoint, Defaults, Endpoint,
         Batching, ValidTimeout, ValidRetries
<1> QED
  BY <1>2, <1>3, <1>4, <1>5, DialledWhen DEF InOrder

\* What NetworkConfigValidator takes, Config takes if the port is digits only.
LEMMA TakenTwice ==
  ASSUME NEW c, ValidNetwork(c)
  PROVE  TakesNetwork(c) <=> c.digits
<1>1. c.host # "other" /\ \A field \in NetworkFields : InRange(c, field)
  BY DEF ValidNetwork, ValidEndpoint, ValidTimeout, ValidRetries, NetworkFields,
         InRange
<1> QED
  BY <1>1 DEF TakesNetwork

\* A call changes what was built to a result of which both hold, or to nothing.
LEMMA ConfigStep ==
  LogsGoFirst /\ ValidatorsAgree /\ [ConfigNext]_settings =>
    LogsGoFirst' /\ ValidatorsAgree'
<1> SUFFICES ASSUME LogsGoFirst, ValidatorsAgree, [ConfigNext]_settings
             PROVE  LogsGoFirst' /\ ValidatorsAgree'
  OBVIOUS
<1> USE DEF LogsGoFirst, ValidatorsAgree
<1>1. ASSUME NEW c, Change(c) PROVE LogsGoFirst' /\ ValidatorsAgree'
  BY <1>1 DEF Change, Nothing, Result, Refused
<1>2. CASE Build
  <2>1. built' = Result("build", "config", Validated(config))
    BY <1>2 DEF Build
  <2> QED
    BY <2>1, TakenTwice DEF Result, Validated
<1>3. ASSUME NEW name \in Presets, BuildPreset(name)
      PROVE  LogsGoFirst' /\ ValidatorsAgree'
  <2> DEFINE c == Preset(name, Defaults(config.key))
  <2>1. InOrder(c) /\ Dialled(c)
    BY PresetsGood
  <2>2. built'.call = "preset" /\ built'.config = c
    BY <1>3 DEF BuildPreset, Result, Validated
  <2> QED
    BY <2>1, <2>2 DEF InOrder, Dialled
<1>4. CASE Load
  <2>1. PICK env \in Environments :
          built' = Result("from_environment", env, FromEnvironment(env))
    BY <1>4 DEF Load
  <2>2. CASE env.key = Unset
    BY <2>1, <2>2 DEF FromEnvironment, Result, Refused
  <2>3. CASE env.key # Unset
    <3>1. /\ built'.call = "from_environment" /\ built'.config = Loaded(env)
          /\ built'.valid = IsValid(Loaded(env))
      BY <2>1, <2>3 DEF FromEnvironment, Result, Validated, Loaded
    <3>2. CASE ~ built'.valid
      BY <3>1, <3>2
    <3>3. CASE built'.valid
      BY <3>1, <3>3, LoadedGood DEF InOrder, Dialled
    <3> QED
      BY <3>2, <3>3
  <2> QED
    BY <2>2, <2>3
<1>5. CASE UNCHANGED settings
  BY <1>5 DEF settings
<1> QED
  BY <1>1, <1>2, <1>3, <1>4, <1>5
     DEF ConfigNext, SetEndpoint, SetTimeouts, SetRetries, SetBatching,
         SetQueueLimits, SetPerformance

\* Both hold of nothing.
LEMMA ConfigBegins == ConfigInit => LogsGoFirst /\ ValidatorsAgree
BY DEF ConfigInit, LogsGoFirst, ValidatorsAgree, Nothing, Result, Refused

\* Every preset, and every environment that is accepted, flushes logs at least as
\* often as events, in batches that are no larger, and a full batch fits in the
\* queue (config.cpp:269-287, 373-404).
THEOREM LogsNeverWaitLonger == ConfigSpec => []LogsGoFirst
<1>1. ConfigSpec => [](LogsGoFirst /\ ValidatorsAgree)
  BY ConfigBegins, ConfigStep, PTL DEF ConfigSpec
<1> QED
  BY <1>1, PTL

\* ValidatorsAgree: whatever a builder is told, Config takes what
\* NetworkConfigValidator takes exactly if the port is digits only; and
\* NetworkConfigValidator refuses of the presets and of the environments that are
\* accepted only what its patterns refuse and a port that cannot be read or is cut
\* to 0 (config.cpp:191-214, network.cpp:536-590, utils.cpp:77-92).
THEOREM ValidatorsNeverDisagree == ConfigSpec => []ValidatorsAgree
<1>1. ConfigSpec => [](LogsGoFirst /\ ValidatorsAgree)
  BY ConfigBegins, ConfigStep, PTL DEF ConfigSpec
<1> QED
  BY <1>1, PTL
=============================================================================
