------------------------------- MODULE Client -------------------------------
(***************************************************************************)
(* ClientImpl of src/src/client.cpp over its batch manager and its network *)
(* client: the life of a client from initialize() through shutdown() to    *)
(* the destructor, while other threads track events and flush.             *)
(*                                                                         *)
(* The batch manager is cut down to what BatchManager shows of it: a mutex *)
(* that is held while batches are sent, what is pending of each kind,      *)
(* running_ and the timer thread.  A flush sends the events and then the   *)
(* logs.  The network client is its socket, and whether the object still   *)
(* exists.                                                                 *)
(* initialized_ and the counters of stats_ are plain fields that every     *)
(* thread reads and writes without a lock.                                 *)
(*                                                                         *)
(* The key is never validated on the way to the batch manager.  With a key *)
(* that is no key every batch ends in an exception before it is handed to  *)
(* the network client.                                                     *)
(***************************************************************************)
EXTENDS Integers, FiniteSets

CONSTANTS
  Apps,           \* threads that track events, log and flush
  Owner,          \* the thread that initializes, shuts down and destroys
  Timer,          \* the batch manager's flush_thread_
  Nobody,         \* not a thread
  MaxEvents,      \* bound: events that are accepted
  MaxLogs,        \* bound: logs that are accepted
  BatchSize,      \* items that make the current batch of a kind full
  MaxStarts,      \* bound: calls of initialize()
  ThreadsMayFail, \* the construction of a std::thread may throw
  ShutsDownFirst  \* the owner destroys the client only after shutdown(), and
                  \* not after an initialize() that failed

ASSUME ClientAssumption ==
  /\ BatchSize \in Nat \ {0}
  /\ MaxEvents \in Nat /\ MaxLogs \in Nat /\ MaxStarts \in Nat
  /\ ThreadsMayFail \in BOOLEAN /\ ShutsDownFirst \in BOOLEAN
  /\ Owner \notin Apps /\ Timer \notin Apps \union {Owner}
  /\ Nobody \notin Apps \union {Owner, Timer}

\* An item is its kind and a number.
Kinds == {"event", "log"}
Items == ({"event"} \X (1 .. MaxEvents)) \union ({"log"} \X (1 .. MaxLogs))
NoItem == <<"none", 0>>
Threads == Apps \union {Owner, Timer}

VARIABLES
  initialized,  \* initialized_
  key,          \* batch_manager_: api_key_ is 32 hexadecimal digits
  running,      \* batch_manager_: running_
  owner,        \* batch_manager_: the holder of mutex_
  pending,      \* batch_manager_: accepted items that wait in it, by kind
  leaving,      \* batch_manager_: items of the batch being sent
  todo,         \* the kinds the holder of the mutex has yet to flush
  socket,       \* network_client_: a connection is open
  exists,       \* network_client_ is not yet destroyed
  sent,         \* stats_.events_sent and stats_.logs_sent
  pc,           \* where a thread is
  arg,          \* the item an application thread submits
  read,         \* the value of its kind's counter it read
  starts,       \* calls of initialize() so far
  accepted,     \* history: items that submit_event() or submit_log() accepted
  handed,       \* history: items handed to send_data()
  lost,         \* history: accepted items whose batch ended in an exception
  astray        \* history: send_data() was called on a destroyed object

manager == <<key, running, owner, pending, leaving, todo>>
network == <<socket, exists, handed, lost, astray>>
counting == <<arg, read, sent, accepted>>
vars == <<initialized, key, running, owner, pending, leaving, todo, socket,
          exists, sent, pc, arg, read, starts, accepted, handed, lost, astray>>

AppSteps == {"idle", "submit", "read", "write", "flush", "dead"}
OwnerSteps == {"idle", "start", "started", "shutflush", "stop", "join",
               "stopflush", "close", "end", "dtorstop", "dtorjoin",
               "dtorflush", "gone", "dead"}
TimerSteps == {"none", "wait", "timerflush", "done", "dead"}

\* What a thread does after a flush.
After == [flush |-> "idle", shutflush |-> "stop", stopflush |-> "close",
          dtorflush |-> "gone", timerflush |-> "wait"]

\* What a thread does after a flush that threw: flush() and shutdown() catch it
\* at their end.  Nothing catches it in a thread or a destructor.
AfterThrow == [flush |-> "idle", shutflush |-> "end", stopflush |-> "end"]

TypeOK ==
  /\ initialized \in BOOLEAN /\ key \in BOOLEAN /\ running \in BOOLEAN
  /\ owner \in Threads \union {Nobody}
  /\ pending \in [Kinds -> SUBSET Items] /\ leaving \subseteq Items
  /\ todo \subseteq Kinds
  /\ socket \in BOOLEAN /\ exists \in BOOLEAN
  /\ sent \in [Kinds -> Nat]
  /\ pc \in [Threads -> AppSteps \union OwnerSteps \union TimerSteps]
  /\ \A t \in Apps : pc[t] \in AppSteps
  /\ pc[Owner] \in OwnerSteps /\ pc[Timer] \in TimerSteps
  /\ arg \in [Apps -> Items \union {NoItem}]
  /\ read \in [Apps -> Nat]
  /\ starts \in 0 .. MaxStarts
  /\ accepted \subseteq Items /\ handed \subseteq Items /\ lost \subseteq Items
  /\ astray \in BOOLEAN

Init ==
  /\ initialized = FALSE /\ running = FALSE
  /\ key \in BOOLEAN
  /\ owner = Nobody
  /\ pending = [k \in Kinds |-> {}] /\ leaving = {} /\ todo = {}
  /\ socket = FALSE /\ exists = TRUE
  /\ sent = [k \in Kinds |-> 0]
  /\ pc = [t \in Threads |-> IF t = Timer THEN "none" ELSE "idle"]
  /\ arg = [t \in Apps |-> NoItem]
  /\ read = [t \in Apps |-> 0]
  /\ starts = 0
  /\ accepted = {} /\ handed = {} /\ lost = {}
  /\ astray = FALSE

Goto(t, step) == pc' = [pc EXCEPT ![t] = step]

-----------------------------------------------------------------------------
(***************************************************************************)
(* Batches leave: with the manager's mutex held the send callback runs     *)
(* send_data(), which connects if it must and may end without a socket.    *)
(***************************************************************************)
Waiting == {k \in Kinds : pending[k] # {}}
First(K) == IF "event" \in K THEN "event" ELSE "log"

\* The first of the kinds that are to be flushed leaves the queue.
Take(t, K) ==
  /\ owner' = t
  /\ leaving' = pending[First(K)]
  /\ pending' = [pending EXCEPT ![First(K)] = {}]
  /\ todo' = K \ {First(K)}
  /\ UNCHANGED <<key, running>>

SendData ==
  /\ key
  /\ leaving # {}
  /\ leaving' = {}
  /\ handed' = handed \union leaving
  /\ astray' = (astray \/ ~exists)
  /\ socket' \in BOOLEAN
  /\ UNCHANGED <<key, running, todo, exists, lost>>

\* serialize() throws: the batch is out of the queue, the mutex is free, and
\* the kind behind it is not flushed.
Throws ==
  /\ ~key
  /\ leaving' = {}
  /\ owner' = Nobody
  /\ todo' = {}
  /\ lost' = lost \union leaving
  /\ UNCHANGED <<key, running, pending, socket, exists, handed, astray>>

FlushTakes(t) ==
  /\ pc[t] \in DOMAIN After
  /\ owner = Nobody
  /\ Waiting # {}
  /\ Take(t, Waiting)
  /\ UNCHANGED <<initialized, network, counting, pc, starts>>

FlushSends(t) ==
  /\ pc[t] \in DOMAIN After
  /\ owner = t
  /\ SendData
  /\ IF todo = {}
     THEN owner' = Nobody /\ Goto(t, After[pc[t]])
     ELSE UNCHANGED <<owner, pc>>
  /\ UNCHANGED <<initialized, pending, counting, starts>>

\* The logs follow the events.
FlushGoesOn(t) ==
  /\ pc[t] \in DOMAIN After
  /\ owner = t
  /\ leaving = {} /\ todo # {}
  /\ Take(t, todo)
  /\ UNCHANGED <<initialized, network, counting, pc, starts>>

FlushThrows(t) ==
  /\ pc[t] \in DOMAIN AfterThrow
  /\ owner = t
  /\ Throws
  /\ Goto(t, AfterThrow[pc[t]])
  /\ UNCHANGED <<initialized, counting, starts>>

\* std::terminate: no thread takes another step.
FlushTerminates(t) ==
  /\ pc[t] \in DOMAIN After \ DOMAIN AfterThrow
  /\ owner = t
  /\ Throws
  /\ pc' = [u \in Threads |-> "dead"]
  /\ UNCHANGED <<initialized, counting, starts>>

FlushNothing(t) ==
  /\ pc[t] \in DOMAIN After
  /\ owner = Nobody
  /\ Waiting = {}
  /\ Goto(t, After[pc[t]])
  /\ UNCHANGED <<initialized, manager, network, counting, starts>>

-----------------------------------------------------------------------------
(***************************************************************************)
(* event(), the log calls and flush(): they look at initialized_ first,    *)
(* and the rest of the call comes later.  The items of a kind are numbered *)
(* as they come; one that was refused gives its number back.               *)
(***************************************************************************)
Untracked == Items \ (accepted \union {arg[u] : u \in Apps})

Track(t) ==
  /\ pc[t] = "idle"
  /\ pc[Owner] \notin {"dtorstop", "dtorjoin", "dtorflush", "gone"}
  /\ initialized
  /\ \E i \in Untracked :
       /\ \A j \in Untracked : i[1] = j[1] => i[2] <= j[2]
       /\ arg' = [arg EXCEPT ![t] = i]
  /\ Goto(t, "submit")
  /\ UNCHANGED <<initialized, manager, network, read, sent, accepted, starts>>

SubmitRefused(t) ==
  /\ pc[t] = "submit"
  /\ owner = Nobody
  /\ ~running
  /\ arg' = [arg EXCEPT ![t] = NoItem]
  /\ Goto(t, "idle")
  /\ UNCHANGED <<initialized, manager, network, read, sent, accepted, starts>>

\* Fault: running_ is not looked at.
SubmitStopped(t) ==
  /\ pc[t] = "submit"
  /\ owner = Nobody
  /\ Cardinality(pending[arg[t][1]]) < BatchSize
  /\ pending' = [pending EXCEPT ![arg[t][1]] = @ \union {arg[t]}]
  /\ accepted' = accepted \union {arg[t]}
  /\ Goto(t, "read")
  /\ UNCHANGED <<initialized, key, running, owner, leaving, todo, network, arg,
                 read, sent, starts>>

Submit(t) ==
  /\ pc[t] = "submit"
  /\ owner = Nobody
  /\ running
  /\ Cardinality(pending[arg[t][1]]) < BatchSize
  /\ pending' = [pending EXCEPT ![arg[t][1]] = @ \union {arg[t]}]
  /\ accepted' = accepted \union {arg[t]}
  /\ Goto(t, "read")
  /\ UNCHANGED <<initialized, key, running, owner, leaving, todo, network, arg,
                 read, sent, starts>>

\* The current batch of its kind is full and is sent first, with the mutex held.
SubmitTakes(t) ==
  /\ pc[t] = "submit"
  /\ owner = Nobody
  /\ running
  /\ Cardinality(pending[arg[t][1]]) >= BatchSize
  /\ Take(t, {arg[t][1]})
  /\ UNCHANGED <<initialized, network, counting, pc, starts>>

\* Fault: the new item goes into the batch that has left.
SubmitSendsOld(t) ==
  /\ pc[t] = "submit"
  /\ owner = t
  /\ SendData
  /\ owner' = Nobody
  /\ accepted' = accepted \union {arg[t]}
  /\ Goto(t, "read")
  /\ UNCHANGED <<initialized, pending, arg, read, sent, starts>>

SubmitSends(t) ==
  /\ pc[t] = "submit"
  /\ owner = t
  /\ SendData
  /\ owner' = Nobody
  /\ pending' = [pending EXCEPT ![arg[t][1]] = @ \union {arg[t]}]
  /\ accepted' = accepted \union {arg[t]}
  /\ Goto(t, "read")
  /\ UNCHANGED <<initialized, arg, read, sent, starts>>

\* The call catches what the full batch's flush threw; its own item was not
\* added and goes with it.
SubmitThrows(t) ==
  /\ pc[t] = "submit"
  /\ owner = t
  /\ Throws
  /\ arg' = [arg EXCEPT ![t] = NoItem]
  /\ Goto(t, "idle")
  /\ UNCHANGED <<initialized, read, sent, accepted, starts>>

\* stats_.events_sent++ or logs_sent++ of a plain field: a load and a store.
CountRead(t) ==
  /\ pc[t] = "read"
  /\ read' = [read EXCEPT ![t] = sent[arg[t][1]]]
  /\ Goto(t, "write")
  /\ UNCHANGED <<initialized, manager, network, arg, sent, accepted, starts>>

\* Fault: the counter is raised twice for an item.
CountWriteTwice(t) ==
  /\ pc[t] = "write"
  /\ sent' = [sent EXCEPT ![arg[t][1]] = read[t] + 2]
  /\ arg' = [arg EXCEPT ![t] = NoItem]
  /\ read' = [read EXCEPT ![t] = 0]
  /\ Goto(t, "idle")
  /\ UNCHANGED <<initialized, manager, network, accepted, starts>>

CountWrite(t) ==
  /\ pc[t] = "write"
  /\ sent' = [sent EXCEPT ![arg[t][1]] = read[t] + 1]
  /\ arg' = [arg EXCEPT ![t] = NoItem]
  /\ read' = [read EXCEPT ![t] = 0]
  /\ Goto(t, "idle")
  /\ UNCHANGED <<initialized, manager, network, accepted, starts>>

Flush(t) ==
  /\ pc[t] = "idle"
  /\ pc[Owner] \notin {"dtorstop", "dtorjoin", "dtorflush", "gone"}
  /\ initialized
  /\ Goto(t, "flush")
  /\ UNCHANGED <<initialized, manager, network, counting, starts>>

-----------------------------------------------------------------------------
(***************************************************************************)
(* initialize().                                                           *)
(***************************************************************************)
Initialize ==
  /\ pc[Owner] = "idle"
  /\ starts < MaxStarts
  /\ starts' = starts + 1
  /\ Goto(Owner, "start")
  /\ UNCHANGED <<initialized, manager, network, counting>>

\* batch_manager_.start(); a manager that runs is left alone.
Start ==
  /\ pc[Owner] = "start"
  /\ owner = Nobody
  /\ running' = TRUE
  /\ pc' = [pc EXCEPT ![Owner] = "started",
                      ![Timer] = IF running THEN @ ELSE "wait"]
  /\ UNCHANGED <<initialized, key, owner, pending, leaving, todo, network,
                 counting, starts>>

\* The std::thread cannot be made: running_ stays set, and initialize() catches
\* the exception and clears initialized_, which is clear already.
StartFails ==
  /\ pc[Owner] = "start"
  /\ owner = Nobody
  /\ ThreadsMayFail
  /\ ~running
  /\ running' = TRUE
  /\ initialized' = FALSE
  /\ Goto(Owner, "idle")
  /\ UNCHANGED <<key, owner, pending, leaving, todo, network, counting, starts>>

\* Since such a start() the manager runs without its timer thread.
Unmanned == running /\ pc[Timer] = "none"

Initialized ==
  /\ pc[Owner] = "started"
  /\ initialized' = TRUE
  /\ Goto(Owner, "idle")
  /\ UNCHANGED <<manager, network, counting, starts>>

\* The timer thread: with the mutex held it looks at running_, and when the
\* interval of a kind is over, or of both, it sends what is pending of them
\* before it waits again.
TimerTakes ==
  /\ pc[Timer] = "wait"
  /\ owner = Nobody
  /\ running
  /\ \E K \in (SUBSET Waiting) \ {{}} : Take(Timer, K)
  /\ Goto(Timer, "timerflush")
  /\ UNCHANGED <<initialized, network, counting, starts>>

\* Fault: the loop asks for the timer's own state and not for running_.
TimerGoesOn ==
  /\ pc[Timer] = "wait"
  /\ owner = Nobody
  /\ UNCHANGED vars

TimerStops ==
  /\ pc[Timer] = "wait"
  /\ owner = Nobody
  /\ ~running
  /\ Goto(Timer, "done")
  /\ UNCHANGED <<initialized, manager, network, counting, starts>>

-----------------------------------------------------------------------------
(***************************************************************************)
(* shutdown() and the destructor, which destroys the members in reverse    *)
(* order: network_client_ before batch_manager_, whose destructor stops    *)
(* it.                                                                     *)
(***************************************************************************)
\* Fault: the batch manager is not stopped.
ShutdownNetworkOnly ==
  /\ pc[Owner] = "idle"
  /\ initialized
  /\ Goto(Owner, "close")
  /\ UNCHANGED <<initialized, manager, network, counting, starts>>

Shutdown ==
  /\ pc[Owner] = "idle"
  /\ initialized
  /\ Goto(Owner, "shutflush")
  /\ UNCHANGED <<initialized, manager, network, counting, starts>>

\* running_ is cleared under the mutex; a manager that does not run is left
\* alone.
Stop ==
  /\ pc[Owner] \in {"stop", "dtorstop"}
  /\ owner = Nobody
  /\ running' = FALSE
  /\ Goto(Owner, IF pc[Owner] = "stop"
                 THEN IF running THEN "join" ELSE "close"
                 ELSE IF running THEN "dtorjoin" ELSE "gone")
  /\ UNCHANGED <<initialized, key, owner, pending, leaving, todo, network,
                 counting, starts>>

\* Fault: what is left is not flushed after the join.
JoinOnly ==
  /\ pc[Owner] \in {"join", "dtorjoin"}
  /\ pc[Timer] \in {"done", "none"}
  /\ pc' = [pc EXCEPT ![Owner] = IF @ = "join" THEN "close" ELSE "gone",
                      ![Timer] = "none"]
  /\ UNCHANGED <<initialized, manager, network, counting, starts>>

\* flush_thread_ is joined if it is a thread.
Join ==
  /\ pc[Owner] \in {"join", "dtorjoin"}
  /\ pc[Timer] \in {"done", "none"}
  /\ pc' = [pc EXCEPT ![Owner] = IF @ = "join" THEN "stopflush" ELSE "dtorflush",
                      ![Timer] = "none"]
  /\ UNCHANGED <<initialized, manager, network, counting, starts>>

\* network_client_.shutdown()
NetworkShutdown ==
  /\ pc[Owner] = "close"
  /\ socket' = FALSE
  /\ Goto(Owner, "end")
  /\ UNCHANGED <<initialized, manager, exists, handed, lost, astray, counting,
                 starts>>

ShutdownEnds ==
  /\ pc[Owner] = "end"
  /\ initialized' = FALSE
  /\ Goto(Owner, "idle")
  /\ UNCHANGED <<manager, network, counting, starts>>

\* No other thread may be in a call: that is the application's part.
Destroy ==
  /\ pc[Owner] = "idle"
  /\ \A t \in Apps : pc[t] = "idle"
  /\ ShutsDownFirst => ~initialized /\ ~Unmanned
  /\ exists' = FALSE
  /\ Goto(Owner, "dtorstop")
  /\ UNCHANGED <<initialized, manager, socket, handed, lost, astray, counting,
                 starts>>

-----------------------------------------------------------------------------
FlushStep(t) ==
  \/ FlushTakes(t) \/ FlushSends(t) \/ FlushGoesOn(t) \/ FlushNothing(t)
  \/ FlushThrows(t) \/ FlushTerminates(t)

AppStep(t) ==
  \/ SubmitRefused(t) \/ Submit(t) \/ SubmitTakes(t) \/ SubmitSends(t)
  \/ SubmitThrows(t)
  \/ CountRead(t) \/ CountWrite(t) \/ FlushStep(t)

TimerStep ==
  \/ TimerTakes \/ TimerStops
  \/ FlushSends(Timer) \/ FlushGoesOn(Timer) \/ FlushTerminates(Timer)

OwnerStep ==
  \/ Start \/ StartFails \/ Initialized
  \/ Stop \/ Join \/ NetworkShutdown \/ ShutdownEnds
  \/ FlushStep(Owner)

Next ==
  \/ \E t \in Apps : AppStep(t) \/ Flush(t) \/ Track(t)
  \/ TimerStep
  \/ OwnerStep \/ Initialize \/ Shutdown \/ Destroy

Spec == Init /\ [][Next]_vars

\* Threads inside a call go on, and each that keeps asking for the mutex
\* gets it; the timer wakes up every 100 ms; sends end.
FairSpec ==
  /\ Spec
  /\ \A t \in Apps : SF_vars(AppStep(t))
  /\ SF_vars(OwnerStep)
  /\ SF_vars(TimerStep)

-----------------------------------------------------------------------------
(***************************************************************************)
(* Properties.                                                             *)
(***************************************************************************)
\* Nothing that was accepted is forgotten: it is pending with its kind, being
\* sent, has been handed to the network client or, only if the key is no key,
\* went down with its batch; and never two of these (batch.cpp:756-832).
AcceptedIsKept ==
  LET queued == pending["event"] \union pending["log"]
  IN  /\ accepted = queued \union leaving \union handed \union lost
      /\ \A k \in Kinds : \A i \in pending[k] : i[1] = k
      /\ queued \intersect (leaving \union handed \union lost) = {}
      /\ leaving \intersect (handed \union lost) = {}
      /\ handed \intersect lost = {}
      /\ key => lost = {}

\* When shutdown() is over, whatever calls it met, no connection is open and the
\* batch manager has stopped, unless the key is no key or the last initialize()
\* failed.  A stopped manager has no timer thread and no events; and no logs,
\* unless the key is no key, whose exception for the events left them behind
\* (client.cpp:52-65).
ShutDownIsFinal ==
  pc[Owner] = "idle" /\ ~initialized /\ ~Unmanned =>
    /\ ~socket
    /\ key => ~running
    /\ ~running => pc[Timer] = "none" /\ pending["event"] = {}
    /\ key => leaving = {} /\ Waiting = {}

\* send_data() is never called on a destroyed network client.
NoUseAfterDestroy == ~astray

Taken(k) == {i \in accepted : i[1] = k}

\* Between calls events_sent and logs_sent say no more than was accepted, and
\* not nothing when something was; how many counts two threads can lose to each
\* other is all that is uncertain.
NeverOvercounted ==
  \A k \in Kinds :
    /\ sent[k] <= Cardinality(Taken(k))
    /\ (\A t \in Apps : pc[t] = "idle") /\ Taken(k) # {} => sent[k] > 0

\* With an exception out of the batch of events nobody is left to send this log.
LeftBehind(i) == ~running /\ i \in pending["log"]

\* An accepted item is handed to the network client, unless the manager has no
\* timer thread.  With a key that is no key, its batch ends in an exception, or
\* the process does, or the exception of another batch leaves it, if it is a
\* log, in a manager that has stopped.  It never waits in one that runs,
\* although a shutdown() that threw leaves the manager as it was.
AcceptedGoesOut ==
  \A i \in Items :
    i \in accepted ~>
      \/ i \in handed
      \/ Unmanned
      \/ ~key /\ (i \in lost \/ pc[Owner] = "dead" \/ LeftBehind(i))

\* initialize(), shutdown() and the destructor return, unless the key is no key
\* and has ended the process.
OwnerReturns ==
  pc[Owner] \notin {"idle", "gone", "dead"} ~>
    pc[Owner] \in {"idle", "gone"} \/ (~key /\ pc[Owner] = "dead")
=============================================================================
