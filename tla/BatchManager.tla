---------------------------- MODULE BatchManager ----------------------------
(***************************************************************************)
(* BatchManager::Impl of src/src/batch.cpp: application threads submit     *)
(* events and logs, a timer thread flushes them, and start() and stop()    *)
(* begin and end its life.                                                 *)
(*                                                                         *)
(* Every method body runs under mutex_, so one critical section is one     *)
(* action.  What is not under mutex_ is a step of its own: the read of     *)
(* running_ by the timer's while, and the three parts of stop().  The      *)
(* queue of a kind is filled and drained within one critical section; it   *)
(* is empty whenever mutex_ is free, and its size in the admission tests   *)
(* is 0.  Time is counted in wake-ups of the timer (100 ms).               *)
(***************************************************************************)
EXTENDS Integers, Sequences, FiniteSets

CONSTANTS
  Threads,         \* application threads
  Controllers,     \* those of them that call start() and stop()
  Items,           \* the events and logs they create, each submitted once
  Kind,            \* Kind[i]: "event" or "log"
  Size,            \* Size[i]: get_estimated_size()
  BatchSize,       \* event_batch_size and log_batch_size
  Interval,        \* event_flush_interval and log_flush_interval, in wake-ups
  MaxBatchBytes,   \* max_batch_size_bytes
  MaxQueueSize,    \* max_queue_size
  MaxTotalMemory,  \* MAX_TOTAL_MEMORY
  KeyValid,        \* api_key is 32 hexadecimal digits: serialize() succeeds
  CallbackResults, \* what send_callback_ may do: return ("sent"), throw an
                   \* Error ("failed"), throw anything else ("lost")
  ThreadsMayFail   \* the system may be out of threads: std::thread throws

Kinds == {"event", "log"}

ASSUME BatchManagerAssumption ==
  /\ Controllers \subseteq Threads
  /\ Kind \in [Items -> Kinds]
  /\ Size \in [Items -> Nat]
  /\ BatchSize \in [Kinds -> Nat]
  /\ Interval \in [Kinds -> Nat]
  /\ MaxBatchBytes \in Nat
  /\ MaxQueueSize \in Nat
  /\ MaxTotalMemory \in Nat
  /\ KeyValid \in BOOLEAN
  /\ CallbackResults \subseteq {"sent", "failed", "lost"}
  /\ ThreadsMayFail \in BOOLEAN

VARIABLES
  running,     \* running_
  timer,       \* flush_thread_: "none" when not joinable, "loop" before the
               \* unlocked read of running_, "wait" in wait_for, "done" when
               \* its function has returned and nobody has joined it
  since,       \* wake-ups since the timer last flushed a kind, capped
  batch,       \* items_ of event_batch_ and log_batch_
  total,       \* total_size_ of the two
  stats,       \* batches_sent, batches_failed and items_batched of a kind
  pc,          \* where a thread is in stop(): "idle" when in no method
  terminated,  \* std::terminate was called
  unmade,      \* history: a start() could not make the timer thread
  accepted,    \* history: per kind, the items submit returned true for
  out,         \* history: per kind, the items popped off the queue
  fate         \* history: what became of an item

lifecycle == <<running, timer, pc, terminated, unmade>>
history == <<accepted, out, fate>>
vars == <<running, timer, since, batch, total, stats, pc, terminated,
          unmade, accepted, out, fate>>

Fates == {"new", "refused", "batched", "sent", "failed", "lost"}

TypeOK ==
  /\ running \in BOOLEAN
  /\ timer \in {"none", "loop", "wait", "done"}
  /\ since \in [Kinds -> Nat]
  /\ batch \in [Kinds -> Seq(Items)]
  /\ total \in [Kinds -> Nat]
  /\ stats \in [Kinds -> [sent : Nat, failed : Nat, items : Nat]]
  /\ pc \in [Threads -> {"idle", "joining", "flushing"}]
  /\ terminated \in BOOLEAN
  /\ unmade \in BOOLEAN
  /\ accepted \in [Kinds -> Seq(Items)]
  /\ out \in [Kinds -> Seq(Items)]
  /\ fate \in [Items -> Fates]

Init ==
  /\ running = FALSE
  /\ timer = "none"
  /\ since = [k \in Kinds |-> 0]
  /\ batch = [k \in Kinds |-> <<>>]
  /\ total = [k \in Kinds |-> 0]
  /\ stats = [k \in Kinds |-> [sent |-> 0, failed |-> 0, items |-> 0]]
  /\ pc = [t \in Threads |-> "idle"]
  /\ terminated = FALSE
  /\ unmade = FALSE
  /\ accepted = [k \in Kinds |-> <<>>]
  /\ out = [k \in Kinds |-> <<>>]
  /\ fate = [i \in Items |-> "new"]

-----------------------------------------------------------------------------
(***************************************************************************)
(* Flushing.  process_queue pops the batch, serializes it and calls        *)
(* send_callback_.  With an invalid key serialize() throws                 *)
(* std::invalid_argument, which is not an Error: the popped batch is       *)
(* destroyed and nothing is counted.                                       *)
(***************************************************************************)
Results == IF KeyValid THEN CallbackResults ELSE {"lost"}

\* A result for each kind.
ResultMaps == [Kinds -> Results]

\* Fault: flush_internal() returns after an event batch.
PoppedFirstOnly(K, res) ==
  {k \in K : /\ batch[k] # <<>>
             /\ ~(k = "log" /\ "event" \in K /\ batch["event"] # <<>>)}

\* Of the kinds asked for, those flush_event_batch() and flush_log_batch()
\* pop, in this order: an exception out of the first skips the second.
Popped(K, res) ==
  {k \in K : /\ batch[k] # <<>>
             /\ ~(/\ k = "log"
                  /\ "event" \in K
                  /\ batch["event"] # <<>>
                  /\ res["event"] = "lost")}

Escapes(P, res) == \E k \in P : res[k] = "lost"

\* Fault: the batch that was handed on stays the current one.
EmptiedNever(P) == batch

\* Fault: both batches are replaced whichever was flushed.
EmptiedBoth(P) == [k \in Kinds |-> IF P # {} THEN <<>> ELSE batch[k]]

Emptied(P) == [k \in Kinds |-> IF k \in P THEN <<>> ELSE batch[k]]

Zeroed(P) == [k \in Kinds |-> IF k \in P THEN 0 ELSE total[k]]

\* Fault: newer batches overtake older ones.
HandedOnFirst(P) ==
  [k \in Kinds |-> IF k \in P THEN batch[k] \o out[k] ELSE out[k]]

HandedOn(P) == [k \in Kinds |-> IF k \in P THEN out[k] \o batch[k] ELSE out[k]]

Fated(P, res) ==
  [i \in Items |-> IF fate[i] = "batched" /\ Kind[i] \in P
                   THEN res[Kind[i]] ELSE fate[i]]

\* Fault: items_batched counts failed batches as well.
CountedAlways(s, k, result) ==
  IF result = "sent" THEN [s EXCEPT !.sent = @ + 1, !.items = @ + Len(batch[k])]
  ELSE IF result = "failed" THEN [s EXCEPT !.failed = @ + 1, !.items = @ + Len(batch[k])]
  ELSE s

Counted(s, k, result) ==
  IF result = "sent" THEN [s EXCEPT !.sent = @ + 1, !.items = @ + Len(batch[k])]
  ELSE IF result = "failed" THEN [s EXCEPT !.failed = @ + 1]
  ELSE s

\* The batches of the kinds in P are replaced by new ones and handed on.
FlushBatches(P, res) ==
  /\ batch' = Emptied(P)
  /\ total' = Zeroed(P)
  /\ out' = HandedOn(P)
  /\ fate' = Fated(P, res)
  /\ stats' = [k \in Kinds |-> IF k \in P THEN Counted(stats[k], k, res[k])
                                          ELSE stats[k]]

-----------------------------------------------------------------------------
(***************************************************************************)
(* submit_event() and submit_log().                                        *)
(***************************************************************************)
\* Fault: off by one in both limits.
IsFullLate(k) ==
  \/ Len(batch[k]) > BatchSize[k]
  \/ total[k] > MaxBatchBytes

IsFull(k) ==
  \/ Len(batch[k]) >= BatchSize[k]
  \/ total[k] >= MaxBatchBytes

\* Fault: each kind is tested against the limit on its own.
FitsInOwnMemory(i) == total[Kind[i]] + Size[i] <= MaxTotalMemory

FitsInMemory(i) == total["event"] + total["log"] + Size[i] <= MaxTotalMemory

Admitted(i) ==
  /\ running
  /\ MaxQueueSize > 0
  /\ FitsInMemory(i)

Ready(t) == ~terminated /\ pc[t] = "idle"

SubmitRefused(t, i) ==
  /\ Ready(t)
  /\ fate[i] = "new"
  /\ ~Admitted(i)
  /\ fate' = [fate EXCEPT ![i] = "refused"]
  /\ UNCHANGED <<lifecycle, since, batch, total, stats, accepted, out>>

\* The current batch is full: it is flushed first.  When that throws out of
\* submit, the new item is destroyed with it.
RoomFor(i) == IF IsFull(Kind[i]) THEN {Kind[i]} ELSE {}

Submit(t, i) ==
  /\ Ready(t)
  /\ fate[i] = "new"
  /\ Admitted(i)
  /\ \E res \in ResultMaps :
       LET k == Kind[i]
           P == Popped(RoomFor(i), res)
       IN  /\ ~Escapes(P, res)
           /\ batch' = [Emptied(P) EXCEPT ![k] = Append(@, i)]
           /\ total' = [Zeroed(P) EXCEPT ![k] = @ + Size[i]]
           /\ out' = HandedOn(P)
           /\ accepted' = [accepted EXCEPT ![k] = Append(@, i)]
           /\ fate' = [Fated(P, res) EXCEPT ![i] = "batched"]
           /\ stats' = [n \in Kinds |-> IF n \in P THEN Counted(stats[n], n, res[n])
                                                  ELSE stats[n]]
  /\ UNCHANGED <<lifecycle, since>>

SubmitThrows(t, i) ==
  /\ Ready(t)
  /\ fate[i] = "new"
  /\ Admitted(i)
  /\ \E res \in ResultMaps :
       LET P == Popped(RoomFor(i), res)
       IN  /\ Escapes(P, res)
           /\ batch' = Emptied(P)
           /\ total' = Zeroed(P)
           /\ out' = HandedOn(P)
           /\ fate' = [Fated(P, res) EXCEPT ![i] = "lost"]
  /\ UNCHANGED <<lifecycle, since, stats, accepted>>

\* flush(), by any thread and in any state of the manager.
Flush(t) ==
  /\ Ready(t)
  /\ \E res \in ResultMaps : FlushBatches(Popped(Kinds, res), res)
  /\ UNCHANGED <<lifecycle, since, accepted>>

-----------------------------------------------------------------------------
(***************************************************************************)
(* start() and stop().                                                     *)
(***************************************************************************)
Joinable == timer # "none"

Start(t) ==
  /\ Ready(t)
  /\ ~running
  /\ ~Joinable
  /\ running' = TRUE
  /\ timer' = "loop"
  /\ since' = [k \in Kinds |-> 0]
  /\ UNCHANGED <<batch, total, stats, pc, terminated, unmade, history>>

\* Assigning to a std::thread that is still joinable ends the process.
StartTerminates(t) ==
  /\ Ready(t)
  /\ ~running
  /\ Joinable
  /\ running' = TRUE
  /\ terminated' = TRUE
  /\ UNCHANGED <<timer, since, batch, total, stats, pc, unmade, history>>

\* The std::thread cannot be made: its constructor throws before anything is
\* assigned, and running_ stays TRUE without a new timer.
StartFails(t) ==
  /\ ThreadsMayFail
  /\ Ready(t)
  /\ ~running
  /\ running' = TRUE
  /\ unmade' = TRUE
  /\ UNCHANGED <<timer, since, batch, total, stats, pc, terminated, history>>

\* Fault: stop() goes on when the manager does not run.
StopBeginAlways(t) ==
  /\ Ready(t)
  /\ running' = FALSE
  /\ pc' = [pc EXCEPT ![t] = "joining"]
  /\ UNCHANGED <<timer, since, batch, total, stats, terminated, unmade, history>>

\* running_ is cleared under mutex_, which is then released ...
StopBegin(t) ==
  /\ Ready(t)
  /\ running
  /\ running' = FALSE
  /\ pc' = [pc EXCEPT ![t] = "joining"]
  /\ UNCHANGED <<timer, since, batch, total, stats, terminated, unmade, history>>

\* Fault: the ended thread is not joined.
StopWithoutJoin(t) ==
  /\ ~terminated
  /\ pc[t] = "joining"
  /\ timer \in {"none", "done"}
  /\ pc' = [pc EXCEPT ![t] = "flushing"]
  /\ UNCHANGED <<running, timer, since, batch, total, stats, terminated, unmade, history>>

\* ... the timer thread is joined ...
StopJoin(t) ==
  /\ ~terminated
  /\ pc[t] = "joining"
  /\ timer \in {"none", "done"}
  /\ timer' = "none"
  /\ pc' = [pc EXCEPT ![t] = "flushing"]
  /\ UNCHANGED <<running, since, batch, total, stats, terminated, unmade, history>>

\* ... and what is left is flushed.  An exception leaves stop() all the same.
StopFlush(t) ==
  /\ ~terminated
  /\ pc[t] = "flushing"
  /\ \E res \in ResultMaps : FlushBatches(Popped(Kinds, res), res)
  /\ pc' = [pc EXCEPT ![t] = "idle"]
  /\ UNCHANGED <<running, timer, since, terminated, unmade, accepted>>

-----------------------------------------------------------------------------
(***************************************************************************)
(* flush_timer_thread().                                                   *)
(***************************************************************************)
\* while (running_): read without mutex_, so a FALSE written by stop() may
\* not be seen yet.
TimerLoop ==
  /\ ~terminated
  /\ timer = "loop"
  /\ \/ timer' = "wait"
     \/ ~running /\ timer' = "done"
  /\ UNCHANGED <<running, since, batch, total, stats, pc, terminated, unmade, history>>

\* Fault: the wait has no timeout and misses the notification.
TimerMissesStop ==
  /\ timer = "wait"
  /\ ~running
  /\ UNCHANGED vars

\* if (!running_) break, after the wait and under mutex_.
TimerStops ==
  /\ ~terminated
  /\ timer = "wait"
  /\ ~running
  /\ timer' = "done"
  /\ UNCHANGED <<running, since, batch, total, stats, pc, terminated, unmade, history>>

\* Fault: the clock is read once.
ElapsedNever(k) == since[k]

\* The wait ended at least 100 ms after it began, so each interval has grown.
Elapsed(k) == IF since[k] < Interval[k] THEN since[k] + 1 ELSE since[k]

Due(k) == Elapsed(k) >= Interval[k]

\* Nothing catches what escapes from a flush on this thread.
TimerFlush ==
  /\ ~terminated
  /\ timer = "wait"
  /\ running
  /\ \E res \in ResultMaps :
       LET P == Popped({k \in Kinds : Due(k)}, res)
       IN  /\ FlushBatches(P, res)
           /\ since' = [k \in Kinds |-> IF k \in P THEN 0 ELSE Elapsed(k)]
           /\ terminated' = Escapes(P, res)
  /\ timer' = "loop"
  /\ UNCHANGED <<running, pc, unmade, accepted>>

-----------------------------------------------------------------------------
Timer == TimerLoop \/ TimerStops \/ TimerFlush

Next ==
  \/ \E t \in Threads, i \in Items :
       SubmitRefused(t, i) \/ Submit(t, i) \/ SubmitThrows(t, i)
  \/ \E t \in Threads : Flush(t)
  \/ \E t \in Controllers :
       \/ Start(t) \/ StartTerminates(t) \/ StartFails(t)
       \/ StopBegin(t) \/ StopJoin(t) \/ StopFlush(t)
  \/ Timer

Spec == Init /\ [][Next]_vars

\* The operating system runs the timer thread and a thread inside stop(); a
\* method that is entered gets mutex_ and returns.  Applications owe nothing.
FairSpec ==
  /\ Spec
  /\ WF_vars(Timer)
  /\ \A t \in Controllers : WF_vars(StopJoin(t)) /\ WF_vars(StopFlush(t))
-----------------------------------------------------------------------------
(***************************************************************************)
(* Properties.                                                             *)
(***************************************************************************)
\* The events and logs that wait in the manager never exceed
\* MAX_TOTAL_MEMORY together: the test adds both batches and the new item,
\* and nothing else makes a batch grow (src/src/batch.cpp:610, 855).
MemoryBounded == total["event"] + total["log"] <= MaxTotalMemory

\* is_full() is asked before an item is added, so a batch passes a limit by
\* its last item only; a batch of one item is always possible.
BatchWithinLimits ==
  \A k \in Kinds :
    Len(batch[k]) > 1 =>
      /\ Len(batch[k]) <= BatchSize[k]
      /\ total[k] - Size[batch[k][Len(batch[k])]] < MaxBatchBytes

\* What submit accepted has left or waits, once each and in the order of
\* acceptance, whatever exceptions and restarts happened meanwhile.
NoLossNoReorder == \A k \in Kinds : accepted[k] = out[k] \o batch[k]

Waiting(i) == \E n \in DOMAIN batch[Kind[i]] : batch[Kind[i]][n] = i

\* An item is in a batch exactly while its fate is open, and in the batch of
\* its own kind.
FateMatchesBatch ==
  /\ \A i \in Items : fate[i] = "batched" <=> Waiting(i)
  /\ \A k \in Kinds : \A n \in DOMAIN batch[k] : Kind[batch[k][n]] = k

Stopping(t) == pc[t] # "idle"

\* When stop() has returned to every caller nothing waits in the manager,
\* provided no exception came out of a flush: no submit slips in between the
\* cleared flag, the join and the final flush.
StoppedMeansDrained ==
  /\ ~running
  /\ ~terminated
  /\ \A t \in Threads : ~Stopping(t)
  /\ \A i \in Items : fate[i] # "lost"
  => \A k \in Kinds : batch[k] = <<>>

Joining(t) == pc[t] = "joining"

\* A timer thread is never left behind: while flush_thread_ is joinable the
\* manager runs or a thread is about to join it.  As long as every start() got
\* its thread it is not joined twice either: who cleared running_ finds it
\* joinable, and is alone with it until it is joined.  (After a start() that
\* failed while another thread joins, a second stop() may join as well.)
JoinedOnce ==
  ~terminated =>
    /\ Joinable => running \/ \E t \in Threads : Joining(t)
    /\ ~unmade =>
         /\ running \/ (\E t \in Threads : Joining(t)) => Joinable
         /\ \A t, u \in Threads : Joining(t) /\ Joining(u) => t = u
         /\ running => \A t \in Threads : ~Joining(t)

\* start() and stop() from one thread never assign to a joinable std::thread,
\* and no exception escapes on the timer thread.
NeverTerminates == ~terminated

WithFate(k, r) == {i \in Items : Kind[i] = k /\ fate[i] = r}

\* n batches, none of them empty, can have held the items of I.
BatchesOf(n, I) == n <= Cardinality(I) /\ (I # {} => n > 0)

\* The statistics tell what became of the items: items_batched counts those of
\* the batches that were sent, and nothing of a batch that failed; an item that
\* was sent or failed shows in batches_sent or batches_failed, and neither of
\* them counts a batch that held nothing (src/src/batch.cpp:772-816).
StatsMatchFates ==
  \A k \in Kinds :
    /\ stats[k].items = Cardinality(WithFate(k, "sent"))
    /\ BatchesOf(stats[k].sent, WithFate(k, "sent"))
    /\ BatchesOf(stats[k].failed, WithFate(k, "failed"))

\* All items waiting in a batch leave in the same step with the same result,
\* and a result is final: nothing is sent again.
OneResultPerBatch ==
  [][ /\ \A i, j \in Items :
           /\ Kind[i] = Kind[j]
           /\ fate[i] = "batched" /\ fate'[i] # "batched"
           /\ fate[j] = "batched"
           => fate'[j] = fate'[i]
      /\ \A i \in Items : fate[i] \notin {"new", "batched"} => fate'[i] = fate[i]
    ]_vars

\* stop() returns: the timer thread sees the cleared flag and ends.
StopReturns == \A t \in Controllers : Stopping(t) ~> ~Stopping(t)

\* What an Outbox knows of an item: the result its batch left with.
HasLeft(i) == \E n \in DOMAIN out[Kind[i]] : out[Kind[i]][n] = i
ResultOf(i) == IF fate[i] \in {"sent", "failed"} THEN fate[i]
               ELSE IF HasLeft(i) THEN "lost" ELSE "none"

\* The manager is an Outbox.
Box == INSTANCE Outbox WITH
  pending <- batch,
  gone    <- out,
  result  <- [i \in Items |-> ResultOf(i)],
  Results <- {"sent", "failed", "lost"}

\* Every step keeps the promise of an Outbox.
KeepsOutbox == Box!SafeSpec

\* Under the fairness above nothing waits for ever either.
LiveOutbox == Box!Spec

=============================================================================
