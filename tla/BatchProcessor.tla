--------------------------- MODULE BatchProcessor ---------------------------
(***************************************************************************)
(* BatchProcessor and BatchStats of src/src/batch.cpp: threads hand whole  *)
(* batches to process_event_batch() or process_log_batch(), which run side *)
(* by side.  running_ is written under mutex_ and read without it; the     *)
(* counters are atomic one by one, so a snapshot() or a reset() meets them *)
(* in any state in between.  bytes_batched and the two times are counted   *)
(* next to items_batched and stand for nothing else; no action here        *)
(* touches flush_operations.                                               *)
(***************************************************************************)
EXTENDS Integers, Sequences, FiniteSets

CONSTANTS
  Callers,     \* threads in process_event_batch() and process_log_batch()
  MaxBatches,  \* bound: batches handed over
  Size,        \* items of a batch
  Results      \* how serialize() and the callback may end: "ok", "error" for
               \* an Error, "other" for any other exception

Batches == 1 .. MaxBatches
NoBatch == 0

ASSUME ProcessorAssumption ==
  /\ MaxBatches \in Nat
  /\ Size \in [Batches -> Nat]
  /\ Results \subseteq {"ok", "error", "other"}

\* The fields of BatchStats that are kept, in the order in which snapshot()
\* reads and reset() clears them.
Fields == <<"created", "sent", "failed", "items">>

VARIABLES
  running,  \* running_
  stats,    \* stats_
  pc,       \* where a caller is
  arg,      \* its batch
  reading,  \* how many fields the snapshot under way has read
  snap,     \* what it has read
  clearing, \* how many fields the reset under way has cleared
  fate,     \* history: what became of a batch
  told,     \* history: calls of error_callback_ about a batch
  late,     \* history: batches of a caller sent since stop() returned
  wiped     \* history: reset_stats() has been called

counting == <<stats, reading, snap, clearing, wiped>>
history == <<fate, told, late>>
vars == <<running, stats, pc, arg, reading, snap, clearing, fate, told, late, wiped>>

Init ==
  /\ running = FALSE
  /\ stats = [f \in {Fields[n] : n \in DOMAIN Fields} |-> 0]
  /\ pc = [t \in Callers |-> "idle"]
  /\ arg = [t \in Callers |-> NoBatch]
  /\ reading = 0
  /\ snap = stats
  /\ clearing = 0
  /\ fate = [b \in Batches |-> "new"]
  /\ told = [b \in Batches |-> 0]
  /\ late = [t \in Callers |-> 0]
  /\ wiped = FALSE

Goto(t, step) == pc' = [pc EXCEPT ![t] = step]
Count(f, n) == stats' = [stats EXCEPT ![f] = @ + n]
Becomes(t, what) == fate' = [fate EXCEPT ![arg[t]] = what]
Tell(t) == told' = [told EXCEPT ![arg[t]] = @ + 1]

-----------------------------------------------------------------------------
(***************************************************************************)
(* start() and stop(), which waits for nobody.                             *)
(***************************************************************************)
Start ==
  /\ running' = TRUE
  /\ late' = [t \in Callers |-> 0]
  /\ UNCHANGED <<pc, arg, counting, fate, told>>

Stop ==
  /\ running' = FALSE
  /\ UNCHANGED <<pc, arg, counting, history>>

-----------------------------------------------------------------------------
(***************************************************************************)
(* process_event_batch() and process_log_batch(), which are alike.         *)
(***************************************************************************)
Process(t) ==
  /\ pc[t] = "idle"
  /\ \E b \in Batches :
       /\ fate[b] = "new"
       /\ \A c \in 1 .. b - 1 : fate[c] # "new"
       /\ arg' = [arg EXCEPT ![t] = b]
       /\ fate' = [fate EXCEPT ![b] = "given"]
  /\ Goto(t, "check")
  /\ UNCHANGED <<running, counting, told, late>>

Refused(t) ==
  /\ pc[t] = "check"
  /\ ~running
  /\ Becomes(t, "refused")
  /\ Tell(t)
  /\ Goto(t, "idle")
  /\ UNCHANGED <<running, arg, counting, late>>

\* Fault: running_ is not looked at.
CreatedAlways(t) ==
  /\ pc[t] = "check"
  /\ Goto(t, "create")
  /\ UNCHANGED <<running, arg, counting, history>>

\* running_ is read, without the mutex, and not looked at again.
Created(t) ==
  /\ pc[t] = "check"
  /\ running
  /\ Goto(t, "create")
  /\ UNCHANGED <<running, arg, counting, history>>

CountCreated(t) ==
  /\ pc[t] = "create"
  /\ Count("created", 1)
  /\ Goto(t, "send")
  /\ UNCHANGED <<running, arg, reading, snap, clearing, wiped, history>>

\* The callback returns.
Send(t) ==
  /\ pc[t] = "send"
  /\ "ok" \in Results
  /\ Becomes(t, "sent")
  /\ late' = [late EXCEPT ![t] = IF running THEN @ ELSE @ + 1]
  /\ Goto(t, "sent")
  /\ UNCHANGED <<running, arg, counting, told>>

CountSent(t) ==
  /\ pc[t] = "sent"
  /\ Count("sent", 1)
  /\ Goto(t, "items")
  /\ UNCHANGED <<running, arg, reading, snap, clearing, wiped, history>>

CountItems(t) ==
  /\ pc[t] = "items"
  /\ Count("items", Size[arg[t]])
  /\ Goto(t, "idle")
  /\ UNCHANGED <<running, arg, reading, snap, clearing, wiped, history>>

\* serialize() or the callback throws an Error, which is caught.
Fail(t) ==
  /\ pc[t] = "send"
  /\ "error" \in Results
  /\ Becomes(t, "failed")
  /\ Goto(t, "failed")
  /\ UNCHANGED <<running, arg, counting, told, late>>

\* Fault: a failed batch is reported and not counted.
ReportOnly(t) ==
  /\ pc[t] = "failed"
  /\ Tell(t)
  /\ Goto(t, "idle")
  /\ UNCHANGED <<running, arg, counting, fate, late>>

\* Fault: the failed batch is processed once more.
ReportAndRetry(t) ==
  /\ pc[t] = "failed"
  /\ Count("failed", 1)
  /\ Tell(t)
  /\ Goto(t, "create")
  /\ UNCHANGED <<running, arg, reading, snap, clearing, wiped, fate, late>>

CountFailed(t) ==
  /\ pc[t] = "failed"
  /\ Count("failed", 1)
  /\ Goto(t, "report")
  /\ UNCHANGED <<running, arg, reading, snap, clearing, wiped, history>>

Report(t) ==
  /\ pc[t] = "report"
  /\ Tell(t)
  /\ Goto(t, "idle")
  /\ UNCHANGED <<running, arg, counting, fate, late>>

\* Any other exception leaves the call; the batch is counted as created and
\* as nothing else.
Escape(t) ==
  /\ pc[t] = "send"
  /\ "other" \in Results
  /\ Becomes(t, "escaped")
  /\ Goto(t, "idle")
  /\ UNCHANGED <<running, arg, counting, told, late>>

-----------------------------------------------------------------------------
(***************************************************************************)
(* get_stats() and reset_stats(): field by field.                          *)
(***************************************************************************)
ReadField ==
  /\ reading < Len(Fields)
  /\ reading' = reading + 1
  /\ LET f == Fields[reading + 1] IN snap' = [snap EXCEPT ![f] = stats[f]]
  /\ UNCHANGED <<running, pc, arg, stats, clearing, wiped, history>>

\* The snapshot is returned; another one may follow.
Snapshot ==
  /\ reading = Len(Fields)
  /\ reading' = 0
  /\ snap' = [f \in DOMAIN snap |-> 0]
  /\ UNCHANGED <<running, pc, arg, stats, clearing, wiped, history>>

\* One reset is enough for every order of its steps with the others'.
ClearField ==
  /\ clearing < Len(Fields)
  /\ clearing' = clearing + 1
  /\ stats' = [stats EXCEPT ![Fields[clearing + 1]] = 0]
  /\ wiped' = TRUE
  /\ UNCHANGED <<running, pc, arg, reading, snap, history>>

-----------------------------------------------------------------------------
Next ==
  \/ Start \/ Stop
  \/ \E t \in Callers :
       \/ Process(t) \/ Refused(t) \/ Created(t) \/ CountCreated(t)
       \/ Send(t) \/ CountSent(t) \/ CountItems(t)
       \/ Fail(t) \/ CountFailed(t) \/ Report(t) \/ Escape(t)
  \/ ReadField \/ Snapshot \/ ClearField

Spec == Init /\ [][Next]_vars

-----------------------------------------------------------------------------
(***************************************************************************)
(* Properties.                                                             *)
(***************************************************************************)
With(fates) == {b \in Batches : fate[b] \in fates}
ItemsOf(B) == Cardinality(UNION {{b} \X (1 .. Size[b]) : b \in B})
Quiet == \A t \in Callers : pc[t] = "idle"

\* When nobody is in a call every batch has been accounted for: the error
\* callback was told of each refused and each failed batch, once, and unless
\* a reset interfered the counters are the numbers of batches and items, with
\* those that another exception took out created and neither sent nor failed.
Accounted ==
  Quiet =>
    /\ \A b \in Batches : told[b] = IF fate[b] \in {"refused", "failed"} THEN 1 ELSE 0
    /\ ~wiped =>
         /\ stats.sent = Cardinality(With({"sent"}))
         /\ stats.failed = Cardinality(With({"failed"}))
         /\ stats.items = ItemsOf(With({"sent"}))
         /\ stats.created = stats.sent + stats.failed + Cardinality(With({"escaped"}))

\* stop() does not wait for the calls under way, but of each thread no more
\* than one batch goes out after it has returned.
AtMostOneLate == \A t \in Callers : late[t] <= 1

\* A snapshot may be of no single moment and may meet a half-done reset, but
\* it claims no more than there was: no batch is both sent and failed in it.
SnapshotInventsNothing ==
  reading = Len(Fields) =>
    /\ snap.sent + snap.failed <= Cardinality(With({"sent", "failed"}))
    /\ snap.items <= ItemsOf(With({"sent"}))
    /\ snap.created <= Cardinality(Batches \ With({"new", "refused"}))
=============================================================================
