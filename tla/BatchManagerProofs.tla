------------------------- MODULE BatchManagerProofs -------------------------
(***************************************************************************)
(* Proofs about BatchManager for every set of threads and items, every     *)
(* configuration and every behaviour of the send callback.                 *)
(***************************************************************************)
EXTENDS BatchManager, SequenceTheorems, FiniteSetTheorems, TLAPS

\* Items have the kinds and sizes their assumption says.
LEMMA ItemFacts ==
  \A i \in Items : Kind[i] \in Kinds /\ Size[i] \in Nat
BY BatchManagerAssumption

\* Emptying the batches of some kinds keeps the types.
LEMMA EmptiedType ==
  ASSUME NEW P, batch \in [Kinds -> Seq(Items)]
  PROVE  Emptied(P) \in [Kinds -> Seq(Items)]
<1>1. <<>> \in Seq(Items)
  BY EmptySeq
<1> QED BY <1>1 DEF Emptied

\* Taking items out of some batches leaves every byte count a number.
LEMMA ZeroedType ==
  ASSUME NEW P, total \in [Kinds -> Nat]
  PROVE  Zeroed(P) \in [Kinds -> Nat]
BY DEF Zeroed

\* What has left stays a sequence of items, per stream.
LEMMA HandedOnType ==
  ASSUME NEW P, batch \in [Kinds -> Seq(Items)], out \in [Kinds -> Seq(Items)]
  PROVE  HandedOn(P) \in [Kinds -> Seq(Items)]
<1>1. \A k \in Kinds : out[k] \o batch[k] \in Seq(Items)
  BY ConcatProperties
<1> QED BY <1>1 DEF HandedOn

\* Recording the result of a flush gives every item one of the known fates.
LEMMA FatedType ==
  ASSUME NEW P \in SUBSET Kinds, NEW res \in ResultMaps, fate \in [Items -> Fates]
  PROVE  Fated(P, res) \in [Items -> Fates]
<1>1. Results \subseteq Fates
  BY BatchManagerAssumption DEF Results, Fates
<1> QED BY <1>1, ItemFacts DEF Fated, ResultMaps

\* Counting one batch keeps the three counters of BatchStats numbers.
LEMMA CountedType ==
  ASSUME NEW k \in Kinds, NEW r, batch \in [Kinds -> Seq(Items)],
         NEW s \in [sent : Nat, failed : Nat, items : Nat]
  PROVE  Counted(s, k, r) \in [sent : Nat, failed : Nat, items : Nat]
<1>1. Len(batch[k]) \in Nat
  BY LenProperties
<1>2. CASE r = "sent"
  <2>1. s.sent + 1 \in Nat /\ s.items + Len(batch[k]) \in Nat
    BY <1>1
  <2>2. [s EXCEPT !.sent = s.sent + 1, !.items = s.items + Len(batch[k])]
          \in [sent : Nat, failed : Nat, items : Nat]
    BY <2>1
  <2> QED BY <1>2, <2>2 DEF Counted
<1>3. CASE r = "failed"
  BY <1>3 DEF Counted
<1>4. CASE r # "sent" /\ r # "failed"
  BY <1>4 DEF Counted
<1> QED BY <1>2, <1>3, <1>4

\* The batches a flush takes out are batches of the manager.
LEMMA PoppedKinds ==
  ASSUME NEW K \in SUBSET Kinds, NEW res
  PROVE  /\ Popped(K, res) \in SUBSET Kinds
         /\ \A k \in Popped(K, res) : batch[k] # <<>>
BY DEF Popped

\* A flush keeps the types of everything it changes.
LEMMA FlushType ==
  ASSUME TypeOK, NEW P \in SUBSET Kinds, NEW res \in ResultMaps,
         FlushBatches(P, res)
  PROVE  /\ batch' \in [Kinds -> Seq(Items)]
         /\ total' \in [Kinds -> Nat]
         /\ out' \in [Kinds -> Seq(Items)]
         /\ fate' \in [Items -> Fates]
         /\ stats' \in [Kinds -> [sent : Nat, failed : Nat, items : Nat]]
<1>1. \A k \in Kinds : Counted(stats[k], k, res[k])
                         \in [sent : Nat, failed : Nat, items : Nat]
  BY CountedType DEF TypeOK
<1>2. stats' \in [Kinds -> [sent : Nat, failed : Nat, items : Nat]]
  BY <1>1 DEF TypeOK, FlushBatches
<1> QED
  BY <1>2, EmptiedType, ZeroedType, HandedOnType, FatedType
  DEF TypeOK, FlushBatches

\* Making room for an item flushes at most the batch of its own kind.
LEMMA RoomForKinds == \A i \in Items : RoomFor(i) \in SUBSET Kinds
BY ItemFacts DEF RoomFor

-----------------------------------------------------------------------------
\* Every variable keeps its type.
THEOREM TypeCorrect == Spec => []TypeOK
<1>1. Init => TypeOK
  <2>1. <<>> \in Seq(Items)
    BY EmptySeq
  <2>2. [sent |-> 0, failed |-> 0, items |-> 0] \in [sent : Nat, failed : Nat, items : Nat]
    OBVIOUS
  <2> SUFFICES ASSUME Init PROVE TypeOK
    OBVIOUS
  <2>3. stats \in [Kinds -> [sent : Nat, failed : Nat, items : Nat]]
    BY <2>2 DEF Init
  <2>4. /\ batch \in [Kinds -> Seq(Items)]
        /\ accepted \in [Kinds -> Seq(Items)]
        /\ out \in [Kinds -> Seq(Items)]
    BY <2>1 DEF Init
  <2>5. /\ running \in BOOLEAN /\ terminated \in BOOLEAN /\ unmade \in BOOLEAN
        /\ timer \in {"none", "loop", "wait", "done"}
        /\ since \in [Kinds -> Nat] /\ total \in [Kinds -> Nat]
        /\ pc \in [Threads -> {"idle", "joining", "flushing"}]
        /\ fate \in [Items -> Fates]
    BY DEF Init, Fates
  <2> QED BY <2>3, <2>4, <2>5 DEF TypeOK
<1>2. TypeOK /\ [Next]_vars => TypeOK'
  <2> SUFFICES ASSUME TypeOK, [Next]_vars PROVE TypeOK'
    OBVIOUS
  <2>1. CASE UNCHANGED vars
    BY <2>1 DEF TypeOK, vars
  <2>2. ASSUME NEW t \in Threads, NEW i \in Items, SubmitRefused(t, i)
        PROVE  TypeOK'
    BY <2>2 DEF SubmitRefused, TypeOK, lifecycle, Fates
  <2>3. ASSUME NEW t \in Threads, NEW i \in Items, Submit(t, i)
        PROVE  TypeOK'
    <3> DEFINE k == Kind[i]
    <3>1. PICK res \in ResultMaps :
            LET P == Popped(RoomFor(i), res)
            IN  /\ batch' = [Emptied(P) EXCEPT ![k] = Append(@, i)]
                /\ total' = [Zeroed(P) EXCEPT ![k] = @ + Size[i]]
                /\ out' = HandedOn(P)
                /\ accepted' = [accepted EXCEPT ![k] = Append(@, i)]
                /\ fate' = [Fated(P, res) EXCEPT ![i] = "batched"]
                /\ stats' = [n \in Kinds |-> IF n \in P THEN Counted(stats[n], n, res[n])
                                                       ELSE stats[n]]
      BY <2>3 DEF Submit
    <3> DEFINE P == Popped(RoomFor(i), res)
    <3>2. P \in SUBSET Kinds
      BY PoppedKinds, RoomForKinds
    <3>3. k \in Kinds /\ Size[i] \in Nat
      BY ItemFacts
    <3> HIDE DEF P, k
    <3>4. batch' \in [Kinds -> Seq(Items)]
      <4>1. Emptied(P) \in [Kinds -> Seq(Items)]
        BY EmptiedType DEF TypeOK
      <4>2. Append(Emptied(P)[k], i) \in Seq(Items)
        BY <4>1, <3>3, AppendProperties
      <4> QED BY <4>1, <4>2, <3>1, <3>3 DEF P
    <3>5. total' \in [Kinds -> Nat]
      <4>1. Zeroed(P) \in [Kinds -> Nat]
        BY ZeroedType DEF TypeOK
      <4> QED BY <4>1, <3>1, <3>3 DEF P
    <3>6. out' \in [Kinds -> Seq(Items)]
      BY <3>1, HandedOnType DEF TypeOK, P
    <3>7. accepted' \in [Kinds -> Seq(Items)]
      <4>1. Append(accepted[k], i) \in Seq(Items)
        BY <3>3, AppendProperties DEF TypeOK
      <4> QED BY <4>1, <3>1, <3>3 DEF TypeOK
    <3>8. fate' \in [Items -> Fates]
      <4>1. Fated(P, res) \in [Items -> Fates]
        BY <3>2, FatedType DEF TypeOK
      <4> QED BY <4>1, <3>1 DEF P, Fates
    <3>9. stats' \in [Kinds -> [sent : Nat, failed : Nat, items : Nat]]
      <4>1. \A n \in Kinds : Counted(stats[n], n, res[n])
                               \in [sent : Nat, failed : Nat, items : Nat]
        BY CountedType DEF TypeOK
      <4> QED BY <4>1, <3>1 DEF TypeOK, P
    <3>10. UNCHANGED <<running, timer, pc, terminated, unmade, since>>
      BY <2>3 DEF Submit, lifecycle
    <3> QED BY <3>4, <3>5, <3>6, <3>7, <3>8, <3>9, <3>10 DEF TypeOK
  <2>4. ASSUME NEW t \in Threads, NEW i \in Items, SubmitThrows(t, i)
        PROVE  TypeOK'
    <3>1. PICK res \in ResultMaps :
            LET P == Popped(RoomFor(i), res)
            IN  /\ batch' = Emptied(P)
                /\ total' = Zeroed(P)
                /\ out' = HandedOn(P)
                /\ fate' = [Fated(P, res) EXCEPT ![i] = "lost"]
      BY <2>4 DEF SubmitThrows
    <3> DEFINE P == Popped(RoomFor(i), res)
    <3>2. P \in SUBSET Kinds
      BY PoppedKinds, RoomForKinds
    <3> HIDE DEF P
    <3>3. Fated(P, res) \in [Items -> Fates]
      BY <3>2, FatedType DEF TypeOK
    <3>4. fate' \in [Items -> Fates]
      BY <3>1, <3>3 DEF P, Fates
    <3>5. UNCHANGED <<running, timer, pc, terminated, unmade, since, stats, accepted>>
      BY <2>4 DEF SubmitThrows, lifecycle
    <3>6. /\ batch' \in [Kinds -> Seq(Items)]
          /\ total' \in [Kinds -> Nat]
          /\ out' \in [Kinds -> Seq(Items)]
      BY <3>1, EmptiedType, ZeroedType, HandedOnType DEF TypeOK, P
    <3> QED BY <3>4, <3>5, <3>6 DEF TypeOK
  <2>5. ASSUME NEW t \in Threads, Flush(t)
        PROVE  TypeOK'
    <3>1. PICK res \in ResultMaps : FlushBatches(Popped(Kinds, res), res)
      BY <2>5 DEF Flush
    <3>2. UNCHANGED <<running, timer, pc, terminated, unmade, since, accepted>>
      BY <2>5 DEF Flush, lifecycle
    <3> QED BY <3>1, <3>2, PoppedKinds, FlushType DEF TypeOK
  <2>6. ASSUME NEW t \in Controllers, Start(t)
        PROVE  TypeOK'
    BY <2>6 DEF Start, TypeOK, history
  <2>7. ASSUME NEW t \in Controllers, StartTerminates(t)
        PROVE  TypeOK'
    BY <2>7 DEF StartTerminates, TypeOK, history
  <2>14. ASSUME NEW t \in Controllers, StartFails(t)
         PROVE  TypeOK'
    BY <2>14 DEF StartFails, TypeOK, history
  <2>8. ASSUME NEW t \in Controllers, StopBegin(t)
        PROVE  TypeOK'
    BY <2>8 DEF StopBegin, TypeOK, history
  <2>9. ASSUME NEW t \in Controllers, StopJoin(t)
        PROVE  TypeOK'
    BY <2>9 DEF StopJoin, TypeOK, history
  <2>10. ASSUME NEW t \in Controllers, StopFlush(t)
         PROVE  TypeOK'
    <3>1. PICK res \in ResultMaps : FlushBatches(Popped(Kinds, res), res)
      BY <2>10 DEF StopFlush
    <3>2. /\ pc' \in [Threads -> {"idle", "joining", "flushing"}]
          /\ UNCHANGED <<running, timer, terminated, unmade, since, accepted>>
      BY <2>10 DEF StopFlush, TypeOK
    <3> QED BY <3>1, <3>2, PoppedKinds, FlushType DEF TypeOK
  <2>11. CASE TimerLoop
    BY <2>11 DEF TimerLoop, TypeOK, history
  <2>12. CASE TimerStops
    BY <2>12 DEF TimerStops, TypeOK, history
  <2>13. CASE TimerFlush
    <3>1. PICK res \in ResultMaps :
            LET P == Popped({k \in Kinds : Due(k)}, res)
            IN  /\ FlushBatches(P, res)
                /\ since' = [k \in Kinds |-> IF k \in P THEN 0 ELSE Elapsed(k)]
                /\ terminated' = Escapes(P, res)
      BY <2>13 DEF TimerFlush
    <3> DEFINE P == Popped({k \in Kinds : Due(k)}, res)
    <3>2. P \in SUBSET Kinds
      BY PoppedKinds
    <3>3. \A k \in Kinds : Elapsed(k) \in Nat
      BY BatchManagerAssumption DEF Elapsed, TypeOK
    <3> HIDE DEF P
    <3>4. since' \in [Kinds -> Nat]
      BY <3>1, <3>3 DEF P
    <3>5. terminated' \in BOOLEAN
      BY <3>1 DEF P, Escapes
    <3>6. timer' = "loop" /\ UNCHANGED <<running, pc, unmade, accepted>>
      BY <2>13 DEF TimerFlush
    <3>7. FlushBatches(P, res)
      BY <3>1 DEF P
    <3> QED BY <3>2, <3>4, <3>5, <3>6, <3>7, FlushType DEF TypeOK
  <2> QED
    BY <2>1, <2>2, <2>3, <2>4, <2>5, <2>6, <2>7, <2>8, <2>9, <2>10, <2>11,
       <2>12, <2>13, <2>14 DEF Next, Timer
<1> QED BY <1>1, <1>2, PTL DEF Spec

-----------------------------------------------------------------------------
(***************************************************************************)
(* The steps seen from the batches: an item is refused, accepted, or lost  *)
(* with the batch it should have followed; some batches are flushed; or    *)
(* only the life cycle of the manager moves on.                            *)
(***************************************************************************)
Refused == \E t \in Threads, i \in Items : SubmitRefused(t, i)
Accepts == \E t \in Threads, i \in Items : Submit(t, i)
Throws  == \E t \in Threads, i \in Items : SubmitThrows(t, i)
Flushes == /\ \E P \in SUBSET Kinds, res \in ResultMaps :
                /\ \A k \in P : batch[k] # <<>>
                /\ FlushBatches(P, res)
           /\ UNCHANGED accepted
Lives   == UNCHANGED <<batch, total, stats, accepted, out, fate>>

\* Every step refuses, accepts or loses an item, flushes, or leaves the batches alone.
LEMMA StepsOfBatches ==
  ASSUME [Next]_vars
  PROVE  Refused \/ Accepts \/ Throws \/ Flushes \/ Lives
<1>1. CASE UNCHANGED vars
  BY <1>1 DEF vars, Lives
<1>2. CASE \E t \in Threads, i \in Items :
             SubmitRefused(t, i) \/ Submit(t, i) \/ SubmitThrows(t, i)
  BY <1>2 DEF Refused, Accepts, Throws
<1>3. ASSUME NEW t \in Threads, Flush(t) PROVE Flushes
  BY <1>3, PoppedKinds DEF Flush, Flushes
<1>4. ASSUME NEW t \in Controllers, StopFlush(t) PROVE Flushes
  BY <1>4, PoppedKinds DEF StopFlush, Flushes
<1>5. ASSUME NEW t \in Controllers,
             \/ Start(t) \/ StartTerminates(t) \/ StartFails(t)
             \/ StopBegin(t) \/ StopJoin(t)
      PROVE  Lives
  BY <1>5 DEF Start, StartTerminates, StartFails, StopBegin, StopJoin, Lives, history
<1>6. CASE TimerLoop \/ TimerStops
  BY <1>6 DEF TimerLoop, TimerStops, Lives, history
<1>7. CASE TimerFlush
  BY <1>7, PoppedKinds DEF TimerFlush, Flushes
<1> QED BY <1>1, <1>2, <1>3, <1>4, <1>5, <1>6, <1>7 DEF Next, Timer

\* What an accepted item does to the batches, with the choice made explicit.
AcceptsAs(i, P, res) ==
  /\ fate[i] = "new"
  /\ FitsInMemory(i)
  /\ P = Popped(RoomFor(i), res)
  /\ batch' = [Emptied(P) EXCEPT ![Kind[i]] = Append(@, i)]
  /\ total' = [Zeroed(P) EXCEPT ![Kind[i]] = @ + Size[i]]
  /\ out' = HandedOn(P)
  /\ accepted' = [accepted EXCEPT ![Kind[i]] = Append(@, i)]
  /\ fate' = [Fated(P, res) EXCEPT ![i] = "batched"]

\* A submission that is accepted names its item, the batches it flushed and their results.
LEMMA AcceptsUnfolded ==
  ASSUME Accepts
  PROVE  \E i \in Items, P \in SUBSET Kinds, res \in ResultMaps :
           AcceptsAs(i, P, res)
<1>1. PICK t \in Threads, i \in Items : Submit(t, i)
  BY DEF Accepts
<1>2. PICK res \in ResultMaps : AcceptsAs(i, Popped(RoomFor(i), res), res)
  BY <1>1 DEF Submit, AcceptsAs, Admitted
<1>3. Popped(RoomFor(i), res) \in SUBSET Kinds
  BY PoppedKinds, RoomForKinds
<1> QED BY <1>2, <1>3

ThrowsAs(i, P, res) ==
  /\ fate[i] = "new"
  /\ P = Popped(RoomFor(i), res)
  /\ batch' = Emptied(P)
  /\ total' = Zeroed(P)
  /\ out' = HandedOn(P)
  /\ fate' = [Fated(P, res) EXCEPT ![i] = "lost"]
  /\ UNCHANGED accepted

\* A submission whose flush throws names them too.
LEMMA ThrowsUnfolded ==
  ASSUME Throws
  PROVE  \E i \in Items, P \in SUBSET Kinds, res \in ResultMaps :
           ThrowsAs(i, P, res)
<1>1. PICK t \in Threads, i \in Items : SubmitThrows(t, i)
  BY DEF Throws
<1>2. PICK res \in ResultMaps : ThrowsAs(i, Popped(RoomFor(i), res), res)
  BY <1>1 DEF SubmitThrows, ThrowsAs
<1>3. Popped(RoomFor(i), res) \in SUBSET Kinds
  BY PoppedKinds, RoomForKinds
<1> QED BY <1>2, <1>3

-----------------------------------------------------------------------------
\* The 50 MB bound holds in every state: flushing only lowers the two sizes,
\* and an item is admitted after both of them and its own size were added up.
THEOREM MemoryStaysBounded == Spec => []MemoryBounded
<1>1. Init => MemoryBounded
  BY BatchManagerAssumption DEF Init, MemoryBounded, Kinds
<1>2. TypeOK /\ MemoryBounded /\ [Next]_vars => MemoryBounded'
  <2> SUFFICES ASSUME TypeOK, MemoryBounded, [Next]_vars
               PROVE  MemoryBounded'
    OBVIOUS
  <2>1. /\ total \in [Kinds -> Nat] /\ MaxTotalMemory \in Nat
        /\ total["event"] + total["log"] <= MaxTotalMemory
    BY BatchManagerAssumption DEF TypeOK, MemoryBounded
  <2>2. \A P : /\ Zeroed(P)["event"] <= total["event"]
               /\ Zeroed(P)["log"] <= total["log"]
               /\ Zeroed(P) \in [Kinds -> Nat]
    BY <2>1 DEF Zeroed, Kinds
  <2>3. ASSUME NEW P, total' = Zeroed(P)
        PROVE  MemoryBounded'
    BY <2>1, <2>2, <2>3 DEF MemoryBounded, Kinds
  <2>4. CASE Refused
    BY <2>1, <2>4 DEF Refused, SubmitRefused, MemoryBounded
  <2>5. CASE Accepts
    <3>1. PICK i \in Items, P \in SUBSET Kinds, res \in ResultMaps :
            AcceptsAs(i, P, res)
      BY <2>5, AcceptsUnfolded
    <3>2. total' = [Zeroed(P) EXCEPT ![Kind[i]] = @ + Size[i]]
      BY <3>1 DEF AcceptsAs
    <3>3. total["event"] + total["log"] + Size[i] <= MaxTotalMemory
      BY <3>1 DEF AcceptsAs, FitsInMemory
    <3>4. Kind[i] \in Kinds /\ Size[i] \in Nat
      BY ItemFacts
    <3>5. total'["event"] + total'["log"]
            = Zeroed(P)["event"] + Zeroed(P)["log"] + Size[i]
      BY <2>2, <3>2, <3>4 DEF Kinds
    <3> QED BY <2>1, <2>2, <3>3, <3>4, <3>5 DEF MemoryBounded, Kinds
  <2>6. CASE Throws
    BY <2>3, <2>6, ThrowsUnfolded DEF ThrowsAs
  <2>7. CASE Flushes
    BY <2>3, <2>7 DEF Flushes, FlushBatches
  <2>8. CASE Lives
    BY <2>1, <2>8 DEF Lives, MemoryBounded
  <2> QED BY <2>4, <2>5, <2>6, <2>7, <2>8, StepsOfBatches
<1> QED BY <1>1, <1>2, TypeCorrect, PTL DEF Spec

-----------------------------------------------------------------------------
\* Nothing that submit accepted is lost, duplicated or overtaken before it is
\* handed to serialize() and the send callback.
THEOREM FirstInFirstOut == Spec => []NoLossNoReorder
<1>1. Init => NoLossNoReorder
  <2>1. <<>> \o <<>> = <<>>
    BY EmptySeq, ConcatEmptySeq
  <2> QED BY <2>1 DEF Init, NoLossNoReorder
<1>2. TypeOK /\ NoLossNoReorder /\ [Next]_vars => NoLossNoReorder'
  <2> SUFFICES ASSUME TypeOK, NoLossNoReorder, [Next]_vars
               PROVE  NoLossNoReorder'
    OBVIOUS
  <2>1. \A k \in Kinds : out[k] \in Seq(Items) /\ batch[k] \in Seq(Items)
    BY DEF TypeOK
  <2>2. \A P, k : k \in Kinds => HandedOn(P)[k] \o Emptied(P)[k] = accepted[k]
    <3> SUFFICES ASSUME NEW P, NEW k \in Kinds
                 PROVE  HandedOn(P)[k] \o Emptied(P)[k] = accepted[k]
      OBVIOUS
    <3>1. (out[k] \o batch[k]) \o <<>> = out[k] \o batch[k]
      BY <2>1, ConcatProperties, ConcatEmptySeq
    <3> QED BY <3>1 DEF HandedOn, Emptied, NoLossNoReorder
  <2>3. ASSUME NEW P, batch' = Emptied(P), out' = HandedOn(P), UNCHANGED accepted
        PROVE  NoLossNoReorder'
    BY <2>2, <2>3 DEF NoLossNoReorder
  <2>4. CASE Refused
    BY <2>4 DEF Refused, SubmitRefused, NoLossNoReorder
  <2>5. CASE Accepts
    <3>1. PICK i \in Items, P \in SUBSET Kinds, res \in ResultMaps :
            AcceptsAs(i, P, res)
      BY <2>5, AcceptsUnfolded
    <3> DEFINE k == Kind[i]
    <3>2. k \in Kinds
      BY ItemFacts
    <3>3. Emptied(P) \in [Kinds -> Seq(Items)] /\ HandedOn(P) \in [Kinds -> Seq(Items)]
      BY EmptiedType, HandedOnType DEF TypeOK
    <3>4. /\ batch' = [Emptied(P) EXCEPT ![k] = Append(@, i)]
          /\ out' = HandedOn(P)
          /\ accepted' = [accepted EXCEPT ![k] = Append(@, i)]
      BY <3>1 DEF AcceptsAs
    <3>5. accepted \in [Kinds -> Seq(Items)]
      BY DEF TypeOK
    <3> HIDE DEF k
    <3>6. ASSUME NEW n \in Kinds, n # k
          PROVE  accepted'[n] = out'[n] \o batch'[n]
      BY <2>2, <3>2, <3>3, <3>4, <3>5, <3>6
    <3>7. accepted'[k] = out'[k] \o batch'[k]
      <4>1. /\ accepted'[k] = Append(accepted[k], i)
            /\ batch'[k] = Append(Emptied(P)[k], i)
            /\ out'[k] = HandedOn(P)[k]
        BY <3>2, <3>3, <3>4, <3>5
      <4>2. accepted[k] = HandedOn(P)[k] \o Emptied(P)[k]
        BY <2>2, <3>2
      <4>3. HandedOn(P)[k] \in Seq(Items) /\ Emptied(P)[k] \in Seq(Items)
        BY <3>2, <3>3
      <4>4. ASSUME NEW a \in Seq(Items), NEW b \in Seq(Items)
            PROVE  Append(a \o b, i) = a \o Append(b, i)
        <5>1. a \o b \in Seq(Items) /\ <<i>> \in Seq(Items)
          BY ConcatProperties
        <5>2. Append(a \o b, i) = (a \o b) \o <<i>> /\ Append(b, i) = b \o <<i>>
          BY <5>1, AppendIsConcat
        <5> QED BY <5>1, <5>2, ConcatAssociative
      <4> QED BY <4>1, <4>2, <4>3, <4>4
    <3> QED BY <3>6, <3>7 DEF NoLossNoReorder
  <2>6. CASE Throws
    BY <2>3, <2>6, ThrowsUnfolded DEF ThrowsAs
  <2>7. CASE Flushes
    BY <2>3, <2>7 DEF Flushes, FlushBatches
  <2>8. CASE Lives
    BY <2>8 DEF Lives, NoLossNoReorder
  <2> QED BY <2>4, <2>5, <2>6, <2>7, <2>8, StepsOfBatches
<1> QED BY <1>1, <1>2, TypeCorrect, PTL DEF Spec

-----------------------------------------------------------------------------
\* A batch outgrows its limits by its last item only.
THEOREM LimitsKept == Spec => []BatchWithinLimits
<1>1. Init => BatchWithinLimits
  BY EmptySeq DEF Init, BatchWithinLimits
<1>2. TypeOK /\ BatchWithinLimits /\ [Next]_vars => BatchWithinLimits'
  <2> SUFFICES ASSUME TypeOK, BatchWithinLimits, [Next]_vars
               PROVE  BatchWithinLimits'
    OBVIOUS
  <2> DEFINE Within(b, s, k) ==
               Len(b) > 1 => /\ Len(b) <= BatchSize[k]
                             /\ s - Size[b[Len(b)]] < MaxBatchBytes
  <2>1. \A k \in Kinds : Within(batch[k], total[k], k)
    BY DEF BatchWithinLimits
  <2>2. \A P, k : k \in Kinds => Within(Emptied(P)[k], Zeroed(P)[k], k)
    <3> SUFFICES ASSUME NEW P, NEW k \in Kinds
                 PROVE  Within(Emptied(P)[k], Zeroed(P)[k], k)
      OBVIOUS
    <3>1. CASE k \in P
      <4>1. Emptied(P)[k] = <<>> /\ Len(<<>>) = 0
        BY <3>1, EmptySeq DEF Emptied
      <4> QED BY <4>1
    <3>2. CASE k \notin P
      BY <2>1, <3>2 DEF Emptied, Zeroed
    <3> QED BY <3>1, <3>2
  <2>3. ASSUME NEW P, batch' = Emptied(P), total' = Zeroed(P)
        PROVE  BatchWithinLimits'
    BY <2>2, <2>3 DEF BatchWithinLimits
  <2>4. CASE Refused
    BY <2>4 DEF Refused, SubmitRefused, BatchWithinLimits
  <2>5. CASE Accepts
    <3>1. PICK i \in Items, P \in SUBSET Kinds, res \in ResultMaps :
            AcceptsAs(i, P, res)
      BY <2>5, AcceptsUnfolded
    <3> DEFINE k == Kind[i]
               b == Emptied(P)[k]
               s == Zeroed(P)[k]
    <3>2. k \in Kinds /\ Size[i] \in Nat
      BY ItemFacts
    <3>3. Emptied(P) \in [Kinds -> Seq(Items)] /\ Zeroed(P) \in [Kinds -> Nat]
      BY EmptiedType, ZeroedType DEF TypeOK
    <3>4. /\ batch' = [Emptied(P) EXCEPT ![k] = Append(@, i)]
          /\ total' = [Zeroed(P) EXCEPT ![k] = @ + Size[i]]
          /\ P = Popped(RoomFor(i), res)
      BY <3>1 DEF AcceptsAs
    <3>5. \A n \in Kinds : n # k => Within(batch'[n], total'[n], n)
      BY <2>2, <3>2, <3>3, <3>4
    <3>6. b \in Seq(Items) /\ s \in Nat /\ batch'[k] = Append(b, i)
          /\ total'[k] = s + Size[i]
      BY <3>2, <3>3, <3>4
    <3>7. /\ Len(Append(b, i)) = Len(b) + 1
          /\ Append(b, i)[Len(b) + 1] = i
          /\ Len(b) \in Nat
      BY <3>6, AppendProperties, LenProperties
    <3>8. CASE b = <<>>
      BY <3>5, <3>6, <3>7, <3>8, EmptySeq DEF BatchWithinLimits
    <3>9. CASE b # <<>>
      <4>1. k \notin P /\ b = batch[k] /\ s = total[k]
        BY <3>2, <3>9 DEF Emptied, Zeroed
      <4>2. k \notin RoomFor(i)
        <5>1. SUFFICES ASSUME k \in RoomFor(i) PROVE FALSE
          OBVIOUS
        <5>2. RoomFor(i) = {k}
          BY <5>1 DEF RoomFor
        <5>3. k \in Popped(RoomFor(i), res)
          BY <5>2, <3>9, <4>1 DEF Popped
        <5> QED BY <3>4, <4>1, <5>3
      <4>3. ~IsFull(k)
        BY <4>2 DEF RoomFor
      <4>4. Len(b) < BatchSize[k] /\ s < MaxBatchBytes
        BY <3>2, <3>6, <3>7, <4>1, <4>3, BatchManagerAssumption DEF IsFull
      <4>5. Within(batch'[k], total'[k], k)
        BY <3>2, <3>6, <3>7, <4>4, BatchManagerAssumption
      <4> QED BY <3>5, <4>5 DEF BatchWithinLimits
    <3> QED BY <3>8, <3>9
  <2>6. CASE Throws
    BY <2>3, <2>6, ThrowsUnfolded DEF ThrowsAs
  <2>7. CASE Flushes
    BY <2>3, <2>7 DEF Flushes, FlushBatches
  <2>8. CASE Lives
    BY <2>8 DEF Lives, BatchWithinLimits
  <2> QED BY <2>4, <2>5, <2>6, <2>7, <2>8, StepsOfBatches
<1> QED BY <1>1, <1>2, TypeCorrect, PTL DEF Spec

-----------------------------------------------------------------------------
\* Emptying some batches and fating their items keeps batches and fates
\* together.
LEMMA FlushKeepsFates ==
  ASSUME TypeOK, FateMatchesBatch, NEW P \in SUBSET Kinds, NEW res \in ResultMaps
  PROVE  /\ \A i \in Items :
              Fated(P, res)[i] = "batched" <=>
                \E n \in DOMAIN Emptied(P)[Kind[i]] : Emptied(P)[Kind[i]][n] = i
         /\ \A k \in Kinds : \A n \in DOMAIN Emptied(P)[k] :
              Kind[Emptied(P)[k][n]] = k
<1>1. \A k \in Kinds : res[k] # "batched"
  BY BatchManagerAssumption DEF ResultMaps, Results
<1>2. DOMAIN <<>> = {}
  OBVIOUS
<1>3. ASSUME NEW i \in Items
      PROVE  Fated(P, res)[i] = "batched" <=>
               \E n \in DOMAIN Emptied(P)[Kind[i]] : Emptied(P)[Kind[i]][n] = i
  <2>1. Kind[i] \in Kinds
    BY ItemFacts
  <2>2. CASE Kind[i] \in P
    <3>1. Emptied(P)[Kind[i]] = <<>>
      BY <2>1, <2>2 DEF Emptied
    <3>2. Fated(P, res)[i] # "batched"
      BY <1>1, <2>1, <2>2 DEF Fated
    <3> QED BY <1>2, <3>1, <3>2
  <2>3. CASE Kind[i] \notin P
    BY <2>1, <2>3 DEF Emptied, Fated, FateMatchesBatch, Waiting
  <2> QED BY <2>2, <2>3
<1>4. ASSUME NEW k \in Kinds, NEW n \in DOMAIN Emptied(P)[k]
      PROVE  Kind[Emptied(P)[k][n]] = k
  BY <1>2 DEF Emptied, FateMatchesBatch
<1> QED BY <1>3, <1>4

\* An item waits in the batch of its kind exactly while nothing is known of
\* what became of it.
THEOREM FatesMatch == Spec => []FateMatchesBatch
<1>1. Init => FateMatchesBatch
  BY ItemFacts DEF Init, FateMatchesBatch, Waiting
<1>2. TypeOK /\ FateMatchesBatch /\ [Next]_vars => FateMatchesBatch'
  <2> SUFFICES ASSUME TypeOK, FateMatchesBatch, [Next]_vars
               PROVE  FateMatchesBatch'
    OBVIOUS
  <2>1. CASE Refused
    <3>1. PICK t \in Threads, i \in Items : SubmitRefused(t, i)
      BY <2>1 DEF Refused
    <3>2. /\ fate[i] = "new"
          /\ fate' = [fate EXCEPT ![i] = "refused"]
          /\ UNCHANGED batch
      BY <3>1 DEF SubmitRefused
    <3>3. \A j \in Items : fate'[j] = "batched" <=> fate[j] = "batched"
      BY <3>2 DEF TypeOK
    <3> QED BY <3>2, <3>3 DEF FateMatchesBatch, Waiting
  <2>2. CASE Accepts
    <3>1. PICK i \in Items, P \in SUBSET Kinds, res \in ResultMaps :
            AcceptsAs(i, P, res)
      BY <2>2, AcceptsUnfolded
    <3> DEFINE k == Kind[i]
               B == Emptied(P)
               F == Fated(P, res)
    <3>2. k \in Kinds /\ B \in [Kinds -> Seq(Items)] /\ F \in [Items -> Fates]
      BY ItemFacts, EmptiedType, FatedType DEF TypeOK
    <3>3. batch' = [B EXCEPT ![k] = Append(@, i)] /\ fate' = [F EXCEPT ![i] = "batched"]
      BY <3>1 DEF AcceptsAs
    <3>4. /\ \A j \in Items : F[j] = "batched" <=>
               \E n \in DOMAIN B[Kind[j]] : B[Kind[j]][n] = j
          /\ \A m \in Kinds : \A n \in DOMAIN B[m] : Kind[B[m][n]] = m
      BY FlushKeepsFates
    <3> HIDE DEF B, F
    <3> DEFINE b == B[k]
    <3>5. /\ b \in Seq(Items)
          /\ DOMAIN b = 1 .. Len(b) /\ Len(b) \in Nat
          /\ DOMAIN Append(b, i) = 1 .. (Len(b) + 1)
          /\ \A n \in 1 .. Len(b) : Append(b, i)[n] = b[n]
          /\ Append(b, i)[Len(b) + 1] = i
      BY <3>2, LenProperties, AppendProperties
    <3>6. batch'[k] = Append(b, i) /\ \A m \in Kinds : m # k => batch'[m] = B[m]
      BY <3>2, <3>3
    <3>7. ASSUME NEW j \in Items
          PROVE  fate'[j] = "batched" <=>
                   \E n \in DOMAIN batch'[Kind[j]] : batch'[Kind[j]][n] = j
      <4>1. Kind[j] \in Kinds
        BY ItemFacts
      <4>2. CASE j = i
        <5>1. fate'[j] = "batched"
          BY <3>2, <3>3, <4>2
        <5>2. Len(b) + 1 \in DOMAIN batch'[k] /\ batch'[k][Len(b) + 1] = i
          BY <3>5, <3>6
        <5>3. \E n \in DOMAIN batch'[Kind[j]] : batch'[Kind[j]][n] = j
          BY <4>2, <5>2
        <5> QED BY <5>1, <5>3
      <4>3. CASE j # i /\ Kind[j] = k
        <5>1. fate'[j] = F[j]
          BY <3>2, <3>3, <4>3
        <5>2. (\E n \in DOMAIN Append(b, i) : Append(b, i)[n] = j)
                <=> \E n \in DOMAIN b : b[n] = j
          BY <3>5, <4>3
        <5>3. F[j] = "batched" <=> \E n \in DOMAIN b : b[n] = j
          BY <3>4, <4>3
        <5>4. batch'[Kind[j]] = Append(b, i)
          BY <3>6, <4>3
        <5> QED BY <5>1, <5>2, <5>3, <5>4
      <4>4. CASE j # i /\ Kind[j] # k
        BY <3>2, <3>3, <3>4, <3>6, <4>1, <4>4
      <4> QED BY <4>2, <4>3, <4>4
    <3>8. ASSUME NEW m \in Kinds, NEW n \in DOMAIN batch'[m]
          PROVE  Kind[batch'[m][n]] = m
      <4>1. CASE m = k
        <5>1. n \in 1 .. (Len(b) + 1) /\ batch'[m] = Append(b, i)
          BY <3>5, <3>6, <3>8, <4>1
        <5>2. CASE n = Len(b) + 1
          BY <3>5, <4>1, <5>1, <5>2
        <5>3. CASE n \in 1 .. Len(b)
          BY <3>4, <3>5, <4>1, <5>1, <5>3
        <5> QED BY <3>5, <5>1, <5>2, <5>3
      <4>2. CASE m # k
        BY <3>4, <3>6, <3>8, <4>2
      <4> QED BY <4>1, <4>2
    <3> QED BY <3>7, <3>8 DEF FateMatchesBatch, Waiting
  <2>3. CASE Throws
    <3>1. PICK i \in Items, P \in SUBSET Kinds, res \in ResultMaps :
            ThrowsAs(i, P, res)
      BY <2>3, ThrowsUnfolded
    <3>2. /\ fate[i] = "new" /\ batch' = Emptied(P)
          /\ fate' = [Fated(P, res) EXCEPT ![i] = "lost"]
      BY <3>1 DEF ThrowsAs
    <3>3. Fated(P, res) \in [Items -> Fates] /\ Fated(P, res)[i] = "new"
      BY <3>2, FatedType DEF TypeOK, Fated
    <3> QED BY <3>2, <3>3, FlushKeepsFates DEF FateMatchesBatch, Waiting
  <2>4. CASE Flushes
    <3>1. PICK P \in SUBSET Kinds, res \in ResultMaps :
            batch' = Emptied(P) /\ fate' = Fated(P, res)
      BY <2>4 DEF Flushes, FlushBatches
    <3> QED BY <3>1, FlushKeepsFates DEF FateMatchesBatch, Waiting
  <2>5. CASE Lives
    BY <2>5 DEF Lives, FateMatchesBatch, Waiting
  <2> QED BY <2>1, <2>2, <2>3, <2>4, <2>5, StepsOfBatches
<1> QED BY <1>1, <1>2, TypeCorrect, PTL DEF Spec

-----------------------------------------------------------------------------
\* A joinable std::thread belongs to a running manager or to a thread that is
\* about to join it, and as long as no start() failed to make its thread that
\* one is alone with it: the flag is cleared under mutex_, so only who cleared
\* it joins, and no second one can until a start() in between, which ends the
\* process while the first is not done.
THEOREM TimerJoinedOnce == Spec => []JoinedOnce
<1>1. Init => JoinedOnce
  BY DEF Init, JoinedOnce, Joinable, Joining
<1>2. TypeOK /\ JoinedOnce /\ [Next]_vars => JoinedOnce'
  <2> SUFFICES ASSUME TypeOK, JoinedOnce, [Next]_vars
               PROVE  JoinedOnce'
    OBVIOUS
  <2> USE DEF JoinedOnce, Joinable, Joining
  <2>1. CASE UNCHANGED <<running, timer, pc, terminated, unmade>>
    BY <2>1
  <2>2. ASSUME NEW t \in Threads, NEW i \in Items,
               SubmitRefused(t, i) \/ Submit(t, i) \/ SubmitThrows(t, i)
        PROVE  JoinedOnce'
    BY <2>1, <2>2 DEF SubmitRefused, Submit, SubmitThrows, lifecycle
  <2>3. ASSUME NEW t \in Threads, Flush(t) PROVE JoinedOnce'
    BY <2>1, <2>3 DEF Flush, lifecycle
  <2>4. ASSUME NEW t \in Controllers, Start(t) PROVE JoinedOnce'
    BY <2>4 DEF Start, Ready
  <2>5. ASSUME NEW t \in Controllers, StartTerminates(t) PROVE JoinedOnce'
    BY <2>5 DEF StartTerminates
  <2>13. ASSUME NEW t \in Controllers, StartFails(t) PROVE JoinedOnce'
    BY <2>13 DEF StartFails
  <2>6. ASSUME NEW t \in Controllers, StopBegin(t) PROVE JoinedOnce'
    <3>1. t \in Threads /\ pc' = [pc EXCEPT ![t] = "joining"]
          /\ running /\ running' = FALSE /\ ~terminated /\ UNCHANGED <<timer, unmade>>
      BY <2>6, BatchManagerAssumption DEF StopBegin, Ready
    <3>2. ~(\E u \in Threads : pc[u] = "joining") \/ unmade
      BY <3>1
    <3>3. \A u \in Threads : pc'[u] = IF u = t THEN "joining" ELSE pc[u]
      BY ONLY TypeOK, <3>1 DEF TypeOK
    <3> QED BY <3>1, <3>2, <3>3
  <2>7. ASSUME NEW t \in Controllers, StopJoin(t) PROVE JoinedOnce'
    <3>1. t \in Threads /\ pc' = [pc EXCEPT ![t] = "flushing"]
          /\ pc[t] = "joining" /\ timer' = "none" /\ ~terminated
          /\ UNCHANGED <<running, unmade>>
      BY <2>7, BatchManagerAssumption DEF StopJoin
    <3>2. \A u \in Threads : pc'[u] = IF u = t THEN "flushing" ELSE pc[u]
      BY ONLY TypeOK, <3>1 DEF TypeOK
    <3> QED BY <3>1, <3>2
  <2>8. ASSUME NEW t \in Controllers, StopFlush(t) PROVE JoinedOnce'
    <3>1. t \in Threads /\ pc' = [pc EXCEPT ![t] = "idle"]
          /\ pc[t] = "flushing" /\ UNCHANGED <<running, timer, terminated, unmade>>
      BY <2>8, BatchManagerAssumption DEF StopFlush
    <3>2. \A u \in Threads : pc'[u] = "joining" <=> pc[u] = "joining"
      BY <3>1 DEF TypeOK
    <3> QED BY <3>1, <3>2
  <2>9. CASE TimerLoop
    BY <2>9 DEF TimerLoop
  <2>10. CASE TimerStops
    BY <2>10 DEF TimerStops
  <2>11. CASE TimerFlush
    BY <2>11 DEF TimerFlush
  <2>12. CASE UNCHANGED vars
    BY <2>1, <2>12 DEF vars
  <2> QED
    BY <2>2, <2>3, <2>4, <2>5, <2>6, <2>7, <2>8, <2>9, <2>10, <2>11, <2>12,
       <2>13
    DEF Next, Timer
<1> QED BY <1>1, <1>2, TypeCorrect, PTL DEF Spec

-----------------------------------------------------------------------------
\* Only threads that control the manager are ever inside stop().
OnlyControllersStop == \A t \in Threads : Stopping(t) => t \in Controllers

\* Only a controller ever runs stop().
LEMMA ControllersStop == Spec => []OnlyControllersStop
<1>1. Init => OnlyControllersStop
  BY DEF Init, OnlyControllersStop, Stopping
<1>2. TypeOK /\ OnlyControllersStop /\ [Next]_vars => OnlyControllersStop'
  <2> SUFFICES ASSUME TypeOK, OnlyControllersStop, [Next]_vars
               PROVE  OnlyControllersStop'
    OBVIOUS
  <2> USE DEF OnlyControllersStop, Stopping
  <2>1. CASE UNCHANGED pc
    BY <2>1
  <2>2. ASSUME NEW t \in Controllers, StopBegin(t) \/ StopJoin(t) \/ StopFlush(t)
        PROVE  OnlyControllersStop'
    BY <2>2 DEF StopBegin, StopJoin, StopFlush, TypeOK
  <2>3. ASSUME NEW t \in Threads, NEW i \in Items,
               SubmitRefused(t, i) \/ Submit(t, i) \/ SubmitThrows(t, i)
        PROVE  UNCHANGED pc
    BY <2>3 DEF SubmitRefused, Submit, SubmitThrows, lifecycle
  <2>4. ASSUME NEW t \in Threads, Flush(t) PROVE UNCHANGED pc
    BY <2>4 DEF Flush, lifecycle
  <2>5. ASSUME NEW t \in Controllers,
               Start(t) \/ StartTerminates(t) \/ StartFails(t)
        PROVE  UNCHANGED pc
    BY <2>5 DEF Start, StartTerminates, StartFails
  <2>6. CASE Timer
    BY <2>1, <2>6 DEF Timer, TimerLoop, TimerStops, TimerFlush
  <2>7. CASE UNCHANGED vars
    BY <2>1, <2>7 DEF vars
  <2> QED BY <2>1, <2>2, <2>3, <2>4, <2>5, <2>6, <2>7 DEF Next
<1> QED BY <1>1, <1>2, TypeCorrect, PTL DEF Spec

\* A single controlling thread, a valid key and a callback that throws
\* nothing but Error: the process is never terminated by the manager.
THEOREM OneControllerIsSafe ==
  ASSUME \A t, u \in Controllers : t = u,
         KeyValid,
         "lost" \notin CallbackResults
  PROVE  Spec => []NeverTerminates
<1>1. Init => NeverTerminates
  BY DEF Init, NeverTerminates
<1>2. /\ TypeOK /\ JoinedOnce /\ OnlyControllersStop
      /\ NeverTerminates /\ [Next]_vars
      => NeverTerminates'
  <2> SUFFICES ASSUME TypeOK, JoinedOnce, OnlyControllersStop,
                      NeverTerminates, [Next]_vars
               PROVE  NeverTerminates'
    OBVIOUS
  <2>1. CASE UNCHANGED terminated
    BY <2>1 DEF NeverTerminates
  <2>2. ASSUME NEW t \in Controllers, StartTerminates(t) PROVE FALSE
    <3>1. t \in Threads /\ pc[t] = "idle" /\ ~running /\ Joinable
      BY <2>2, BatchManagerAssumption DEF StartTerminates, Ready
    <3>2. PICK u \in Threads : pc[u] = "joining"
      BY <3>1 DEF JoinedOnce, NeverTerminates, Joining
    <3>3. u \in Controllers
      BY <3>2 DEF OnlyControllersStop, Stopping
    <3> QED BY <3>1, <3>2, <3>3
  <2>3. CASE TimerFlush
    <3>1. PICK res \in ResultMaps :
            terminated' = Escapes(Popped({k \in Kinds : Due(k)}, res), res)
      BY <2>3 DEF TimerFlush
    <3>2. \A k \in Kinds : res[k] # "lost"
      BY DEF ResultMaps, Results
    <3>3. Popped({k \in Kinds : Due(k)}, res) \in SUBSET Kinds
      BY PoppedKinds
    <3> QED BY <3>1, <3>2, <3>3 DEF Escapes, NeverTerminates
  <2>4. ASSUME NEW t \in Threads, NEW i \in Items,
               SubmitRefused(t, i) \/ Submit(t, i) \/ SubmitThrows(t, i)
        PROVE  UNCHANGED terminated
    BY <2>4 DEF SubmitRefused, Submit, SubmitThrows, lifecycle
  <2>5. ASSUME NEW t \in Threads, Flush(t) PROVE UNCHANGED terminated
    BY <2>5 DEF Flush, lifecycle
  <2>6. ASSUME NEW t \in Controllers,
               \/ Start(t) \/ StartFails(t)
               \/ StopBegin(t) \/ StopJoin(t) \/ StopFlush(t)
        PROVE  UNCHANGED terminated
    BY <2>6 DEF Start, StartFails, StopBegin, StopJoin, StopFlush
  <2>7. CASE TimerLoop \/ TimerStops \/ UNCHANGED vars
    BY <2>1, <2>7 DEF TimerLoop, TimerStops, vars
  <2> QED BY <2>1, <2>2, <2>3, <2>4, <2>5, <2>6, <2>7 DEF Next, Timer
<1> QED BY <1>1, <1>2, TypeCorrect, TimerJoinedOnce, ControllersStop, PTL DEF Spec

-----------------------------------------------------------------------------
\* When no flushed item is lost, flush_internal() leaves nothing behind.
LEMMA FlushAllDrains ==
  ASSUME TypeOK, FateMatchesBatch, NEW res \in ResultMaps,
         FlushBatches(Popped(Kinds, res), res),
         \A i \in Items : fate'[i] # "lost"
  PROVE  \A k \in Kinds : batch'[k] = <<>>
<1> DEFINE P == Popped(Kinds, res)
<1>1. batch' = Emptied(P) /\ fate' = Fated(P, res)
  BY DEF FlushBatches
<1>2. ASSUME NEW k \in Kinds, batch[k] # <<>>, k \in P, res[k] = "lost"
      PROVE  FALSE
  <2>1. batch[k] \in Seq(Items) /\ 1 \in DOMAIN batch[k]
    BY <1>2, LenProperties, EmptySeq DEF TypeOK
  <2>2. batch[k][1] \in Items
    BY <2>1, ElementOfSeq, LenProperties
  <2>3. Kind[batch[k][1]] = k /\ fate[batch[k][1]] = "batched"
    BY <2>1, <2>2 DEF FateMatchesBatch, Waiting
  <2>4. fate'[batch[k][1]] = "lost"
    BY <1>1, <1>2, <2>2, <2>3 DEF Fated
  <2> QED BY <2>2, <2>4
<1>3. ASSUME NEW k \in Kinds, batch[k] # <<>> PROVE k \in P
  <2>1. CASE k = "event"
    BY <1>3, <2>1 DEF Popped
  <2>2. CASE k = "log"
    <3>1. batch["event"] # <<>> => "event" \in P
      BY DEF Popped, Kinds
    <3>2. ~(batch["event"] # <<>> /\ res["event"] = "lost")
      BY <1>2, <3>1 DEF Kinds
    <3> QED BY <1>3, <2>2, <3>2 DEF Popped
  <2> QED BY <2>1, <2>2 DEF Kinds
<1> HIDE DEF P
<1> QED BY <1>1, <1>3 DEF Emptied

\* A fate that is lost stays lost.
LEMMA LostIsFinal ==
  ASSUME TypeOK, [Next]_vars, NEW i \in Items, fate[i] = "lost"
  PROVE  fate'[i] = "lost"
<1>1. CASE Refused
  BY <1>1 DEF Refused, SubmitRefused, TypeOK
<1>2. CASE Accepts
  <2>1. PICK j \in Items, P \in SUBSET Kinds, res \in ResultMaps :
          AcceptsAs(j, P, res)
    BY <1>2, AcceptsUnfolded
  <2> QED BY <2>1 DEF AcceptsAs, Fated
<1>3. CASE Throws
  <2>1. PICK j \in Items, P \in SUBSET Kinds, res \in ResultMaps :
          ThrowsAs(j, P, res)
    BY <1>3, ThrowsUnfolded
  <2> QED BY <2>1 DEF ThrowsAs, Fated
<1>4. CASE Flushes
  BY <1>4 DEF Flushes, FlushBatches, Fated
<1>5. CASE Lives
  BY <1>5 DEF Lives
<1> QED BY <1>1, <1>2, <1>3, <1>4, <1>5, StepsOfBatches

\* Once stop() has returned to whoever called it, every accepted item has
\* been handed to the callback, unless an exception came out of a flush.
THEOREM StopDrains == Spec => []StoppedMeansDrained
<1>1. Init => StoppedMeansDrained
  BY DEF Init, StoppedMeansDrained
<1>2. /\ TypeOK /\ FateMatchesBatch /\ JoinedOnce
      /\ StoppedMeansDrained /\ [Next]_vars
      => StoppedMeansDrained'
  <2> SUFFICES ASSUME TypeOK, FateMatchesBatch, JoinedOnce,
                      StoppedMeansDrained, [Next]_vars,
                      ~running', ~terminated',
                      \A t \in Threads : ~Stopping(t)',
                      \A i \in Items : fate'[i] # "lost"
               PROVE  \A k \in Kinds : batch'[k] = <<>>
    BY DEF StoppedMeansDrained
  <2>1. \A i \in Items : fate[i] # "lost"
    BY LostIsFinal
  <2>2. ASSUME ~running, ~terminated, \A t \in Threads : ~Stopping(t)
        PROVE  \A k \in Kinds : batch[k] = <<>>
    BY <2>1, <2>2 DEF StoppedMeansDrained
  <2>3. ASSUME NEW t \in Threads, NEW i \in Items, SubmitRefused(t, i)
        PROVE  \A k \in Kinds : batch'[k] = <<>>
    BY <2>2, <2>3 DEF SubmitRefused, lifecycle, Stopping
  <2>4. ASSUME NEW t \in Threads, NEW i \in Items,
               Submit(t, i) \/ SubmitThrows(t, i)
        PROVE  running'
    BY <2>4 DEF Submit, SubmitThrows, Admitted, lifecycle
  <2>5. ASSUME NEW t \in Threads, Flush(t)
        PROVE  \A k \in Kinds : batch'[k] = <<>>
    BY <2>5, FlushAllDrains DEF Flush
  <2>6. ASSUME NEW t \in Controllers,
               Start(t) \/ StartTerminates(t) \/ StartFails(t)
        PROVE  running'
    BY <2>6 DEF Start, StartTerminates, StartFails
  <2>7. ASSUME NEW t \in Controllers, StopBegin(t) \/ StopJoin(t)
        PROVE  Stopping(t)'
    BY <2>7, BatchManagerAssumption DEF StopBegin, StopJoin, Stopping, TypeOK
  <2>8. ASSUME NEW t \in Controllers, StopFlush(t)
        PROVE  \A k \in Kinds : batch'[k] = <<>>
    BY <2>8, FlushAllDrains DEF StopFlush
  <2>9. CASE TimerLoop \/ TimerStops
    BY <2>2, <2>9 DEF TimerLoop, TimerStops, Stopping
  <2>10. CASE TimerFlush
    BY <2>10 DEF TimerFlush
  <2>11. CASE UNCHANGED vars
    BY <2>2, <2>11 DEF vars, Stopping
  <2>12. \A t \in Controllers : t \in Threads
    BY BatchManagerAssumption
  <2> QED
    BY <2>3, <2>4, <2>5, <2>6, <2>7, <2>8, <2>9, <2>10, <2>11, <2>12
    DEF Next, Timer
<1> QED BY <1>1, <1>2, TypeCorrect, FatesMatch, TimerJoinedOnce, PTL DEF Spec

-----------------------------------------------------------------------------
\* In every step, the items of a batch share one result, and what has a
\* result keeps it.
THEOREM OneResult == Spec => OneResultPerBatch
<1> DEFINE Step ==
      /\ \A i, j \in Items :
           /\ Kind[i] = Kind[j]
           /\ fate[i] = "batched" /\ fate'[i] # "batched"
           /\ fate[j] = "batched"
           => fate'[j] = fate'[i]
      /\ \A i \in Items : fate[i] \notin {"new", "batched"} => fate'[i] = fate[i]
<1>1. TypeOK /\ [Next]_vars => Step
  <2> SUFFICES ASSUME TypeOK, [Next]_vars PROVE Step
    OBVIOUS
  <2>1. \A P \in SUBSET Kinds, res \in ResultMaps, i \in Items :
          Fated(P, res)[i] = IF fate[i] = "batched" /\ Kind[i] \in P
                             THEN res[Kind[i]] ELSE fate[i]
    BY DEF Fated
  <2>2. CASE Refused
    BY <2>2 DEF Refused, SubmitRefused, TypeOK
  <2>3. ASSUME NEW j \in Items, NEW P \in SUBSET Kinds, NEW res \in ResultMaps,
               NEW f, fate[j] = "new", fate' = [Fated(P, res) EXCEPT ![j] = f]
        PROVE  Step
    <3>1. \A i \in Items : fate'[i] = IF i = j THEN f ELSE Fated(P, res)[i]
      BY <2>3 DEF Fated
    <3> QED BY <2>1, <2>3, <3>1
  <2>4. CASE Accepts
    <3>1. PICK j \in Items, P \in SUBSET Kinds, res \in ResultMaps :
            fate[j] = "new" /\ fate' = [Fated(P, res) EXCEPT ![j] = "batched"]
      BY <2>4, AcceptsUnfolded DEF AcceptsAs
    <3> HIDE DEF Step
    <3> QED BY <2>3, <3>1
  <2>5. CASE Throws
    BY <2>3, <2>5, ThrowsUnfolded DEF ThrowsAs
  <2>6. CASE Flushes
    <3>1. PICK P \in SUBSET Kinds, res \in ResultMaps : fate' = Fated(P, res)
      BY <2>6 DEF Flushes, FlushBatches
    <3> QED BY <2>1, <3>1
  <2>7. CASE Lives
    BY <2>7 DEF Lives
  <2> QED BY <2>2, <2>4, <2>5, <2>6, <2>7, StepsOfBatches
<1>2. TypeOK /\ [Next]_vars => [Step]_vars
  BY <1>1
<1> QED BY <1>2, TypeCorrect, PTL DEF Spec, OneResultPerBatch

-----------------------------------------------------------------------------
(***************************************************************************)
(* Refinement: the manager is an Outbox.                                   *)
(***************************************************************************)
\* Items that have left have the kind of their stream and a final fate.
OutFates ==
  \A k \in Kinds : \A n \in DOMAIN out[k] :
    Kind[out[k][n]] = k /\ fate[out[k][n]] \in {"sent", "failed", "lost"}

\* An item stands somewhere in a sequence.
Occurs(i, q) == \E n \in DOMAIN q : q[n] = i

\* An item occurs in a concatenation when it occurs in one of the parts.
LEMMA OccursInConcat ==
  ASSUME NEW s \in Seq(Items), NEW r \in Seq(Items), NEW i
  PROVE  Occurs(i, s \o r) <=> Occurs(i, s) \/ Occurs(i, r)
<1>1. /\ DOMAIN s = 1 .. Len(s) /\ Len(s) \in Nat
      /\ DOMAIN r = 1 .. Len(r) /\ Len(r) \in Nat
      /\ DOMAIN (s \o r) = 1 .. (Len(s) + Len(r))
      /\ \A n \in 1 .. Len(s) + Len(r) :
           (s \o r)[n] = IF n <= Len(s) THEN s[n] ELSE r[n - Len(s)]
  BY ConcatProperties, LenProperties
<1>2. ASSUME NEW n \in DOMAIN (s \o r), (s \o r)[n] = i
      PROVE  \/ \E m \in DOMAIN s : s[m] = i
             \/ \E m \in DOMAIN r : r[m] = i
  <2>1. CASE n <= Len(s)
    BY <1>1, <1>2, <2>1
  <2>2. CASE ~(n <= Len(s))
    <3>1. n - Len(s) \in DOMAIN r /\ r[n - Len(s)] = i
      BY <1>1, <1>2, <2>2
    <3> QED BY <3>1
  <2> QED BY <2>1, <2>2
<1>3. ASSUME NEW m \in DOMAIN s, s[m] = i
      PROVE  \E n \in DOMAIN (s \o r) : (s \o r)[n] = i
  BY <1>1, <1>3
<1>4. ASSUME NEW m \in DOMAIN r, r[m] = i
      PROVE  \E n \in DOMAIN (s \o r) : (s \o r)[n] = i
  <2>1. Len(s) + m \in DOMAIN (s \o r) /\ (s \o r)[Len(s) + m] = i
    BY <1>1, <1>4
  <2> QED BY <2>1
<1>5. Occurs(i, s \o r) => Occurs(i, s) \/ Occurs(i, r)
  BY <1>2 DEF Occurs
<1>6. Occurs(i, s) => Occurs(i, s \o r)
  BY <1>3 DEF Occurs
<1>7. Occurs(i, r) => Occurs(i, s \o r)
  BY <1>4 DEF Occurs
<1> QED BY <1>5, <1>6, <1>7

\* Every step hands some non-empty batches on and settles the fates of what
\* was in them; besides, at most one new item gets a fate.
HandsOn(P, res) ==
  /\ \A k \in P : batch[k] # <<>>
  /\ out' = HandedOn(P)
  /\ \A i \in Items :
       \/ fate'[i] = Fated(P, res)[i]
       \/ fate[i] = "new" /\ fate'[i] \in {"batched", "lost", "refused"}

\* After a flush an item has left if it had left, or was in a batch taken out.
LEMMA OutOfHandedOn ==
  ASSUME TypeOK, NEW P \in SUBSET Kinds, NEW k \in Kinds, NEW i
  PROVE  Occurs(i, HandedOn(P)[k])
           <=> Occurs(i, out[k]) \/ (k \in P /\ Occurs(i, batch[k]))
<1>1. out[k] \in Seq(Items) /\ batch[k] \in Seq(Items)
  BY DEF TypeOK
<1>2. CASE k \in P
  <2>1. HandedOn(P)[k] = out[k] \o batch[k]
    BY <1>2 DEF HandedOn
  <2>2. Occurs(i, out[k] \o batch[k]) <=> Occurs(i, out[k]) \/ Occurs(i, batch[k])
    BY <1>1, OccursInConcat
  <2> QED BY <1>2, <2>1, <2>2
<1>3. CASE k \notin P
  BY <1>3 DEF HandedOn
<1> QED BY <1>2, <1>3

\* A flush keeps the agreement between having left and having a final fate.
LEMMA HandsOnKeepsOutFates ==
  ASSUME TypeOK, FateMatchesBatch, OutFates,
         NEW P \in SUBSET Kinds, NEW res \in ResultMaps, HandsOn(P, res)
  PROVE  OutFates'
<1> SUFFICES ASSUME NEW k \in Kinds, NEW n \in DOMAIN out'[k]
             PROVE  /\ Kind[out'[k][n]] = k
                    /\ fate'[out'[k][n]] \in {"sent", "failed", "lost"}
  BY DEF OutFates
<1> DEFINE i == out'[k][n]
<1>1. out' = HandedOn(P)
  BY DEF HandsOn
<1>2. i \in Items
  <2>1. HandedOn(P)[k] \in Seq(Items)
    BY HandedOnType DEF TypeOK
  <2> QED BY <1>1, <2>1, ElementOfSeq, LenProperties
<1>3. \/ \E m \in DOMAIN out[k] : out[k][m] = i
      \/ k \in P /\ \E m \in DOMAIN batch[k] : batch[k][m] = i
  <2>1. Occurs(i, HandedOn(P)[k])
    BY <1>1 DEF Occurs
  <2>2. Occurs(i, out[k]) \/ (k \in P /\ Occurs(i, batch[k]))
    BY <2>1, OutOfHandedOn
  <2> QED BY <2>2 DEF Occurs
<1> HIDE DEF i
<1>4. \/ fate'[i] = Fated(P, res)[i]
      \/ fate[i] = "new"
  BY <1>2 DEF HandsOn
<1>5. CASE \E m \in DOMAIN out[k] : out[k][m] = i
  <2>1. Kind[i] = k /\ fate[i] \in {"sent", "failed", "lost"}
    BY <1>5 DEF OutFates
  <2> QED BY <1>2, <1>4, <2>1 DEF Fated, i
<1>6. CASE k \in P /\ \E m \in DOMAIN batch[k] : batch[k][m] = i
  <2>1. Kind[i] = k /\ fate[i] = "batched"
    BY <1>2, <1>6 DEF FateMatchesBatch, Waiting
  <2>2. res[k] \in {"sent", "failed", "lost"}
    BY BatchManagerAssumption DEF ResultMaps, Results
  <2> QED BY <1>2, <1>4, <1>6, <2>1, <2>2 DEF Fated, i
<1> QED BY <1>3, <1>5, <1>6

\* The result of an item that leaves is the result of its batch.
LEMMA ResultsHandedOn ==
  ASSUME TypeOK, FateMatchesBatch, OutFates,
         NEW P \in SUBSET Kinds, NEW res \in ResultMaps, HandsOn(P, res),
         NEW i \in Items
  PROVE  ResultOf(i)' = IF Kind[i] \in P /\ Waiting(i)
                        THEN res[Kind[i]] ELSE ResultOf(i)
<1> DEFINE k == Kind[i]
<1>1. k \in Kinds /\ out' = HandedOn(P)
  BY ItemFacts DEF HandsOn
<1>2. HasLeft(i)' <=> HasLeft(i) \/ (k \in P /\ Waiting(i))
  <2>1. (\E n \in DOMAIN HandedOn(P)[k] : HandedOn(P)[k][n] = i)
          <=> HasLeft(i) \/ (k \in P /\ Waiting(i))
    <3>1. Occurs(i, HandedOn(P)[k])
            <=> Occurs(i, out[k]) \/ (k \in P /\ Occurs(i, batch[k]))
      BY <1>1, OutOfHandedOn
    <3> QED BY <3>1 DEF HasLeft, Waiting, Occurs
  <2>2. HasLeft(i)' <=> \E n \in DOMAIN out'[k] : out'[k][n] = i
    BY DEF HasLeft
  <2> QED BY <1>1, <2>1, <2>2
<1>3. res[k] \in {"sent", "failed", "lost"}
  BY <1>1, BatchManagerAssumption DEF ResultMaps, Results
<1>4. CASE k \in P /\ Waiting(i)
  <2>1. fate[i] = "batched"
    BY <1>4 DEF FateMatchesBatch
  <2>2. fate'[i] = res[k]
    BY <1>4, <2>1 DEF HandsOn, Fated
  <2> QED BY <1>2, <1>3, <1>4, <2>2 DEF ResultOf
<1>5. CASE ~(k \in P /\ Waiting(i))
  <2>1. Fated(P, res)[i] = fate[i]
    BY <1>5 DEF Fated, FateMatchesBatch
  <2>2. CASE fate'[i] = fate[i]
    BY <1>2, <1>5, <2>2 DEF ResultOf
  <2>3. CASE fate[i] = "new" /\ fate'[i] \in {"batched", "lost", "refused"}
    <3>1. ~HasLeft(i)
      BY <1>1, <2>3 DEF HasLeft, OutFates
    <3> QED BY <1>2, <1>5, <2>3, <3>1 DEF ResultOf
  <2> QED BY <2>1, <2>2, <2>3 DEF HandsOn
<1> QED BY <1>4, <1>5

\* The steps again, as steps of an Outbox see them.
LEMMA AcceptsHandsOn ==
  ASSUME TypeOK, NEW i \in Items, NEW P \in SUBSET Kinds, NEW res \in ResultMaps,
         AcceptsAs(i, P, res)
  PROVE  HandsOn(P, res)
<1>1. fate' = [Fated(P, res) EXCEPT ![i] = "batched"] /\ fate[i] = "new"
  BY DEF AcceptsAs
<1>2. \A j \in Items : j # i => fate'[j] = Fated(P, res)[j]
  BY <1>1 DEF Fated
<1>3. fate'[i] = "batched"
  BY <1>1 DEF Fated
<1>4. out' = HandedOn(P) /\ \A k \in P : batch[k] # <<>>
  BY DEF AcceptsAs, Popped
<1> QED BY <1>1, <1>2, <1>3, <1>4 DEF HandsOn

\* A flush whose exception escapes hands its batches on like any other.
LEMMA ThrowsHandsOn ==
  ASSUME TypeOK, NEW i \in Items, NEW P \in SUBSET Kinds, NEW res \in ResultMaps,
         ThrowsAs(i, P, res)
  PROVE  HandsOn(P, res)
<1>1. fate' = [Fated(P, res) EXCEPT ![i] = "lost"] /\ fate[i] = "new"
  BY DEF ThrowsAs
<1>2. \A j \in Items : j # i => fate'[j] = Fated(P, res)[j]
  BY <1>1 DEF Fated
<1>3. fate'[i] = "lost"
  BY <1>1 DEF Fated
<1>4. out' = HandedOn(P) /\ \A k \in P : batch[k] # <<>>
  BY DEF ThrowsAs, Popped
<1> QED BY <1>1, <1>2, <1>3, <1>4 DEF HandsOn

\* A refused item was in no stream and is in none.
LEMMA RefusedKeepsResults ==
  ASSUME TypeOK, OutFates, Refused
  PROVE  /\ UNCHANGED <<batch, out>>
         /\ OutFates'
         /\ \A i \in Items : ResultOf(i)' = ResultOf(i)
<1>1. PICK t \in Threads, j \in Items : SubmitRefused(t, j)
  BY DEF Refused
<1>2. /\ fate[j] = "new"
      /\ fate' = [fate EXCEPT ![j] = "refused"]
      /\ UNCHANGED <<batch, out>>
  BY <1>1 DEF SubmitRefused
<1>3. \A k \in Kinds : \A n \in DOMAIN out[k] : out[k][n] # j
  BY <1>2 DEF OutFates
<1>4. \A i : i # j => fate'[i] = fate[i]
  BY <1>2 DEF TypeOK
<1>5. OutFates'
  BY <1>2, <1>3, <1>4 DEF OutFates
<1>6. ASSUME NEW i \in Items PROVE ResultOf(i)' = ResultOf(i)
  <2>1. CASE i = j
    <3>1. ~HasLeft(i) /\ ~HasLeft(i)'
      BY <1>2, <1>3, <2>1, ItemFacts DEF HasLeft
    <3>2. fate[i] = "new" /\ fate'[i] = "refused"
      BY <1>2, <2>1 DEF TypeOK
    <3> QED BY <3>1, <3>2 DEF ResultOf
  <2>2. CASE i # j
    BY <1>2, <1>4, <2>2 DEF ResultOf, HasLeft
  <2> QED BY <2>1, <2>2
<1> QED BY <1>2, <1>5, <1>6

\* The agreement between having left and having a final fate always holds.
LEMMA OutFatesKept == Spec => []OutFates
<1>1. Init => OutFates
  BY DEF Init, OutFates
<1>2. TypeOK /\ FateMatchesBatch /\ OutFates /\ [Next]_vars => OutFates'
  <2> SUFFICES ASSUME TypeOK, FateMatchesBatch, OutFates, [Next]_vars
               PROVE  OutFates'
    OBVIOUS
  <2>1. CASE Refused
    BY <2>1, RefusedKeepsResults
  <2>2. CASE Accepts
    BY <2>2, AcceptsUnfolded, AcceptsHandsOn, HandsOnKeepsOutFates
  <2>3. CASE Throws
    BY <2>3, ThrowsUnfolded, ThrowsHandsOn, HandsOnKeepsOutFates
  <2>4. CASE Flushes
    <3>1. PICK P \in SUBSET Kinds, res \in ResultMaps : HandsOn(P, res)
      BY <2>4 DEF Flushes, FlushBatches, HandsOn
    <3> QED BY <3>1, HandsOnKeepsOutFates
  <2>5. CASE Lives
    BY <2>5 DEF Lives, OutFates
  <2> QED BY <2>1, <2>2, <2>3, <2>4, <2>5, StepsOfBatches
<1> QED BY <1>1, <1>2, TypeCorrect, FatesMatch, PTL DEF Spec

-----------------------------------------------------------------------------
Mapped == [i \in Items |-> ResultOf(i)]

\* A handing on is what Leave says of the streams in P.
LEMMA HandsOnLeaves ==
  ASSUME TypeOK, FateMatchesBatch, OutFates,
         NEW P \in SUBSET Kinds, NEW res \in ResultMaps, HandsOn(P, res)
  PROVE  \E r \in [Kinds -> {"sent", "failed", "lost"}] : Box!Leave(P, r)
<1>1. res \in [Kinds -> {"sent", "failed", "lost"}]
  BY BatchManagerAssumption DEF ResultMaps, Results
<1>2. out' = [k \in Kinds |-> IF k \in P THEN out[k] \o batch[k] ELSE out[k]]
  BY DEF HandsOn, HandedOn
<1>3. Mapped' = [i \in Items |->
                   IF Kind[i] \in P /\ Box!Occurs(i, batch[Kind[i]])
                   THEN res[Kind[i]] ELSE Mapped[i]]
  BY ResultsHandedOn DEF Mapped, Box!Occurs, Waiting
<1>4. Box!Leave(P, res)
  BY <1>2, <1>3 DEF Box!Leave, Mapped
<1> QED BY <1>1, <1>4

\* The manager implements the Outbox: what submit accepts leaves in order,
\* whole batches at a time, each with one result.
THEOREM ImplementsOutbox == Spec => KeepsOutbox
<1>1. Init => Box!Init
  <2> SUFFICES ASSUME Init PROVE Box!Init
    OBVIOUS
  <2>1. \A i \in Items : ResultOf(i) = "none"
    <3>1. DOMAIN <<>> = {}
      OBVIOUS
    <3> QED BY <3>1, ItemFacts DEF Init, ResultOf, HasLeft
  <2> QED BY <2>1 DEF Init, Box!Init
<1>2. /\ TypeOK /\ FateMatchesBatch /\ OutFates /\ [Next]_vars
      => [Box!Next]_(Box!ovars)
  <2> SUFFICES ASSUME TypeOK, FateMatchesBatch, OutFates, [Next]_vars
               PROVE  [Box!Next]_(Box!ovars)
    OBVIOUS
  <2>1. ASSUME NEW P \in SUBSET Kinds, NEW res \in ResultMaps,
               HandsOn(P, res), batch' = Emptied(P)
        PROVE  Box!Next
    <3>1. Box!Drain(P)
      BY <2>1, HandsOnLeaves DEF Box!Drain, Box!Rest, Emptied, HandsOn
    <3> QED BY <3>1 DEF Box!Next
  <2>2. CASE Refused
    <3>1. UNCHANGED <<batch, out, Mapped>>
      BY <2>2, RefusedKeepsResults DEF Mapped
    <3> QED BY <3>1 DEF Box!ovars, Mapped
  <2>3. CASE Accepts
    <3>1. PICK i \in Items, P \in SUBSET Kinds, res \in ResultMaps :
            AcceptsAs(i, P, res)
      BY <2>3, AcceptsUnfolded
    <3>2. HandsOn(P, res)
      BY <3>1, AcceptsHandsOn
    <3>3. P \subseteq {Kind[i]} /\ fate[i] = "new"
          /\ batch' = [Emptied(P) EXCEPT ![Kind[i]] = Append(@, i)]
      BY <3>1 DEF AcceptsAs, Popped, RoomFor
    <3>4. Box!Unknown(i)
      BY <3>3, ItemFacts
      DEF Box!Unknown, Box!Occurs, FateMatchesBatch, Waiting, OutFates
    <3>5. Box!Accept(i, P)
      BY <3>2, <3>3, <3>4, HandsOnLeaves
      DEF Box!Accept, Box!Rest, Emptied, HandsOn
    <3> QED BY <3>5 DEF Box!Next
  <2>4. CASE Throws
    <3>1. PICK i \in Items, P \in SUBSET Kinds, res \in ResultMaps :
            ThrowsAs(i, P, res)
      BY <2>4, ThrowsUnfolded
    <3>2. batch' = Emptied(P)
      BY <3>1 DEF ThrowsAs
    <3> QED BY <2>1, <3>1, <3>2, ThrowsHandsOn
  <2>5. CASE Flushes
    <3>1. PICK P \in SUBSET Kinds, res \in ResultMaps :
            HandsOn(P, res) /\ batch' = Emptied(P)
      BY <2>5 DEF Flushes, FlushBatches, HandsOn
    <3> QED BY <2>1, <3>1
  <2>6. CASE Lives
    BY <2>6 DEF Lives, Box!ovars, ResultOf, HasLeft
  <2> QED BY <2>2, <2>3, <2>4, <2>5, <2>6, StepsOfBatches
<1> QED
  BY <1>1, <1>2, TypeCorrect, FatesMatch, OutFatesKept, PTL
  DEF Spec, KeepsOutbox, Box!SafeSpec
-----------------------------------------------------------------------------
(***************************************************************************)
(* What the statistics count.                                              *)
(***************************************************************************)
ItemsIn(k) == {batch[k][n] : n \in DOMAIN batch[k]}

\* No item is twice in a batch, so that a batch has as many items as places.
NoItemTwice ==
  \A k \in Kinds : \A m, n \in DOMAIN batch[k] : batch[k][m] = batch[k][n] => m = n

FatesCounted ==
  /\ StatsMatchFates
  /\ \A k \in Kinds : \A r \in {"sent", "failed"} : IsFiniteSet(WithFate(k, r))

\* An item waits in one place only: what is submitted is new, and what waits is
\* not.
LEMMA ItemsWaitOnce == Spec => []NoItemTwice
<1>1. Init => NoItemTwice
  BY DEF Init, NoItemTwice
<1>2. TypeOK /\ FateMatchesBatch /\ NoItemTwice /\ [Next]_vars => NoItemTwice'
  <2> SUFFICES ASSUME TypeOK, FateMatchesBatch, NoItemTwice, [Next]_vars
               PROVE  NoItemTwice'
    OBVIOUS
  <2>1. \A P \in SUBSET Kinds, k \in Kinds :
          \A m, n \in DOMAIN Emptied(P)[k] :
            Emptied(P)[k][m] = Emptied(P)[k][n] => m = n
    BY DEF Emptied, NoItemTwice
  <2>2. CASE Refused \/ Lives
    BY <2>2 DEF Refused, SubmitRefused, Lives, NoItemTwice
  <2>3. CASE Throws \/ Flushes
    <3>1. \E P \in SUBSET Kinds : batch' = Emptied(P)
      BY <2>3, ThrowsUnfolded DEF ThrowsAs, Flushes, FlushBatches
    <3> QED BY <2>1, <3>1 DEF NoItemTwice
  <2>4. CASE Accepts
    <3>1. PICK i \in Items, P \in SUBSET Kinds, res \in ResultMaps :
            AcceptsAs(i, P, res)
      BY <2>4, AcceptsUnfolded
    <3> DEFINE k == Kind[i]
               B == Emptied(P)
    <3>2. k \in Kinds /\ B \in [Kinds -> Seq(Items)]
      BY ItemFacts, EmptiedType DEF TypeOK
    <3>3. batch' = [B EXCEPT ![k] = Append(@, i)] /\ fate[i] = "new"
      BY <3>1 DEF AcceptsAs
    <3>4. \A n \in DOMAIN B[k] : B[k][n] # i
      <4>1. \A n \in DOMAIN batch[k] : batch[k][n] # i
        BY <3>3 DEF FateMatchesBatch, Waiting
      <4>2. B[k] = <<>> \/ B[k] = batch[k]
        BY <3>2 DEF Emptied
      <4>3. DOMAIN <<>> = {}
        OBVIOUS
      <4> QED BY <4>1, <4>2, <4>3
    <3>5. \A m \in Kinds : \A n, o \in DOMAIN B[m] : B[m][n] = B[m][o] => n = o
      BY <2>1
    <3> HIDE DEF B
    <3> DEFINE b == B[k]
    <3>6. /\ b \in Seq(Items) /\ Len(b) \in Nat
          /\ DOMAIN b = 1 .. Len(b)
          /\ DOMAIN Append(b, i) = 1 .. Len(b) + 1
          /\ \A n \in 1 .. Len(b) : Append(b, i)[n] = b[n]
          /\ Append(b, i)[Len(b) + 1] = i
      BY <3>2, LenProperties, AppendProperties
    <3>7. /\ batch'[k] = Append(b, i)
          /\ \A m \in Kinds : m # k => batch'[m] = B[m]
      BY <3>2, <3>3
    <3>8. \A n, o \in DOMAIN Append(b, i) :
            Append(b, i)[n] = Append(b, i)[o] => n = o
      BY <3>2, <3>4, <3>5, <3>6
    <3> QED BY <3>5, <3>7, <3>8 DEF NoItemTwice
  <2> QED BY <2>2, <2>3, <2>4, StepsOfBatches
<1> QED BY <1>1, <1>2, TypeCorrect, FatesMatch, PTL DEF Spec

\* A batch without repetition has as many items as it is long.
LEMMA ItemsInBatch ==
  ASSUME TypeOK, NoItemTwice, NEW k \in Kinds
  PROVE  IsFiniteSet(ItemsIn(k)) /\ Cardinality(ItemsIn(k)) = Len(batch[k])
<1> DEFINE b == batch[k]
<1>1. b \in Seq(Items) /\ Len(b) \in Nat /\ DOMAIN b = 1 .. Len(b)
  BY LenProperties DEF TypeOK
<1>2. b \in Bijection(1 .. Len(b), ItemsIn(k))
  <2>1. b \in [1 .. Len(b) -> ItemsIn(k)]
    BY <1>1 DEF ItemsIn
  <2>2. b \in Injection(1 .. Len(b), ItemsIn(k))
    BY <1>1, <2>1 DEF Injection, IsInjective, NoItemTwice
  <2>3. b \in Surjection(1 .. Len(b), ItemsIn(k))
    BY <1>1, <2>1 DEF Surjection, ItemsIn
  <2> QED BY <2>2, <2>3 DEF Bijection
<1>3. ExistsBijection(1 .. Len(b), ItemsIn(k))
  BY <1>2 DEF ExistsBijection
<1>4. IsFiniteSet(1 .. Len(b)) /\ Cardinality(1 .. Len(b)) = Len(b)
  BY <1>1, FS_Interval
<1> QED BY <1>3, <1>4, FS_Bijection

\* What a result adds to the statistics.
LEMMA CountedBatch ==
  ASSUME NEW k \in Kinds, NEW r, NEW s \in [sent : Nat, failed : Nat, items : Nat]
  PROVE  /\ Counted(s, k, r).items =
              IF r = "sent" THEN s.items + Len(batch[k]) ELSE s.items
         /\ Counted(s, k, r).sent = IF r = "sent" THEN s.sent + 1 ELSE s.sent
         /\ Counted(s, k, r).failed = IF r = "failed" THEN s.failed + 1 ELSE s.failed
<1> DEFINE a == [s EXCEPT !.sent = @ + 1, !.items = @ + Len(batch[k])]
           b == [s EXCEPT !.failed = @ + 1]
<1>1. /\ a.items = s.items + Len(batch[k])
      /\ a.sent = s.sent + 1
      /\ a.failed = s.failed
  OBVIOUS
<1>2. b.items = s.items /\ b.sent = s.sent /\ b.failed = s.failed + 1
  OBVIOUS
<1>3. Counted(s, k, r) = IF r = "sent" THEN a ELSE IF r = "failed" THEN b ELSE s
  BY DEF Counted
<1> HIDE DEF a, b
<1> QED BY <1>1, <1>2, <1>3

\* The items of a batch that leaves with a result join those that had it
\* before, and the others with that result stay what they are.
LEMMA FatesJoin ==
  ASSUME TypeOK, FateMatchesBatch, NoItemTwice,
         NEW P \in SUBSET Kinds, NEW res, NEW k \in Kinds,
         NEW r \in {"sent", "failed"},
         IsFiniteSet(WithFate(k, r)),
         \A i \in Items : fate'[i] = r <=> Fated(P, res)[i] = r
  PROVE  /\ IsFiniteSet(WithFate(k, r)')
         /\ Cardinality(WithFate(k, r)') =
              Cardinality(WithFate(k, r))
                + (IF k \in P /\ res[k] = r THEN Len(batch[k]) ELSE 0)
<1>1. \A i \in ItemsIn(k) : i \in Items /\ Kind[i] = k /\ fate[i] = "batched"
  <2>1. \A n \in DOMAIN batch[k] : batch[k][n] \in Items
    BY ElementOfSeq, LenProperties DEF TypeOK
  <2> QED BY <2>1 DEF ItemsIn, FateMatchesBatch, Waiting
<1>2. \A i \in Items : Kind[i] = k /\ fate[i] = "batched" => i \in ItemsIn(k)
  BY DEF ItemsIn, FateMatchesBatch, Waiting
<1>3. CASE k \in P /\ res[k] = r
  <2>1. WithFate(k, r)' = WithFate(k, r) \union ItemsIn(k)
    BY <1>1, <1>2, <1>3 DEF WithFate, Fated
  <2>2. WithFate(k, r) \intersect ItemsIn(k) = {}
    BY <1>1 DEF WithFate
  <2>3. IsFiniteSet(ItemsIn(k)) /\ Cardinality(ItemsIn(k)) = Len(batch[k])
    BY ItemsInBatch
  <2>4. IsFiniteSet(WithFate(k, r)')
    BY <2>1, <2>3, FS_Union
  <2>5. Cardinality(WithFate(k, r)') =
          Cardinality(WithFate(k, r)) + Cardinality(ItemsIn(k)) - Cardinality({})
    BY <2>1, <2>2, <2>3, FS_Union
  <2>6. Cardinality({}) = 0
    BY FS_EmptySet
  <2>7. Cardinality(WithFate(k, r)) \in Nat /\ Len(batch[k]) \in Nat
    BY <2>3, FS_CardinalityType
  <2> QED BY <1>3, <2>3, <2>4, <2>5, <2>6, <2>7
<1>4. CASE ~(k \in P /\ res[k] = r)
  <2>1. WithFate(k, r)' = WithFate(k, r)
    BY <1>4 DEF WithFate, Fated
  <2>2. Cardinality(WithFate(k, r)) \in Nat
    BY FS_CardinalityType
  <2> QED BY <1>4, <2>1, <2>2
<1> QED BY <1>3, <1>4

\* When the items grow by those of a batch that is not empty and the counter
\* grows by one, the counter still fits the items.
LEMMA OneBatchMore ==
  ASSUME NEW n \in Nat, NEW I, IsFiniteSet(I), BatchesOf(n, I),
         NEW J, IsFiniteSet(J), NEW d \in Nat,
         Cardinality(J) = Cardinality(I) + d
  PROVE  /\ d > 0 => BatchesOf(n + 1, J)
         /\ d = 0 => BatchesOf(n, J)
<1>1. Cardinality(I) \in Nat /\ Cardinality(J) \in Nat
  BY FS_CardinalityType
<1>2. d = 0 /\ J # {} => I # {}
  <2>1. Cardinality(J) = 0 <=> J = {}
    BY FS_EmptySet
  <2>2. Cardinality(I) = 0 <=> I = {}
    BY FS_EmptySet
  <2> QED BY <1>1, <2>1, <2>2
<1> QED BY <1>1, <1>2 DEF BatchesOf

\* Batches that are popped and counted by their results keep the statistics
\* true.
LEMMA CountersJoin ==
  ASSUME TypeOK, FateMatchesBatch, NoItemTwice, FatesCounted,
         NEW P \in SUBSET Kinds, NEW res,
         \A k \in P : batch[k] # <<>>,
         \A i \in Items : \A r \in {"sent", "failed"} :
           fate'[i] = r <=> Fated(P, res)[i] = r,
         \A k \in Kinds : stats'[k] = IF k \in P THEN Counted(stats[k], k, res[k])
                                                 ELSE stats[k]
  PROVE  FatesCounted'
<1> SUFFICES ASSUME NEW k \in Kinds
             PROVE  /\ stats'[k].items = Cardinality(WithFate(k, "sent")')
                    /\ BatchesOf(stats'[k].sent, WithFate(k, "sent")')
                    /\ BatchesOf(stats'[k].failed, WithFate(k, "failed")')
                    /\ \A r \in {"sent", "failed"} : IsFiniteSet(WithFate(k, r)')
  BY DEF FatesCounted, StatsMatchFates, BatchesOf
<1> DEFINE S == WithFate(k, "sent")
           F == WithFate(k, "failed")
           dS == IF k \in P /\ res[k] = "sent" THEN Len(batch[k]) ELSE 0
           dF == IF k \in P /\ res[k] = "failed" THEN Len(batch[k]) ELSE 0
<1>1. /\ IsFiniteSet(S) /\ IsFiniteSet(F)
      /\ stats[k].items = Cardinality(S)
      /\ BatchesOf(stats[k].sent, S) /\ BatchesOf(stats[k].failed, F)
  BY DEF FatesCounted, StatsMatchFates
<1>2. IsFiniteSet(S') /\ Cardinality(S') = Cardinality(S) + dS
  BY <1>1, FatesJoin
<1>3. IsFiniteSet(F') /\ Cardinality(F') = Cardinality(F) + dF
  BY <1>1, FatesJoin
<1>4. stats[k] \in [sent : Nat, failed : Nat, items : Nat]
  BY DEF TypeOK
<1>5. k \in P => Len(batch[k]) \in Nat /\ Len(batch[k]) > 0
  <2>1. batch[k] \in Seq(Items) /\ Len(batch[k]) \in Nat
    BY LenProperties DEF TypeOK
  <2> QED BY <2>1, EmptySeq
<1>6. /\ dS \in Nat /\ dF \in Nat
      /\ dS > 0 <=> k \in P /\ res[k] = "sent"
      /\ dF > 0 <=> k \in P /\ res[k] = "failed"
  BY <1>5
<1>7. /\ stats'[k].items = stats[k].items + dS
      /\ stats'[k].sent = IF dS > 0 THEN stats[k].sent + 1 ELSE stats[k].sent
      /\ stats'[k].failed = IF dF > 0 THEN stats[k].failed + 1 ELSE stats[k].failed
  <2>1. CASE k \in P
    <3>1. stats'[k] = Counted(stats[k], k, res[k])
      BY <2>1
    <3>2. /\ stats'[k].items =
               IF res[k] = "sent" THEN stats[k].items + Len(batch[k]) ELSE stats[k].items
          /\ stats'[k].sent = IF res[k] = "sent" THEN stats[k].sent + 1 ELSE stats[k].sent
          /\ stats'[k].failed =
               IF res[k] = "failed" THEN stats[k].failed + 1 ELSE stats[k].failed
      BY <1>4, <3>1, CountedBatch
    <3> QED BY <1>4, <1>6, <2>1, <3>2
  <2>2. CASE k \notin P
    <3>1. stats'[k] = stats[k]
      BY <2>2
    <3> QED BY <1>4, <1>6, <2>2, <3>1
  <2> QED BY <2>1, <2>2
<1> HIDE DEF S, F, dS, dF
<1>8. stats[k].sent \in Nat /\ stats[k].failed \in Nat
  BY <1>4
<1>9. BatchesOf(stats'[k].sent, S')
  <2>1. /\ dS > 0 => BatchesOf(stats[k].sent + 1, S')
        /\ dS = 0 => BatchesOf(stats[k].sent, S')
    BY <1>1, <1>2, <1>6, <1>8, OneBatchMore
  <2> QED BY <1>6, <1>7, <2>1
<1>10. BatchesOf(stats'[k].failed, F')
  <2>1. /\ dF > 0 => BatchesOf(stats[k].failed + 1, F')
        /\ dF = 0 => BatchesOf(stats[k].failed, F')
    BY <1>1, <1>3, <1>6, <1>8, OneBatchMore
  <2> QED BY <1>6, <1>7, <2>1
<1> QED BY <1>1, <1>2, <1>3, <1>7, <1>9, <1>10 DEF S, F

\* The kinds whose batches a step pops had items waiting.
LEMMA PoppedHold ==
  \A K, res : \A k \in Popped(K, res) : batch[k] # <<>>
BY DEF Popped

\* batches_sent, batches_failed and items_batched of a kind tell what became of
\* its items: those that were sent are counted one by one and in at least one
\* batch, those that failed in at least one failed batch, and no batch is
\* counted that held nothing, whichever threads flush and whatever the callback
\* throws.
THEOREM StatsCountWhatWasSent == Spec => []StatsMatchFates
<1>1. Init => FatesCounted
  <2> SUFFICES ASSUME Init, NEW k \in Kinds
               PROVE  /\ \A r \in {"sent", "failed"} : WithFate(k, r) = {}
                      /\ stats[k] = [sent |-> 0, failed |-> 0, items |-> 0]
    BY FS_EmptySet DEF FatesCounted, StatsMatchFates, BatchesOf
  <2> QED BY DEF Init, WithFate
<1>2. /\ TypeOK /\ FateMatchesBatch /\ NoItemTwice
      /\ FatesCounted /\ [Next]_vars
      => FatesCounted'
  <2> SUFFICES ASSUME TypeOK, FateMatchesBatch, NoItemTwice, FatesCounted,
                      [Next]_vars
               PROVE  FatesCounted'
    OBVIOUS
  <2>0. ASSUME UNCHANGED stats,
               \A k \in Kinds : \A r \in {"sent", "failed"} :
                 WithFate(k, r)' = WithFate(k, r)
        PROVE  FatesCounted'
    BY <2>0 DEF FatesCounted, StatsMatchFates
  <2>1. CASE Refused
    <3>1. \A k \in Kinds : \A r \in {"sent", "failed"} :
            WithFate(k, r)' = WithFate(k, r)
      BY <2>1 DEF Refused, SubmitRefused, WithFate, TypeOK
    <3>2. UNCHANGED stats
      BY <2>1 DEF Refused, SubmitRefused
    <3> QED BY <2>0, <3>1, <3>2
  <2>2. CASE Lives
    <3>1. \A k \in Kinds : \A r \in {"sent", "failed"} :
            WithFate(k, r)' = WithFate(k, r)
      BY <2>2 DEF Lives, WithFate
    <3>2. UNCHANGED stats
      BY <2>2 DEF Lives
    <3> QED BY <2>0, <3>1, <3>2
  <2>3. CASE Flushes
    <3>1. PICK P \in SUBSET Kinds, res \in ResultMaps :
            FlushBatches(P, res) /\ \A k \in P : batch[k] # <<>>
      BY <2>3 DEF Flushes
    <3> QED BY <3>1, CountersJoin DEF FlushBatches
  <2>4. CASE Accepts
    <3>1. PICK t \in Threads, i \in Items : Submit(t, i)
      BY <2>4 DEF Accepts
    <3> DEFINE PoppedBy(res) == Popped(RoomFor(i), res)
    <3>2. PICK res \in ResultMaps :
            /\ fate' = [Fated(PoppedBy(res), res) EXCEPT ![i] = "batched"]
            /\ stats' = [n \in Kinds |->
                           IF n \in PoppedBy(res) THEN Counted(stats[n], n, res[n])
                                                  ELSE stats[n]]
      BY <3>1 DEF Submit
    <3> DEFINE P == PoppedBy(res)
    <3>3. P \in SUBSET Kinds /\ \A k \in P : batch[k] # <<>>
      BY PoppedKinds, RoomForKinds, PoppedHold
    <3>4. fate[i] = "new"
      BY <3>1 DEF Submit
    <3> HIDE DEF P
    <3>5. \A j \in Items : \A r \in {"sent", "failed"} :
            fate'[j] = r <=> Fated(P, res)[j] = r
      BY <3>2, <3>4 DEF Fated, P
    <3>6. \A k \in Kinds : stats'[k] = IF k \in P THEN Counted(stats[k], k, res[k])
                                                  ELSE stats[k]
      BY <3>2 DEF P
    <3> QED BY <3>3, <3>5, <3>6, CountersJoin
  <2>5. CASE Throws
    <3>1. PICK t \in Threads, i \in Items : SubmitThrows(t, i)
      BY <2>5 DEF Throws
    <3>2. PICK res \in ResultMaps :
            /\ Escapes(Popped(RoomFor(i), res), res)
            /\ fate' = [Fated(Popped(RoomFor(i), res), res) EXCEPT ![i] = "lost"]
      BY <3>1 DEF SubmitThrows
    <3>3. fate[i] = "new" /\ UNCHANGED stats
      BY <3>1 DEF SubmitThrows
    <3>4. \A k \in Popped(RoomFor(i), res) : res[k] = "lost"
      BY <3>2 DEF Escapes, Popped, RoomFor
    <3>5. \A k \in Kinds : \A r \in {"sent", "failed"} :
            WithFate(k, r)' = WithFate(k, r)
      BY <3>2, <3>3, <3>4 DEF WithFate, Fated
    <3> QED BY <2>0, <3>3, <3>5
  <2> QED BY <2>1, <2>2, <2>3, <2>4, <2>5, StepsOfBatches
<1>3. FatesCounted => StatsMatchFates
  BY DEF FatesCounted
<1> QED BY <1>1, <1>2, <1>3, TypeCorrect, FatesMatch, ItemsWaitOnce, PTL DEF Spec
=============================================================================
