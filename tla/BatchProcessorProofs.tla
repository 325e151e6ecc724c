------------------------ MODULE BatchProcessorProofs ------------------------
(***************************************************************************)
(* What TLAPS proves of BatchProcessor, for any number of callers and      *)
(* batches and any sizes: what the counters and a snapshot of them say of  *)
(* the batches, at any moment and across reset_stats().                    *)
(***************************************************************************)
EXTENDS BatchProcessor, FiniteSetTheorems, TLAPS

-----------------------------------------------------------------------------
(***************************************************************************)
(* The inductive invariant.                                                *)
(***************************************************************************)
Names == {"created", "sent", "failed", "items"}
Before == {"check", "create", "send"}
Steps == Before \union {"sent", "items", "failed", "report"}
Fates == {"new", "given", "refused", "sent", "failed", "escaped"}

TypeOK ==
  /\ running \in BOOLEAN
  /\ stats \in [Names -> Nat]
  /\ pc \in [Callers -> {"idle"} \union Steps]
  /\ arg \in [Callers -> Batches \union {NoBatch}]
  /\ reading \in 0 .. 4
  /\ snap \in [Names -> Nat]
  /\ clearing \in 0 .. 4
  /\ fate \in [Batches -> Fates]
  /\ told \in [Batches -> Nat]
  /\ late \in [Callers -> Nat]
  /\ wiped \in BOOLEAN

\* The batches whose caller is at one of some steps.
Of(steps) == {arg[t] : t \in {u \in Callers : pc[u] \in steps}}

\* A call under way has a batch of its own whose fate goes with the step, and
\* every batch whose fate is open is in a call.
CallsOK ==
  /\ \A t \in Callers :
       /\ pc[t] # "idle" => arg[t] \in Batches
       /\ pc[t] \in Before => fate[arg[t]] = "given"
       /\ pc[t] \in {"sent", "items"} => fate[arg[t]] = "sent"
       /\ pc[t] \in {"failed", "report"} => fate[arg[t]] = "failed"
  /\ \A t, u \in Callers :
       pc[t] # "idle" /\ pc[u] # "idle" /\ arg[t] = arg[u] => t = u
  /\ \A b \in Batches : fate[b] = "given" => b \in Of(Before)

\* The batches a counter has counted, had it never been reset.
CreatedOnes == (Batches \ With({"new", "refused"})) \ Of({"check", "create"})
SentOnes == With({"sent"}) \ Of({"sent"})
FailedOnes == With({"failed"}) \ Of({"failed"})
ItemOnes == With({"sent"}) \ Of({"sent", "items"})

Totals ==
  [f \in Names |-> CASE f = "created" -> Cardinality(CreatedOnes)
                     [] f = "sent" -> Cardinality(SentOnes)
                     [] f = "failed" -> Cardinality(FailedOnes)
                     [] f = "items" -> ItemsOf(ItemOnes)]

\* No counter and no field of a snapshot is ahead of what was counted, and no
\* counter is behind it either before the first reset.
CountsOK ==
  \A f \in Names :
    /\ stats[f] <= Totals[f]
    /\ snap[f] <= Totals[f]
    /\ ~wiped => stats[f] = Totals[f]

\* The error callback hears of a batch once, at the end of its call.
ToldOK ==
  \A b \in Batches :
    told[b] = IF fate[b] \in {"refused", "failed"} /\ b \notin Of({"failed", "report"})
              THEN 1 ELSE 0

\* A thread that has sent a batch after stop() is past the read of running_,
\* which it will find cleared.
LateOK ==
  \A t \in Callers :
    /\ running => late[t] = 0
    /\ late[t] <= 1
    /\ late[t] = 1 => pc[t] \notin {"create", "send"}

Inv ==
  /\ TypeOK
  /\ CallsOK
  /\ CountsOK
  /\ ToldOK
  /\ LateOK
-----------------------------------------------------------------------------
(***************************************************************************)
(* Sets of batches.                                                        *)
(***************************************************************************)
LEMMA FieldNames ==
  /\ Len(Fields) = 4 /\ {Fields[n] : n \in DOMAIN Fields} = Names
  /\ \A n \in 0 .. 4 : n < Len(Fields) => Fields[n + 1] \in Names /\ n + 1 \in 0 .. 4
<1>1. Len(Fields) = 4 /\ DOMAIN Fields = 1 .. 4
  BY DEF Fields
<1>2. \A n \in 1 .. 4 : Fields[n] \in Names
  BY DEF Fields, Names
<1>3. /\ Fields[1] = "created" /\ Fields[2] = "sent"
      /\ Fields[3] = "failed" /\ Fields[4] = "items"
  BY DEF Fields
<1>4. \A n \in 0 .. 4 : n < 4 => n + 1 \in 1 .. 4
  OBVIOUS
<1>5. Names \subseteq {Fields[n] : n \in DOMAIN Fields}
  BY <1>1, <1>3 DEF Names
<1> QED
  BY <1>1, <1>2, <1>4, <1>5

\* Any set of batches is finite, and one batch more is one more.
LEMMA OneBatchMore ==
  ASSUME NEW B \in SUBSET Batches, NEW b \in Batches, b \notin B
  PROVE  /\ Cardinality(B) \in Nat
         /\ Cardinality(B \union {b}) = Cardinality(B) + 1
<1>1. IsFiniteSet(Batches)
  BY FS_Interval, ProcessorAssumption DEF Batches
<1>2. IsFiniteSet(B)
  BY <1>1, FS_Subset
<1> QED
  BY <1>2, FS_AddElement, FS_CardinalityType

LEMMA CountIsNat ==
  ASSUME NEW B \in SUBSET Batches
  PROVE  IsFiniteSet(B) /\ Cardinality(B) \in Nat
<1>1. IsFiniteSet(Batches)
  BY FS_Interval, ProcessorAssumption DEF Batches
<1> QED
  BY <1>1, FS_Subset, FS_CardinalityType

ItemSet(B) == UNION {{b} \X (1 .. Size[b]) : b \in B}

\* The items of one batch.
LEMMA ItemsOfOne ==
  ASSUME NEW b \in Batches
  PROVE  /\ IsFiniteSet({b} \X (1 .. Size[b]))
         /\ Cardinality({b} \X (1 .. Size[b])) = Size[b]
<1> DEFINE n == Size[b]
           T == {b} \X (1 .. n)
           f == [i \in 1 .. n |-> <<b, i>>]
<1>1. n \in Nat
  BY ProcessorAssumption
<1>2. IsFiniteSet(1 .. n) /\ Cardinality(1 .. n) = n
  BY <1>1, FS_Interval
<1>3. f \in Bijection(1 .. n, T)
  <2>1. f \in [1 .. n -> T] /\ \A i, j \in 1 .. n : f[i] = f[j] => i = j
    OBVIOUS
  <2>2. \A x \in T : \E i \in 1 .. n : f[i] = x
    OBVIOUS
  <2> HIDE DEF f, T
  <2> QED
    BY <2>1, <2>2 DEF Bijection, Injection, IsInjective, Surjection
<1>4. ExistsBijection(1 .. n, T)
  BY <1>3 DEF ExistsBijection
<1> QED
  BY <1>2, <1>4, FS_Bijection

LEMMA ItemsAreFinite ==
  ASSUME NEW B \in SUBSET Batches
  PROVE  IsFiniteSet(ItemSet(B)) /\ ItemsOf(B) \in Nat
<1> DEFINE I == {{b} \X (1 .. Size[b]) : b \in B}
           f == [b \in B |-> {b} \X (1 .. Size[b])]
<1>1. IsFiniteSet(B)
  BY CountIsNat
<1>2. f \in Surjection(B, I)
  <2>1. f \in [B -> I] /\ \A x \in I : \E b \in B : f[b] = x
    OBVIOUS
  <2> QED
    BY <2>1 DEF Surjection
<1>3. IsFiniteSet(I)
  BY <1>1, <1>2, FS_Surjection
<1>4. \A x \in I : IsFiniteSet(x)
  BY ItemsOfOne
<1>5. IsFiniteSet(UNION I)
  BY <1>3, <1>4, FS_UNION
<1>6. IsFiniteSet(ItemSet(B))
  BY <1>5 DEF ItemSet
<1>7. Cardinality(ItemSet(B)) \in Nat
  BY <1>6, FS_CardinalityType
<1> QED
  BY <1>6, <1>7 DEF ItemSet, ItemsOf

\* A batch more is its items more.
LEMMA ItemsOfOneMore ==
  ASSUME NEW B \in SUBSET Batches, NEW b \in Batches, b \notin B
  PROVE  ItemsOf(B \union {b}) = ItemsOf(B) + Size[b]
<1> DEFINE T == {b} \X (1 .. Size[b])
<1>1. ItemSet(B \union {b}) = ItemSet(B) \union T
  BY DEF ItemSet
<1>2. ItemSet(B) \intersect T = {}
  BY DEF ItemSet
<1>3. IsFiniteSet(ItemSet(B)) /\ IsFiniteSet(T) /\ Cardinality(T) = Size[b]
  BY ItemsAreFinite, ItemsOfOne
<1>4. Cardinality(ItemSet(B) \union T) =
        Cardinality(ItemSet(B)) + Cardinality(T) - Cardinality({})
  BY <1>2, <1>3, FS_Union
<1>5. Cardinality({}) = 0
  BY FS_EmptySet
<1>6. /\ ItemsOf(B) \in Nat /\ Size[b] \in Nat
      /\ ItemsOf(B) = Cardinality(ItemSet(B))
      /\ ItemsOf(B \union {b}) = Cardinality(ItemSet(B \union {b}))
  BY ItemsAreFinite, ProcessorAssumption DEF ItemsOf, ItemSet
<1>7. Cardinality(ItemSet(B \union {b})) = Cardinality(ItemSet(B) \union T)
  BY <1>1
<1> HIDE DEF T
<1> QED
  BY <1>3, <1>4, <1>5, <1>6, <1>7

\* Batches with different fates are different batches.
LEMMA WithDisjoint ==
  ASSUME NEW F, NEW G, F \intersect G = {}
  PROVE  Cardinality(With(F) \union With(G)) = Cardinality(With(F)) + Cardinality(With(G))
<1>1. With(F) \in SUBSET Batches /\ With(G) \in SUBSET Batches
  BY DEF With
<1>2. /\ IsFiniteSet(With(F)) /\ Cardinality(With(F)) \in Nat
      /\ IsFiniteSet(With(G)) /\ Cardinality(With(G)) \in Nat
  BY <1>1, CountIsNat
<1>3. With(F) \intersect With(G) = {}
  BY DEF With
<1>4. Cardinality({}) = 0
  BY FS_EmptySet
<1>5. Cardinality(With(F) \union With(G)) =
        Cardinality(With(F)) + Cardinality(With(G)) - Cardinality({})
  BY <1>2, <1>3, FS_Union
<1> QED
  BY <1>2, <1>4, <1>5

LEMMA SentOrFailed ==
  Cardinality(With({"sent", "failed"})) =
    Cardinality(With({"sent"})) + Cardinality(With({"failed"}))
<1>1. With({"sent", "failed"}) = With({"sent"}) \union With({"failed"})
  BY DEF With
<1>2. {"sent"} \intersect {"failed"} = {}
  OBVIOUS
<1> QED
  BY <1>1, <1>2, WithDisjoint

\* Fewer batches have no more items.
LEMMA ItemsOfSubset ==
  ASSUME NEW B \in SUBSET Batches, NEW A \in SUBSET B
  PROVE  ItemsOf(A) <= ItemsOf(B)
<1>1. IsFiniteSet(ItemSet(B))
  BY ItemsAreFinite
<1>2. ItemSet(A) \in SUBSET ItemSet(B)
  BY DEF ItemSet
<1>3. Cardinality(ItemSet(A)) <= Cardinality(ItemSet(B))
  BY <1>1, <1>2, FS_Subset
<1> QED
  BY <1>3 DEF ItemSet, ItemsOf

-----------------------------------------------------------------------------
(***************************************************************************)
(* What a step of a caller does to the batches in calls.                   *)
(***************************************************************************)
\* A caller that moves on takes its batch with it, and only that.
LEMMA Moves ==
  ASSUME TypeOK, CallsOK, NEW t \in Callers, pc[t] # "idle",
         NEW step, pc' = [pc EXCEPT ![t] = step], arg' = arg,
         NEW S, "idle" \notin S
  PROVE  Of(S)' = IF step \in S THEN Of(S) \union {arg[t]} ELSE Of(S) \ {arg[t]}
<1>1. pc'[t] = step /\ \A u \in Callers : u # t => pc'[u] = pc[u]
  BY DEF TypeOK
<1>2. \A u \in Callers : u # t /\ pc[u] \in S => arg[u] # arg[t]
  BY DEF CallsOK
<1>3. Of(S)' = {arg[u] : u \in {v \in Callers : pc'[v] \in S}}
  BY DEF Of
<1>4. CASE step \in S
  BY <1>1, <1>3, <1>4 DEF Of
<1>5. CASE step \notin S
  BY <1>1, <1>2, <1>3, <1>5 DEF Of
<1> QED
  BY <1>4, <1>5

\* A batch that is handed over joins those whose caller reads running_.
LEMMA Begins ==
  ASSUME TypeOK, NEW t \in Callers, pc[t] = "idle", NEW b,
         pc' = [pc EXCEPT ![t] = "check"], arg' = [arg EXCEPT ![t] = b],
         NEW S, "idle" \notin S
  PROVE  Of(S)' = IF "check" \in S THEN Of(S) \union {b} ELSE Of(S)
<1>1. /\ pc'[t] = "check" /\ arg'[t] = b
      /\ \A u \in Callers : u # t => pc'[u] = pc[u] /\ arg'[u] = arg[u]
  BY DEF TypeOK
<1>2. Of(S)' = {arg'[u] : u \in {v \in Callers : pc'[v] \in S}}
  BY DEF Of
<1>3. CASE "check" \in S
  BY <1>1, <1>2, <1>3 DEF Of
<1>4. CASE "check" \notin S
  BY <1>1, <1>2, <1>4 DEF Of
<1> QED
  BY <1>3, <1>4
-----------------------------------------------------------------------------
(***************************************************************************)
(* One lemma per part of the invariant, one step per action.               *)
(***************************************************************************)
\* Every step keeps the types.
LEMMA TypeStep ==
  TypeOK /\ CallsOK /\ [Next]_vars => TypeOK'
<1> SUFFICES ASSUME TypeOK, CallsOK, [Next]_vars PROVE TypeOK'
  OBVIOUS
<1> USE DEF TypeOK, CallsOK, Steps, Before, Goto, counting, history
<1>1. CASE Start
  BY <1>1 DEF Start
<1>2. CASE Stop
  BY <1>2 DEF Stop
<1>3. ASSUME NEW t \in Callers, Process(t) PROVE TypeOK'
  BY <1>3 DEF Process, Fates
<1>4. ASSUME NEW t \in Callers, Refused(t) PROVE TypeOK'
  BY <1>4 DEF Refused, Becomes, Tell, Fates
<1>5. ASSUME NEW t \in Callers, Created(t) PROVE TypeOK'
  BY <1>5 DEF Created
<1>6. ASSUME NEW t \in Callers, CountCreated(t) PROVE TypeOK'
  BY <1>6 DEF CountCreated, Count, Names
<1>7. ASSUME NEW t \in Callers, Send(t) PROVE TypeOK'
  BY <1>7 DEF Send, Becomes, Fates
<1>8. ASSUME NEW t \in Callers, CountSent(t) PROVE TypeOK'
  BY <1>8 DEF CountSent, Count, Names
<1>9. ASSUME NEW t \in Callers, CountItems(t) PROVE TypeOK'
  BY <1>9, ProcessorAssumption DEF CountItems, Count, Names
<1>10. ASSUME NEW t \in Callers, Fail(t) PROVE TypeOK'
  BY <1>10 DEF Fail, Becomes, Fates
<1>11. ASSUME NEW t \in Callers, CountFailed(t) PROVE TypeOK'
  BY <1>11 DEF CountFailed, Count, Names
<1>12. ASSUME NEW t \in Callers, Report(t) PROVE TypeOK'
  BY <1>12 DEF Report, Tell
<1>13. ASSUME NEW t \in Callers, Escape(t) PROVE TypeOK'
  BY <1>13 DEF Escape, Becomes, Fates
<1>14. CASE ReadField
  BY <1>14, FieldNames DEF ReadField
<1>15. CASE Snapshot
  BY <1>15 DEF Snapshot
<1>16. CASE ClearField
  BY <1>16, FieldNames DEF ClearField
<1>17. CASE UNCHANGED vars
  BY <1>17 DEF vars
<1> QED
  BY <1>1, <1>2, <1>3, <1>4, <1>5, <1>6, <1>7, <1>8, <1>9, <1>10, <1>11, <1>12,
     <1>13, <1>14, <1>15, <1>16, <1>17
  DEF Next

\* A caller that moves on keeps its batch, and the fate goes with the step.
LEMMA CallsMove ==
  ASSUME TypeOK, CallsOK, NEW t \in Callers, pc[t] \in Steps,
         NEW step \in Steps \union {"idle"},
         pc' = [pc EXCEPT ![t] = step], arg' = arg,
         NEW what, fate' = [fate EXCEPT ![arg[t]] = what],
         step \in Before <=> what = "given",
         step \in {"sent", "items"} => what = "sent",
         step \in {"failed", "report"} => what = "failed"
  PROVE  CallsOK'
<1>1. /\ pc'[t] = step /\ \A u \in Callers : u # t => pc'[u] = pc[u]
      /\ arg[t] \in Batches /\ pc[t] # "idle"
  BY DEF TypeOK, CallsOK, Steps, Before
<1>2. fate'[arg[t]] = what /\ \A b \in Batches : b # arg[t] => fate'[b] = fate[b]
  BY <1>1 DEF TypeOK
<1>3. \A u \in Callers : u # t /\ pc[u] # "idle" => arg[u] # arg[t]
  BY <1>1 DEF CallsOK
<1>4. ASSUME NEW u \in Callers
      PROVE  /\ pc'[u] # "idle" => arg'[u] \in Batches
             /\ pc'[u] \in Before => fate'[arg'[u]] = "given"
             /\ pc'[u] \in {"sent", "items"} => fate'[arg'[u]] = "sent"
             /\ pc'[u] \in {"failed", "report"} => fate'[arg'[u]] = "failed"
  <2>1. CASE u = t
    BY <1>1, <1>2, <2>1
  <2>2. CASE u # t
    BY <1>1, <1>2, <1>3, <2>2 DEF CallsOK, Before
  <2> QED
    BY <2>1, <2>2
<1>5. \A u, v \in Callers :
        pc'[u] # "idle" /\ pc'[v] # "idle" /\ arg'[u] = arg'[v] => u = v
  BY <1>1 DEF CallsOK
<1>6. ASSUME NEW b \in Batches, fate'[b] = "given" PROVE b \in Of(Before)'
  <2>1. Of(Before)' = IF step \in Before THEN Of(Before) \union {arg[t]}
                                         ELSE Of(Before) \ {arg[t]}
    <3>1. "idle" \notin Before
      BY DEF Before
    <3> QED
      BY <1>1, <3>1, Moves
  <2>2. CASE b = arg[t]
    BY <1>2, <1>6, <2>1, <2>2
  <2>3. CASE b # arg[t]
    <3>1. b \in Of(Before)
      BY <1>2, <1>6, <2>3 DEF CallsOK
    <3> QED
      BY <2>1, <2>3, <3>1
  <2> QED
    BY <2>2, <2>3
<1> QED
  BY <1>4, <1>5, <1>6 DEF CallsOK

\* The same when the fate does not change.
LEMMA CallsGoOn ==
  ASSUME TypeOK, CallsOK, NEW t \in Callers, pc[t] \in Steps,
         NEW step \in Steps \union {"idle"},
         pc' = [pc EXCEPT ![t] = step], arg' = arg, fate' = fate,
         step \in Before <=> pc[t] \in Before,
         step \in {"sent", "items"} => pc[t] \in {"sent", "items"},
         step \in {"failed", "report"} => pc[t] \in {"failed", "report"}
  PROVE  CallsOK'
<1>1. arg[t] \in Batches
  BY DEF CallsOK, Steps, Before
<1>2. fate' = [fate EXCEPT ![arg[t]] = fate[arg[t]]]
  BY <1>1 DEF TypeOK
<1>3. /\ step \in Before <=> fate[arg[t]] = "given"
      /\ step \in {"sent", "items"} => fate[arg[t]] = "sent"
      /\ step \in {"failed", "report"} => fate[arg[t]] = "failed"
  BY DEF CallsOK, Steps, Before
<1> QED
  BY <1>2, <1>3, CallsMove

\* A call that begins takes a batch that is in no other.
LEMMA CallsBegin ==
  ASSUME TypeOK, CallsOK, NEW t \in Callers, Process(t)
  PROVE  CallsOK'
<1>1. PICK b \in Batches :
        /\ fate[b] = "new" /\ arg' = [arg EXCEPT ![t] = b]
        /\ fate' = [fate EXCEPT ![b] = "given"]
  BY DEF Process
<1>2. pc[t] = "idle" /\ pc' = [pc EXCEPT ![t] = "check"]
  BY DEF Process, Goto
<1>3. /\ pc'[t] = "check" /\ arg'[t] = b /\ fate'[b] = "given"
      /\ \A u \in Callers : u # t => pc'[u] = pc[u] /\ arg'[u] = arg[u]
      /\ \A c \in Batches : c # b => fate'[c] = fate[c]
  BY <1>1, <1>2 DEF TypeOK
<1>4. \A u \in Callers : pc[u] # "idle" => arg[u] # b
  BY <1>1 DEF CallsOK, TypeOK, Steps, Before
<1>5. Of(Before)' = Of(Before) \union {b}
  BY <1>1, <1>2, Begins DEF Before
<1>6. \A c \in Batches : fate'[c] = "given" => c \in Of(Before)'
  BY <1>3, <1>5 DEF CallsOK
<1>7. \A u \in Callers :
        /\ pc'[u] # "idle" => arg'[u] \in Batches
        /\ pc'[u] \in Before => fate'[arg'[u]] = "given"
        /\ pc'[u] \in {"sent", "items"} => fate'[arg'[u]] = "sent"
        /\ pc'[u] \in {"failed", "report"} => fate'[arg'[u]] = "failed"
  BY <1>3, <1>4 DEF CallsOK, Before
<1>8. \A u, v \in Callers :
        pc'[u] # "idle" /\ pc'[v] # "idle" /\ arg'[u] = arg'[v] => u = v
  BY <1>3, <1>4 DEF CallsOK
<1> QED
  BY <1>6, <1>7, <1>8 DEF CallsOK

LEMMA CallsStep ==
  TypeOK /\ CallsOK /\ [Next]_vars => CallsOK'
<1> SUFFICES ASSUME TypeOK, CallsOK, [Next]_vars PROVE CallsOK'
  OBVIOUS
<1> USE DEF Steps, Before, Goto, Becomes
<1>1. ASSUME NEW t \in Callers, Refused(t) \/ Send(t) \/ Fail(t) \/ Escape(t)
      PROVE  CallsOK'
  <2>1. CASE Refused(t)
    <3>1. /\ pc[t] = "check" /\ pc' = [pc EXCEPT ![t] = "idle"] /\ arg' = arg
          /\ fate' = [fate EXCEPT ![arg[t]] = "refused"]
      BY <2>1 DEF Refused
    <3>2. /\ pc[t] \in Steps /\ "idle" \in Steps \union {"idle"}
          /\ "idle" \in Before <=> "refused" = "given"
          /\ "idle" \in {"sent", "items"} => "refused" = "sent"
          /\ "idle" \in {"failed", "report"} => "refused" = "failed"
      BY <3>1
    <3> QED
      BY <3>1, <3>2, CallsMove
  <2>2. CASE Send(t)
    <3>1. /\ pc[t] = "send" /\ pc' = [pc EXCEPT ![t] = "sent"] /\ arg' = arg
          /\ fate' = [fate EXCEPT ![arg[t]] = "sent"]
      BY <2>2 DEF Send
    <3>2. /\ pc[t] \in Steps /\ "sent" \in Steps \union {"idle"}
          /\ "sent" \in Before <=> "sent" = "given"
          /\ "sent" \in {"sent", "items"} => "sent" = "sent"
          /\ "sent" \in {"failed", "report"} => "sent" = "failed"
      BY <3>1
    <3> QED
      BY <3>1, <3>2, CallsMove
  <2>3. CASE Fail(t)
    <3>1. /\ pc[t] = "send" /\ pc' = [pc EXCEPT ![t] = "failed"] /\ arg' = arg
          /\ fate' = [fate EXCEPT ![arg[t]] = "failed"]
      BY <2>3 DEF Fail
    <3>2. /\ pc[t] \in Steps /\ "failed" \in Steps \union {"idle"}
          /\ "failed" \in Before <=> "failed" = "given"
          /\ "failed" \in {"sent", "items"} => "failed" = "sent"
          /\ "failed" \in {"failed", "report"} => "failed" = "failed"
      BY <3>1
    <3> QED
      BY <3>1, <3>2, CallsMove
  <2>4. CASE Escape(t)
    <3>1. /\ pc[t] = "send" /\ pc' = [pc EXCEPT ![t] = "idle"] /\ arg' = arg
          /\ fate' = [fate EXCEPT ![arg[t]] = "escaped"]
      BY <2>4 DEF Escape
    <3>2. /\ pc[t] \in Steps /\ "idle" \in Steps \union {"idle"}
          /\ "idle" \in Before <=> "escaped" = "given"
          /\ "idle" \in {"sent", "items"} => "escaped" = "sent"
          /\ "idle" \in {"failed", "report"} => "escaped" = "failed"
      BY <3>1
    <3> QED
      BY <3>1, <3>2, CallsMove
  <2> QED
    BY <1>1, <2>1, <2>2, <2>3, <2>4
<1>2. ASSUME NEW t \in Callers,
             \/ Created(t) \/ CountCreated(t) \/ CountSent(t)
             \/ CountItems(t) \/ CountFailed(t) \/ Report(t)
      PROVE  CallsOK'
  <2> USE DEF history
  <2>1. CASE Created(t)
    BY <2>1, CallsGoOn DEF Created
  <2>2. CASE CountCreated(t)
    BY <2>2, CallsGoOn DEF CountCreated
  <2>3. CASE CountSent(t)
    BY <2>3, CallsGoOn DEF CountSent
  <2>4. CASE CountItems(t)
    BY <2>4, CallsGoOn DEF CountItems
  <2>5. CASE CountFailed(t)
    BY <2>5, CallsGoOn DEF CountFailed
  <2>6. CASE Report(t)
    BY <2>6, CallsGoOn DEF Report
  <2> QED
    BY <1>2, <2>1, <2>2, <2>3, <2>4, <2>5, <2>6
<1>3. CASE Start \/ Stop \/ ReadField \/ Snapshot \/ ClearField \/ UNCHANGED vars
  BY <1>3
  DEF Start, Stop, ReadField, Snapshot, ClearField, vars, CallsOK, Of, history
<1> QED
  BY <1>1, <1>2, <1>3, CallsBegin DEF Next
-----------------------------------------------------------------------------
(***************************************************************************)
(* Every counter counts its set of batches.                                *)
(***************************************************************************)
LEMMA TotalsAre ==
  /\ Totals \in [Names -> Nat]
  /\ Totals["created"] = Cardinality(CreatedOnes)
  /\ Totals["sent"] = Cardinality(SentOnes)
  /\ Totals["failed"] = Cardinality(FailedOnes)
  /\ Totals["items"] = ItemsOf(ItemOnes)
<1>1. /\ CreatedOnes \in SUBSET Batches /\ SentOnes \in SUBSET Batches
      /\ FailedOnes \in SUBSET Batches /\ ItemOnes \in SUBSET Batches
  BY DEF CreatedOnes, SentOnes, FailedOnes, ItemOnes, With
<1>2. /\ Cardinality(CreatedOnes) \in Nat /\ Cardinality(SentOnes) \in Nat
      /\ Cardinality(FailedOnes) \in Nat /\ ItemsOf(ItemOnes) \in Nat
  BY <1>1, CountIsNat, ItemsAreFinite
<1> QED
  BY <1>2 DEF Totals, Names

\* The sets when a batch is at a step with a fate.
SetsBecome(t, step, what) ==
  /\ CreatedOnes' =
       IF what \notin {"new", "refused"} /\ step \notin {"check", "create"}
       THEN CreatedOnes \union {arg[t]} ELSE CreatedOnes \ {arg[t]}
  /\ SentOnes' = IF what = "sent" /\ step # "sent"
                 THEN SentOnes \union {arg[t]} ELSE SentOnes \ {arg[t]}
  /\ FailedOnes' = IF what = "failed" /\ step # "failed"
                   THEN FailedOnes \union {arg[t]} ELSE FailedOnes \ {arg[t]}
  /\ ItemOnes' = IF what = "sent" /\ step \notin {"sent", "items"}
                 THEN ItemOnes \union {arg[t]} ELSE ItemOnes \ {arg[t]}

\* Whether a batch is in one of the sets goes with the step of its caller.
LEMMA SetsMove ==
  ASSUME TypeOK, CallsOK, NEW t \in Callers, pc[t] \in Steps,
         NEW step \in Steps \union {"idle"},
         pc' = [pc EXCEPT ![t] = step], arg' = arg,
         NEW what, fate' = [fate EXCEPT ![arg[t]] = what]
  PROVE  SetsBecome(t, step, what)
<1>1. arg[t] \in Batches /\ pc[t] # "idle"
  BY DEF CallsOK, Steps, Before
<1>2. \A F : With(F)' = IF what \in F THEN With(F) \union {arg[t]} ELSE With(F) \ {arg[t]}
  <2> TAKE F
  <2>1. With(F)' = {b \in Batches : fate'[b] \in F}
    BY DEF With
  <2> QED
    BY <1>1, <2>1 DEF With, TypeOK
<1>3. \A S : "idle" \notin S =>
        Of(S)' = IF step \in S THEN Of(S) \union {arg[t]} ELSE Of(S) \ {arg[t]}
  BY <1>1, Moves
<1>4. CreatedOnes' = (Batches \ With({"new", "refused"})') \ Of({"check", "create"})'
  BY DEF CreatedOnes
<1>5. /\ SentOnes' = With({"sent"})' \ Of({"sent"})'
      /\ FailedOnes' = With({"failed"})' \ Of({"failed"})'
      /\ ItemOnes' = With({"sent"})' \ Of({"sent", "items"})'
  BY DEF SentOnes, FailedOnes, ItemOnes
<1>6. CreatedOnes' =
        IF what \notin {"new", "refused"} /\ step \notin {"check", "create"}
        THEN CreatedOnes \union {arg[t]} ELSE CreatedOnes \ {arg[t]}
  <2>1. With({"new", "refused"})' =
          IF what \in {"new", "refused"} THEN With({"new", "refused"}) \union {arg[t]}
                                         ELSE With({"new", "refused"}) \ {arg[t]}
    BY <1>2
  <2>2. Of({"check", "create"})' =
          IF step \in {"check", "create"} THEN Of({"check", "create"}) \union {arg[t]}
                                          ELSE Of({"check", "create"}) \ {arg[t]}
    BY <1>3
  <2> QED
    BY <1>1, <1>4, <2>1, <2>2 DEF CreatedOnes
<1>7. /\ With({"sent"})' = IF what = "sent" THEN With({"sent"}) \union {arg[t]}
                                            ELSE With({"sent"}) \ {arg[t]}
      /\ With({"failed"})' = IF what = "failed" THEN With({"failed"}) \union {arg[t]}
                                                ELSE With({"failed"}) \ {arg[t]}
  BY <1>2
<1>8. /\ Of({"sent"})' = IF step = "sent" THEN Of({"sent"}) \union {arg[t]}
                                          ELSE Of({"sent"}) \ {arg[t]}
      /\ Of({"failed"})' = IF step = "failed" THEN Of({"failed"}) \union {arg[t]}
                                              ELSE Of({"failed"}) \ {arg[t]}
      /\ Of({"sent", "items"})' =
           IF step \in {"sent", "items"} THEN Of({"sent", "items"}) \union {arg[t]}
                                         ELSE Of({"sent", "items"}) \ {arg[t]}
  BY <1>3
<1> QED
  BY <1>5, <1>6, <1>7, <1>8 DEF SetsBecome, SentOnes, FailedOnes, ItemOnes

\* Where a batch whose caller is at a step is already.
LEMMA SetsAt ==
  ASSUME CallsOK, NEW t \in Callers, pc[t] \in Steps
  PROVE  /\ arg[t] \in CreatedOnes <=> pc[t] \notin {"check", "create"}
         /\ arg[t] \in SentOnes <=> pc[t] = "items"
         /\ arg[t] \in FailedOnes <=> pc[t] = "report"
         /\ arg[t] \notin ItemOnes
<1>1. arg[t] \in Batches /\ pc[t] # "idle"
  BY DEF CallsOK, Steps, Before
<1>2. \A S : "idle" \notin S => (arg[t] \in Of(S) <=> pc[t] \in S)
  BY <1>1 DEF Of, CallsOK
<1>3. /\ arg[t] \in Of({"check", "create"}) <=> pc[t] \in {"check", "create"}
      /\ arg[t] \in Of({"sent"}) <=> pc[t] = "sent"
      /\ arg[t] \in Of({"failed"}) <=> pc[t] = "failed"
      /\ arg[t] \in Of({"sent", "items"}) <=> pc[t] \in {"sent", "items"}
  BY <1>2
<1>4. /\ fate[arg[t]] \notin {"new", "refused"}
      /\ fate[arg[t]] = "sent" <=> pc[t] \in {"sent", "items"}
      /\ fate[arg[t]] = "failed" <=> pc[t] \in {"failed", "report"}
  BY DEF CallsOK, Steps, Before
<1> QED
  BY <1>1, <1>3, <1>4 DEF CreatedOnes, SentOnes, FailedOnes, ItemOnes, With

\* A counted batch raises one total.
LEMMA TotalsGrow ==
  ASSUME TypeOK, CallsOK, NEW t \in Callers, pc[t] \in Steps
  PROVE  /\ Cardinality(CreatedOnes \union {arg[t]}) =
              IF pc[t] \in {"check", "create"} THEN Totals["created"] + 1
                                               ELSE Totals["created"]
         /\ pc[t] = "sent" =>
              Cardinality(SentOnes \union {arg[t]}) = Totals["sent"] + 1
         /\ pc[t] = "failed" =>
              Cardinality(FailedOnes \union {arg[t]}) = Totals["failed"] + 1
         /\ ItemsOf(ItemOnes \union {arg[t]}) = Totals["items"] + Size[arg[t]]
<1>1. arg[t] \in Batches
  BY DEF CallsOK, Steps, Before
<1>2. /\ CreatedOnes \in SUBSET Batches /\ SentOnes \in SUBSET Batches
      /\ FailedOnes \in SUBSET Batches /\ ItemOnes \in SUBSET Batches
  BY DEF CreatedOnes, SentOnes, FailedOnes, ItemOnes, With
<1>3. CASE pc[t] \in {"check", "create"}
  BY <1>1, <1>2, <1>3, SetsAt, OneBatchMore, ItemsOfOneMore, TotalsAre
<1>4. CASE pc[t] \notin {"check", "create"}
  <2>1. CreatedOnes \union {arg[t]} = CreatedOnes
    BY <1>4, SetsAt
  <2> QED
    BY <1>1, <1>2, <1>4, <2>1, SetsAt, OneBatchMore, ItemsOfOneMore, TotalsAre
<1> QED
  BY <1>3, <1>4

\* What a step may do to the counters: nothing, or count a batch.
Stays == Totals' = Totals /\ UNCHANGED counting
Grows(f, n) ==
  /\ n \in Nat
  /\ Totals' = [Totals EXCEPT ![f] = @ + n]
  /\ Count(f, n)
  /\ UNCHANGED <<reading, snap, clearing, wiped>>

LEMMA SameSetsStay ==
  ASSUME CreatedOnes' = CreatedOnes, SentOnes' = SentOnes,
         FailedOnes' = FailedOnes, ItemOnes' = ItemOnes
  PROVE  Totals' = Totals
BY DEF Totals

\* Each counter is raised with its total, and nothing else is.
LEMMA CallersCount ==
  ASSUME TypeOK, CallsOK, NEW t \in Callers
  PROVE  /\ Process(t) \/ Refused(t) \/ Created(t) \/ Send(t)
              \/ Fail(t) \/ Report(t) \/ Escape(t) => Stays
         /\ CountCreated(t) => Grows("created", 1)
         /\ CountSent(t) => Grows("sent", 1)
         /\ CountFailed(t) => Grows("failed", 1)
         /\ CountItems(t) => Grows("items", Size[arg[t]])
<1> USE DEF Goto, Becomes, history
<1>1. ASSUME Refused(t) PROVE Stays
  <2>1. /\ pc[t] = "check" /\ pc' = [pc EXCEPT ![t] = "idle"] /\ arg' = arg
        /\ UNCHANGED counting
    BY <1>1 DEF Refused
  <2>2. pc[t] \in Steps /\ "idle" \in Steps \union {"idle"}
    BY <2>1 DEF Steps, Before
  <2>3. fate' = [fate EXCEPT ![arg[t]] = "refused"]
    BY <1>1, <2>1 DEF Refused
  <2>4. /\ CreatedOnes' = CreatedOnes /\ SentOnes' = SentOnes
        /\ FailedOnes' = FailedOnes /\ ItemOnes' = ItemOnes
    <3>1. SetsBecome(t, "idle", "refused")
      BY <2>1, <2>2, <2>3, SetsMove
    <3> QED
      BY <2>1, <2>2, <3>1, SetsAt DEF SetsBecome
  <2> QED
    BY <2>1, <2>4, SameSetsStay DEF Stays
<1>2. ASSUME Created(t) PROVE Stays
  <2>1. /\ pc[t] = "check" /\ pc' = [pc EXCEPT ![t] = "create"] /\ arg' = arg
        /\ UNCHANGED counting
    BY <1>2 DEF Created
  <2>2. pc[t] \in Steps /\ "create" \in Steps \union {"idle"}
    BY <2>1 DEF Steps, Before
  <2>3. fate' = [fate EXCEPT ![arg[t]] = fate[arg[t]]]
    BY <1>2, <2>1 DEF Created, TypeOK
  <2>4. fate[arg[t]] = "given"
    BY <2>1 DEF CallsOK, Before
  <2>5. /\ CreatedOnes' = CreatedOnes /\ SentOnes' = SentOnes
        /\ FailedOnes' = FailedOnes /\ ItemOnes' = ItemOnes
    <3>1. SetsBecome(t, "create", fate[arg[t]])
      BY <2>1, <2>2, <2>3, SetsMove
    <3> QED
      BY <2>1, <2>2, <2>4, <3>1, SetsAt DEF SetsBecome
  <2> QED
    BY <2>1, <2>5, SameSetsStay DEF Stays
<1>3. ASSUME Send(t) PROVE Stays
  <2>1. /\ pc[t] = "send" /\ pc' = [pc EXCEPT ![t] = "sent"] /\ arg' = arg
        /\ UNCHANGED counting
    BY <1>3 DEF Send
  <2>2. pc[t] \in Steps /\ "sent" \in Steps \union {"idle"}
    BY <2>1 DEF Steps, Before
  <2>3. fate' = [fate EXCEPT ![arg[t]] = "sent"]
    BY <1>3, <2>1 DEF Send
  <2>4. /\ CreatedOnes' = CreatedOnes /\ SentOnes' = SentOnes
        /\ FailedOnes' = FailedOnes /\ ItemOnes' = ItemOnes
    <3>1. SetsBecome(t, "sent", "sent")
      BY <2>1, <2>2, <2>3, SetsMove
    <3> QED
      BY <2>1, <2>2, <3>1, SetsAt DEF SetsBecome
  <2> QED
    BY <2>1, <2>4, SameSetsStay DEF Stays
<1>4. ASSUME Fail(t) PROVE Stays
  <2>1. /\ pc[t] = "send" /\ pc' = [pc EXCEPT ![t] = "failed"] /\ arg' = arg
        /\ UNCHANGED counting
    BY <1>4 DEF Fail
  <2>2. pc[t] \in Steps /\ "failed" \in Steps \union {"idle"}
    BY <2>1 DEF Steps, Before
  <2>3. fate' = [fate EXCEPT ![arg[t]] = "failed"]
    BY <1>4, <2>1 DEF Fail
  <2>4. /\ CreatedOnes' = CreatedOnes /\ SentOnes' = SentOnes
        /\ FailedOnes' = FailedOnes /\ ItemOnes' = ItemOnes
    <3>1. SetsBecome(t, "failed", "failed")
      BY <2>1, <2>2, <2>3, SetsMove
    <3> QED
      BY <2>1, <2>2, <3>1, SetsAt DEF SetsBecome
  <2> QED
    BY <2>1, <2>4, SameSetsStay DEF Stays
<1>5. ASSUME Report(t) PROVE Stays
  <2>1. /\ pc[t] = "report" /\ pc' = [pc EXCEPT ![t] = "idle"] /\ arg' = arg
        /\ UNCHANGED counting
    BY <1>5 DEF Report
  <2>2. pc[t] \in Steps /\ "idle" \in Steps \union {"idle"}
    BY <2>1 DEF Steps, Before
  <2>3. fate' = [fate EXCEPT ![arg[t]] = fate[arg[t]]]
    BY <1>5, <2>1 DEF Report, TypeOK
  <2>4. fate[arg[t]] = "failed"
    BY <2>1 DEF CallsOK, Before
  <2>5. /\ CreatedOnes' = CreatedOnes /\ SentOnes' = SentOnes
        /\ FailedOnes' = FailedOnes /\ ItemOnes' = ItemOnes
    <3>1. SetsBecome(t, "idle", fate[arg[t]])
      BY <2>1, <2>2, <2>3, SetsMove
    <3> QED
      BY <2>1, <2>2, <2>4, <3>1, SetsAt DEF SetsBecome
  <2> QED
    BY <2>1, <2>5, SameSetsStay DEF Stays
<1>6. ASSUME Escape(t) PROVE Stays
  <2>1. /\ pc[t] = "send" /\ pc' = [pc EXCEPT ![t] = "idle"] /\ arg' = arg
        /\ UNCHANGED counting
    BY <1>6 DEF Escape
  <2>2. pc[t] \in Steps /\ "idle" \in Steps \union {"idle"}
    BY <2>1 DEF Steps, Before
  <2>3. fate' = [fate EXCEPT ![arg[t]] = "escaped"]
    BY <1>6, <2>1 DEF Escape
  <2>4. /\ CreatedOnes' = CreatedOnes /\ SentOnes' = SentOnes
        /\ FailedOnes' = FailedOnes /\ ItemOnes' = ItemOnes
    <3>1. SetsBecome(t, "idle", "escaped")
      BY <2>1, <2>2, <2>3, SetsMove
    <3> QED
      BY <2>1, <2>2, <3>1, SetsAt DEF SetsBecome
  <2> QED
    BY <2>1, <2>4, SameSetsStay DEF Stays
<1>7. ASSUME Process(t) PROVE Stays
  <2>1. PICK b \in Batches :
          /\ fate[b] = "new" /\ arg' = [arg EXCEPT ![t] = b]
          /\ fate' = [fate EXCEPT ![b] = "given"]
    BY <1>7 DEF Process
  <2>2. pc[t] = "idle" /\ pc' = [pc EXCEPT ![t] = "check"] /\ UNCHANGED counting
    BY <1>7 DEF Process
  <2>3. /\ Of({"check", "create"})' = Of({"check", "create"}) \union {b}
        /\ Of({"sent"})' = Of({"sent"}) /\ Of({"failed"})' = Of({"failed"})
        /\ Of({"sent", "items"})' = Of({"sent", "items"})
    <3>1. \A S : "idle" \notin S =>
            Of(S)' = IF "check" \in S THEN Of(S) \union {b} ELSE Of(S)
      BY <2>1, <2>2, Begins
    <3> QED
      BY <3>1
  <2>4. /\ With({"new", "refused"})' = With({"new", "refused"}) \ {b}
        /\ With({"sent"})' = With({"sent"}) /\ With({"failed"})' = With({"failed"})
    BY <2>1 DEF With, TypeOK
  <2>5. b \in With({"new", "refused"})
    BY <2>1 DEF With
  <2>6. /\ CreatedOnes' = CreatedOnes /\ SentOnes' = SentOnes
        /\ FailedOnes' = FailedOnes /\ ItemOnes' = ItemOnes
    BY <2>3, <2>4, <2>5 DEF CreatedOnes, SentOnes, FailedOnes, ItemOnes
  <2> QED
    BY <2>2, <2>6, SameSetsStay DEF Stays
<1>8. ASSUME CountCreated(t) PROVE Grows("created", 1)
  <2>1. /\ pc[t] = "create" /\ pc' = [pc EXCEPT ![t] = "send"] /\ arg' = arg
        /\ Count("created", 1) /\ UNCHANGED <<reading, snap, clearing, wiped>>
    BY <1>8 DEF CountCreated
  <2>2. /\ pc[t] \in Steps /\ "send" \in Steps \union {"idle"}
        /\ arg[t] \in Batches /\ fate[arg[t]] = "given"
    BY <2>1 DEF CallsOK, Steps, Before
  <2>3. fate' = [fate EXCEPT ![arg[t]] = fate[arg[t]]]
    BY <1>8, <2>2 DEF CountCreated, TypeOK
  <2>4. /\ CreatedOnes' = CreatedOnes \union {arg[t]}
        /\ SentOnes' = SentOnes /\ FailedOnes' = FailedOnes
        /\ ItemOnes' = ItemOnes
    <3>1. SetsBecome(t, "send", fate[arg[t]])
      BY <2>1, <2>2, <2>3, SetsMove
    <3> QED
      BY <2>1, <2>2, <3>1, SetsAt DEF SetsBecome
  <2>5. Totals' = [Totals EXCEPT !["created"] = @ + 1]
    BY <2>1, <2>2, <2>4, TotalsGrow, TotalsAre DEF Totals, Names
  <2> QED
    BY <2>1, <2>2, <2>5, ProcessorAssumption DEF Grows
<1>9. ASSUME CountSent(t) PROVE Grows("sent", 1)
  <2>1. /\ pc[t] = "sent" /\ pc' = [pc EXCEPT ![t] = "items"] /\ arg' = arg
        /\ Count("sent", 1) /\ UNCHANGED <<reading, snap, clearing, wiped>>
    BY <1>9 DEF CountSent
  <2>2. /\ pc[t] \in Steps /\ "items" \in Steps \union {"idle"}
        /\ arg[t] \in Batches /\ fate[arg[t]] = "sent"
    BY <2>1 DEF CallsOK, Steps, Before
  <2>3. fate' = [fate EXCEPT ![arg[t]] = fate[arg[t]]]
    BY <1>9, <2>2 DEF CountSent, TypeOK
  <2>4. /\ SentOnes' = SentOnes \union {arg[t]}
        /\ CreatedOnes' = CreatedOnes /\ FailedOnes' = FailedOnes
        /\ ItemOnes' = ItemOnes
    <3>1. SetsBecome(t, "items", fate[arg[t]])
      BY <2>1, <2>2, <2>3, SetsMove
    <3> QED
      BY <2>1, <2>2, <3>1, SetsAt DEF SetsBecome
  <2>5. Totals' = [Totals EXCEPT !["sent"] = @ + 1]
    BY <2>1, <2>2, <2>4, TotalsGrow, TotalsAre DEF Totals, Names
  <2> QED
    BY <2>1, <2>2, <2>5, ProcessorAssumption DEF Grows
<1>10. ASSUME CountFailed(t) PROVE Grows("failed", 1)
  <2>1. /\ pc[t] = "failed" /\ pc' = [pc EXCEPT ![t] = "report"] /\ arg' = arg
        /\ Count("failed", 1) /\ UNCHANGED <<reading, snap, clearing, wiped>>
    BY <1>10 DEF CountFailed
  <2>2. /\ pc[t] \in Steps /\ "report" \in Steps \union {"idle"}
        /\ arg[t] \in Batches /\ fate[arg[t]] = "failed"
    BY <2>1 DEF CallsOK, Steps, Before
  <2>3. fate' = [fate EXCEPT ![arg[t]] = fate[arg[t]]]
    BY <1>10, <2>2 DEF CountFailed, TypeOK
  <2>4. /\ FailedOnes' = FailedOnes \union {arg[t]}
        /\ CreatedOnes' = CreatedOnes /\ SentOnes' = SentOnes
        /\ ItemOnes' = ItemOnes
    <3>1. SetsBecome(t, "report", fate[arg[t]])
      BY <2>1, <2>2, <2>3, SetsMove
    <3> QED
      BY <2>1, <2>2, <3>1, SetsAt DEF SetsBecome
  <2>5. Totals' = [Totals EXCEPT !["failed"] = @ + 1]
    BY <2>1, <2>2, <2>4, TotalsGrow, TotalsAre DEF Totals, Names
  <2> QED
    BY <2>1, <2>2, <2>5, ProcessorAssumption DEF Grows
<1>11. ASSUME CountItems(t) PROVE Grows("items", Size[arg[t]])
  <2>1. /\ pc[t] = "items" /\ pc' = [pc EXCEPT ![t] = "idle"] /\ arg' = arg
        /\ Count("items", Size[arg[t]]) /\ UNCHANGED <<reading, snap, clearing, wiped>>
    BY <1>11 DEF CountItems
  <2>2. /\ pc[t] \in Steps /\ "idle" \in Steps \union {"idle"}
        /\ arg[t] \in Batches /\ fate[arg[t]] = "sent"
    BY <2>1 DEF CallsOK, Steps, Before
  <2>3. fate' = [fate EXCEPT ![arg[t]] = fate[arg[t]]]
    BY <1>11, <2>2 DEF CountItems, TypeOK
  <2>4. /\ ItemOnes' = ItemOnes \union {arg[t]}
        /\ CreatedOnes' = CreatedOnes /\ SentOnes' = SentOnes
        /\ FailedOnes' = FailedOnes
    <3>1. SetsBecome(t, "idle", fate[arg[t]])
      BY <2>1, <2>2, <2>3, SetsMove
    <3> QED
      BY <2>1, <2>2, <3>1, SetsAt DEF SetsBecome
  <2>5. Totals' = [Totals EXCEPT !["items"] = @ + Size[arg[t]]]
    BY <2>1, <2>2, <2>4, TotalsGrow, TotalsAre DEF Totals, Names
  <2> QED
    BY <2>1, <2>2, <2>5, ProcessorAssumption DEF Grows
<1> QED
  BY <1>1, <1>2, <1>3, <1>4, <1>5, <1>6, <1>7, <1>8, <1>9, <1>10, <1>11
\* The counters keep up with their sets, a snapshot stays behind, and a reset
\* only lowers them.
LEMMA CountsStep ==
  TypeOK /\ CallsOK /\ CountsOK /\ [Next]_vars => CountsOK'
<1> SUFFICES ASSUME TypeOK, CallsOK, CountsOK, [Next]_vars PROVE CountsOK'
  OBVIOUS
<1>1. Totals \in [Names -> Nat] /\ stats \in [Names -> Nat] /\ snap \in [Names -> Nat]
  BY TotalsAre DEF TypeOK
<1>2. ASSUME Stays PROVE CountsOK'
  BY <1>2 DEF Stays, counting, CountsOK
<1>3. ASSUME NEW f \in Names, NEW n, Grows(f, n) PROVE CountsOK'
  <2>1. /\ n \in Nat /\ Totals' = [Totals EXCEPT ![f] = @ + n]
        /\ stats' = [stats EXCEPT ![f] = @ + n] /\ snap' = snap /\ wiped' = wiped
    BY <1>3 DEF Grows, Count
  <2> QED
    BY <1>1, <2>1 DEF CountsOK
<1>4. UNCHANGED <<pc, arg, fate>> => Totals' = Totals
  BY DEF Totals, CreatedOnes, SentOnes, FailedOnes, ItemOnes, With, Of
<1>5. CASE Start \/ Stop \/ UNCHANGED vars
  BY <1>2, <1>4, <1>5 DEF Start, Stop, vars, Stays, counting, history
<1>6. CASE ReadField
  <2>1. PICK f \in Names : snap' = [snap EXCEPT ![f] = stats[f]]
    BY <1>6, FieldNames DEF ReadField, TypeOK
  <2>2. Totals' = Totals /\ stats' = stats /\ wiped' = wiped
    BY <1>4, <1>6 DEF ReadField, history
  <2> QED
    BY <1>1, <2>1, <2>2 DEF CountsOK
<1>7. CASE Snapshot
  <2>1. snap' = [f \in Names |-> 0]
    BY <1>1, <1>7 DEF Snapshot
  <2>2. Totals' = Totals /\ stats' = stats /\ wiped' = wiped
    BY <1>4, <1>7 DEF Snapshot, history
  <2> QED
    BY <1>1, <2>1, <2>2 DEF CountsOK
<1>8. CASE ClearField
  <2>1. PICK f \in Names : stats' = [stats EXCEPT ![f] = 0]
    BY <1>8, FieldNames DEF ClearField, TypeOK
  <2>2. Totals' = Totals /\ snap' = snap /\ wiped'
    BY <1>4, <1>8 DEF ClearField, history
  <2> QED
    BY <1>1, <2>1, <2>2 DEF CountsOK
<1>9. ASSUME NEW t \in Callers,
             \/ Process(t) \/ Refused(t) \/ Created(t) \/ CountCreated(t)
             \/ Send(t) \/ CountSent(t) \/ CountItems(t)
             \/ Fail(t) \/ CountFailed(t) \/ Report(t) \/ Escape(t)
      PROVE  CountsOK'
  BY <1>2, <1>3, <1>9, CallersCount DEF Names
<1> QED
  BY <1>5, <1>6, <1>7, <1>8, <1>9 DEF Next

\* A batch of which the error callback has not heard and should is in a call.
LEMMA ToldStep ==
  TypeOK /\ CallsOK /\ ToldOK /\ [Next]_vars => ToldOK'
<1> SUFFICES ASSUME TypeOK, CallsOK, ToldOK, [Next]_vars PROVE ToldOK'
  OBVIOUS
<1> DEFINE Open == Of({"failed", "report"})
<1>1. ASSUME NEW t \in Callers, pc[t] \in Steps, NEW step, NEW what,
             pc' = [pc EXCEPT ![t] = step], arg' = arg,
             fate' = [fate EXCEPT ![arg[t]] = what],
             told' = told \/ Tell(t),
             what \in {"refused", "failed"} /\ step \notin {"failed", "report"}
               <=> told' # told
      PROVE  ToldOK'
  <2>1. arg[t] \in Batches /\ pc[t] # "idle"
    BY <1>1 DEF CallsOK, Steps, Before
  <2>2. Open' = IF step \in {"failed", "report"} THEN Open \union {arg[t]}
                                                 ELSE Open \ {arg[t]}
    <3>1. \A S : "idle" \notin S =>
            Of(S)' = IF step \in S THEN Of(S) \union {arg[t]} ELSE Of(S) \ {arg[t]}
      BY <1>1, <2>1, Moves
    <3> QED
      BY <3>1
  <2>3. told[arg[t]] = 0
    <3>1. arg[t] \in Open <=> pc[t] \in {"failed", "report"}
      BY <2>1 DEF Of, CallsOK
    <3>2. fate[arg[t]] \notin {"refused", "failed"} \/ arg[t] \in Open
      BY <1>1, <3>1 DEF CallsOK, Steps, Before
    <3> QED
      BY <2>1, <3>2 DEF ToldOK
  <2>4. told' # told <=> told'[arg[t]] = 1
    BY <1>1, <2>1, <2>3 DEF Tell, TypeOK
  <2>5. told'[arg[t]] \in {0, 1}
    BY <1>1, <2>1, <2>3 DEF Tell, TypeOK
  <2>6. \A b \in Batches : b # arg[t] =>
          told'[b] = told[b] /\ fate'[b] = fate[b] /\ (b \in Open' <=> b \in Open)
    BY <1>1, <2>1, <2>2 DEF Tell, TypeOK
  <2>7. fate'[arg[t]] = what /\ (arg[t] \in Open' <=> step \in {"failed", "report"})
    BY <1>1, <2>1, <2>2 DEF TypeOK
  <2>8. ASSUME NEW b \in Batches
        PROVE  told'[b] = IF fate'[b] \in {"refused", "failed"} /\ b \notin Open'
                          THEN 1 ELSE 0
    <3>1. CASE b = arg[t]
      BY <1>1, <2>4, <2>5, <2>7, <3>1
    <3>2. CASE b # arg[t]
      BY <2>6, <3>2 DEF ToldOK
    <3> QED
      BY <3>1, <3>2
  <2> QED
    BY <2>8 DEF ToldOK
<1> HIDE DEF Open
<1>2. ASSUME NEW t \in Callers, pc[t] \in Steps, NEW step,
             pc' = [pc EXCEPT ![t] = step], arg' = arg, fate' = fate,
             step \in {"failed", "report"} <=> pc[t] \in {"failed", "report"},
             told' = told
      PROVE  ToldOK'
  <2>1. /\ arg[t] \in Batches
        /\ fate[arg[t]] \in {"refused", "failed"} <=> pc[t] \in {"failed", "report"}
    BY <1>2 DEF CallsOK, Steps, Before
  <2>2. fate' = [fate EXCEPT ![arg[t]] = fate[arg[t]]]
    BY <1>2, <2>1 DEF TypeOK
  <2> QED
    BY <1>1, <1>2, <2>1, <2>2
<1> USE DEF Goto, Becomes, history
<1>3. ASSUME NEW t \in Callers, Process(t) PROVE ToldOK'
  <2>1. PICK b \in Batches :
          /\ fate[b] = "new" /\ arg' = [arg EXCEPT ![t] = b]
          /\ fate' = [fate EXCEPT ![b] = "given"]
    BY <1>3 DEF Process
  <2>2. pc[t] = "idle" /\ pc' = [pc EXCEPT ![t] = "check"] /\ told' = told
    BY <1>3 DEF Process
  <2>3. Open' = Open
    BY <2>1, <2>2, Begins DEF Open
  <2> QED
    BY <2>1, <2>2, <2>3 DEF ToldOK, TypeOK, Open
<1>4. ASSUME NEW t \in Callers, Refused(t) PROVE ToldOK'
  <2>1. /\ pc[t] = "check" /\ pc' = [pc EXCEPT ![t] = "idle"] /\ arg' = arg
        /\ Tell(t)
    BY <1>4 DEF Refused
  <2>2. arg[t] \in Batches
    BY <2>1 DEF CallsOK, Before
  <2>3. fate' = [fate EXCEPT ![arg[t]] = "refused"]
    BY <1>4, <2>2 DEF Refused
  <2>4. told' # told
    BY <2>1, <2>2 DEF Tell, TypeOK
  <2> QED
    BY <1>1, <2>1, <2>3, <2>4 DEF Steps, Before
<1>5. ASSUME NEW t \in Callers, Report(t) PROVE ToldOK'
  <2>1. /\ pc[t] = "report" /\ pc' = [pc EXCEPT ![t] = "idle"] /\ arg' = arg
        /\ Tell(t)
    BY <1>5 DEF Report
  <2>2. arg[t] \in Batches /\ fate[arg[t]] = "failed"
    BY <2>1 DEF CallsOK, Before
  <2>3. fate' = [fate EXCEPT ![arg[t]] = "failed"]
    BY <1>5, <2>2 DEF Report, TypeOK
  <2>4. told' # told
    BY <2>1, <2>2 DEF Tell, TypeOK
  <2> QED
    BY <1>1, <2>1, <2>3, <2>4 DEF Steps, Before
<1>6. ASSUME NEW t \in Callers, Send(t) PROVE ToldOK'
  <2>1. /\ pc[t] = "send" /\ pc' = [pc EXCEPT ![t] = "sent"] /\ arg' = arg
        /\ told' = told
    BY <1>6 DEF Send
  <2>2. fate' = [fate EXCEPT ![arg[t]] = "sent"]
    BY <1>6 DEF Send
  <2> QED
    BY <1>1, <2>1, <2>2 DEF Steps, Before
<1>7. ASSUME NEW t \in Callers, Fail(t) PROVE ToldOK'
  <2>1. /\ pc[t] = "send" /\ pc' = [pc EXCEPT ![t] = "failed"] /\ arg' = arg
        /\ told' = told
    BY <1>7 DEF Fail
  <2>2. fate' = [fate EXCEPT ![arg[t]] = "failed"]
    BY <1>7 DEF Fail
  <2> QED
    BY <1>1, <2>1, <2>2 DEF Steps, Before
<1>8. ASSUME NEW t \in Callers, Escape(t) PROVE ToldOK'
  <2>1. /\ pc[t] = "send" /\ pc' = [pc EXCEPT ![t] = "idle"] /\ arg' = arg
        /\ told' = told
    BY <1>8 DEF Escape
  <2>2. fate' = [fate EXCEPT ![arg[t]] = "escaped"]
    BY <1>8 DEF Escape
  <2> QED
    BY <1>1, <2>1, <2>2 DEF Steps, Before
<1>9. ASSUME NEW t \in Callers, Created(t) PROVE ToldOK'
  <2>1. /\ pc[t] = "check" /\ pc' = [pc EXCEPT ![t] = "create"] /\ arg' = arg
        /\ told' = told
    BY <1>9 DEF Created
  <2>2. fate' = fate
    BY <1>9 DEF Created
  <2> QED
    BY <1>2, <2>1, <2>2 DEF Steps, Before
<1>10. ASSUME NEW t \in Callers, CountCreated(t) PROVE ToldOK'
  <2>1. /\ pc[t] = "create" /\ pc' = [pc EXCEPT ![t] = "send"] /\ arg' = arg
        /\ told' = told
    BY <1>10 DEF CountCreated
  <2>2. fate' = fate
    BY <1>10 DEF CountCreated
  <2> QED
    BY <1>2, <2>1, <2>2 DEF Steps, Before
<1>11. ASSUME NEW t \in Callers, CountSent(t) PROVE ToldOK'
  <2>1. /\ pc[t] = "sent" /\ pc' = [pc EXCEPT ![t] = "items"] /\ arg' = arg
        /\ told' = told
    BY <1>11 DEF CountSent
  <2>2. fate' = fate
    BY <1>11 DEF CountSent
  <2> QED
    BY <1>2, <2>1, <2>2 DEF Steps, Before
<1>12. ASSUME NEW t \in Callers, CountItems(t) PROVE ToldOK'
  <2>1. /\ pc[t] = "items" /\ pc' = [pc EXCEPT ![t] = "idle"] /\ arg' = arg
        /\ told' = told
    BY <1>12 DEF CountItems
  <2>2. fate' = fate
    BY <1>12 DEF CountItems
  <2> QED
    BY <1>2, <2>1, <2>2 DEF Steps, Before
<1>13. ASSUME NEW t \in Callers, CountFailed(t) PROVE ToldOK'
  <2>1. /\ pc[t] = "failed" /\ pc' = [pc EXCEPT ![t] = "report"] /\ arg' = arg
        /\ told' = told
    BY <1>13 DEF CountFailed
  <2>2. fate' = fate
    BY <1>13 DEF CountFailed
  <2> QED
    BY <1>2, <2>1, <2>2 DEF Steps, Before
<1>14. CASE Start \/ Stop \/ ReadField \/ Snapshot \/ ClearField \/ UNCHANGED vars
  BY <1>14 DEF Start, Stop, ReadField, Snapshot, ClearField, vars, ToldOK, Of
<1> QED
  BY <1>3, <1>4, <1>5, <1>6, <1>7, <1>8, <1>9, <1>10, <1>11, <1>12, <1>13, <1>14 DEF Next

\* A thread gets past the read of running_ only while it is set, so that it
\* sends no second batch after it was cleared.
LEMMA LateStep ==
  TypeOK /\ LateOK /\ [Next]_vars => LateOK'
<1> SUFFICES ASSUME TypeOK, LateOK, [Next]_vars PROVE LateOK'
  OBVIOUS
<1> USE DEF TypeOK, LateOK, Goto, counting, history
<1>1. CASE Start \/ Stop
  BY <1>1 DEF Start, Stop
<1>2. ASSUME NEW t \in Callers, Process(t) \/ Refused(t) \/ Created(t)
      PROVE  LateOK'
  BY <1>2 DEF Process, Refused, Created
<1>3. ASSUME NEW t \in Callers, Send(t) PROVE LateOK'
  BY <1>3 DEF Send
<1>4. ASSUME NEW t \in Callers, CountCreated(t) \/ CountSent(t) \/ CountItems(t)
      PROVE  LateOK'
  BY <1>4 DEF CountCreated, CountSent, CountItems
<1>5. ASSUME NEW t \in Callers,
             Fail(t) \/ CountFailed(t) \/ Report(t) \/ Escape(t)
      PROVE  LateOK'
  BY <1>5 DEF Fail, CountFailed, Report, Escape
<1>6. CASE ReadField \/ Snapshot \/ ClearField \/ UNCHANGED vars
  BY <1>6 DEF ReadField, Snapshot, ClearField, vars
<1> QED
  BY <1>1, <1>2, <1>3, <1>4, <1>5, <1>6 DEF Next

-----------------------------------------------------------------------------
(***************************************************************************)
(* The theorems.                                                           *)
(***************************************************************************)
\* The invariant holds before the first call.
LEMMA InitInv == Init => Inv
<1> SUFFICES ASSUME Init PROVE Inv
  OBVIOUS
<1>1. stats = [f \in Names |-> 0] /\ snap = stats
  BY FieldNames DEF Init
<1>2. TypeOK
  <2>1. stats \in [Names -> Nat] /\ snap \in [Names -> Nat]
    BY <1>1
  <2>2. /\ pc \in [Callers -> {"idle"} \union Steps]
        /\ arg \in [Callers -> Batches \union {NoBatch}] /\ late \in [Callers -> Nat]
        /\ fate \in [Batches -> Fates] /\ told \in [Batches -> Nat]
    BY DEF Init, Fates
  <2>3. running \in BOOLEAN /\ wiped \in BOOLEAN
    <3>1. running = FALSE /\ wiped = FALSE
      BY DEF Init
    <3> QED
      BY <3>1, Zenon
  <2>4. reading \in 0 .. 4 /\ clearing \in 0 .. 4
    <3>1. reading = 0 /\ clearing = 0
      BY DEF Init
    <3> QED
      BY <3>1
  <2> QED
    BY <2>1, <2>2, <2>3, <2>4 DEF TypeOK
<1>3. \A S : "idle" \notin S => Of(S) = {}
  BY DEF Of, Init
<1>4. CallsOK
  BY <1>3 DEF CallsOK, Init, Before
<1>5. CountsOK
  <2>1. \A f \in Names : stats[f] = 0 /\ snap[f] = 0
    BY <1>1
  <2>2. With({"new", "refused"}) = Batches /\ With({"sent"}) = {} /\ With({"failed"}) = {}
    BY DEF With, Init
  <2>3. CreatedOnes = {} /\ SentOnes = {} /\ FailedOnes = {} /\ ItemOnes = {}
    BY <2>2 DEF CreatedOnes, SentOnes, FailedOnes, ItemOnes
  <2>4. Cardinality({}) = 0
    BY FS_EmptySet
  <2>5. ItemsOf({}) = 0
    <3>1. UNION {{b} \X (1 .. Size[b]) : b \in {}} = {}
      OBVIOUS
    <3> QED
      BY <2>4, <3>1 DEF ItemsOf
  <2>6. \A f \in Names : Totals[f] = 0
    BY <2>3, <2>4, <2>5, TotalsAre DEF Names
  <2> QED
    BY <2>1, <2>6 DEF CountsOK
<1>6. ToldOK /\ LateOK
  BY DEF ToldOK, LateOK, Init
<1> QED
  BY <1>2, <1>4, <1>5, <1>6 DEF Inv

\* The invariant holds whatever the callback does and whenever start(), stop(),
\* get_stats() and reset_stats() are called.
THEOREM ProcessorInvariant == Spec => []Inv
<1>1. Inv /\ [Next]_vars => Inv'
  BY TypeStep, CallsStep, CountsStep, ToldStep, LateStep DEF Inv
<1> QED
  BY <1>1, InitInv, PTL DEF Spec

\* Every variable of the processor keeps its type.
THEOREM ProcessorTypes == Spec => []TypeOK
<1>1. Inv => TypeOK
  BY DEF Inv
<1> QED
  BY <1>1, ProcessorInvariant, PTL

\* Of each thread at most one batch goes out after stop() has returned, however
\* many batches it has and however often start() and stop() are called.
THEOREM NoSecondLateBatch == Spec => []AtMostOneLate
<1>1. Inv => AtMostOneLate
  BY DEF Inv, LateOK, AtMostOneLate
<1> QED
  BY <1>1, ProcessorInvariant, PTL

\* A snapshot claims no more than there was, although its fields are read one
\* by one while any number of callers count and a reset clears.
THEOREM SnapshotsInventNothing == Spec => []SnapshotInventsNothing
<1>1. Inv => SnapshotInventsNothing
  <2> SUFFICES ASSUME Inv PROVE SnapshotInventsNothing
    OBVIOUS
  <2>1. snap \in [Names -> Nat]
    BY DEF Inv, TypeOK
  <2>2. /\ snap.created <= Cardinality(CreatedOnes) /\ snap.sent <= Cardinality(SentOnes)
        /\ snap.failed <= Cardinality(FailedOnes) /\ snap.items <= ItemsOf(ItemOnes)
    BY TotalsAre DEF Inv, CountsOK, Names
  <2> DEFINE C == Batches \ With({"new", "refused"})
  <2>3. /\ C \in SUBSET Batches /\ With({"sent"}) \in SUBSET Batches
        /\ With({"failed"}) \in SUBSET Batches
    BY DEF With
  <2>4. /\ IsFiniteSet(C) /\ Cardinality(C) \in Nat
        /\ IsFiniteSet(With({"sent"})) /\ Cardinality(With({"sent"})) \in Nat
        /\ IsFiniteSet(With({"failed"})) /\ Cardinality(With({"failed"})) \in Nat
    BY <2>3, CountIsNat
  <2>5. /\ CreatedOnes \in SUBSET C /\ SentOnes \in SUBSET With({"sent"})
        /\ FailedOnes \in SUBSET With({"failed"}) /\ ItemOnes \in SUBSET With({"sent"})
    BY DEF CreatedOnes, SentOnes, FailedOnes, ItemOnes
  <2>6. /\ Cardinality(CreatedOnes) \in Nat /\ Cardinality(SentOnes) \in Nat
        /\ Cardinality(FailedOnes) \in Nat
    BY <2>3, <2>5, CountIsNat
  <2>7. Cardinality(CreatedOnes) <= Cardinality(C)
    BY <2>4, <2>5, FS_Subset
  <2>8. /\ Cardinality(SentOnes) <= Cardinality(With({"sent"}))
        /\ Cardinality(FailedOnes) <= Cardinality(With({"failed"}))
    BY <2>4, <2>5, FS_Subset
  <2>9. Cardinality(With({"sent", "failed"})) =
          Cardinality(With({"sent"})) + Cardinality(With({"failed"}))
    BY SentOrFailed
  <2>10. ItemsOf(ItemOnes) <= ItemsOf(With({"sent"}))
    BY <2>3, <2>5, ItemsOfSubset
  <2>11. ItemsOf(ItemOnes) \in Nat /\ ItemsOf(With({"sent"})) \in Nat
    BY <2>3, <2>5, ItemsAreFinite
  <2> QED
    BY <2>1, <2>2, <2>4, <2>6, <2>7, <2>8, <2>9, <2>10, <2>11
    DEF SnapshotInventsNothing, Names
<1> QED
  BY <1>1, ProcessorInvariant, PTL

\* Between calls every batch has been accounted for: no caller's increment is
\* lost, whichever steps of others come in between.
THEOREM EveryBatchAccounted == Spec => []Accounted
<1>1. Inv => Accounted
  <2> SUFFICES ASSUME Inv, Quiet PROVE Accounted
    BY DEF Accounted
  <2>1. \A S : "idle" \notin S => Of(S) = {}
    BY DEF Of, Quiet
  <2>2. \A b \in Batches : told[b] = IF fate[b] \in {"refused", "failed"} THEN 1 ELSE 0
    BY <2>1 DEF Inv, ToldOK
  <2>3. /\ CreatedOnes = Batches \ With({"new", "refused"})
        /\ SentOnes = With({"sent"}) /\ FailedOnes = With({"failed"})
        /\ ItemOnes = With({"sent"})
    BY <2>1 DEF CreatedOnes, SentOnes, FailedOnes, ItemOnes
  <2>4. \A b \in Batches : fate[b] # "given"
    BY <2>1 DEF Inv, CallsOK, Before
  <2>5. CreatedOnes = With({"sent", "failed"}) \union With({"escaped"})
    BY <2>3, <2>4 DEF With, Inv, TypeOK, Fates
  <2>6. Cardinality(CreatedOnes) =
          Cardinality(With({"sent", "failed"})) + Cardinality(With({"escaped"}))
    BY <2>5, WithDisjoint
  <2>7. Cardinality(With({"sent", "failed"})) =
          Cardinality(With({"sent"})) + Cardinality(With({"failed"}))
    BY SentOrFailed
  <2>8. ~wiped => /\ stats.created = Cardinality(CreatedOnes)
                  /\ stats.sent = Cardinality(SentOnes)
                  /\ stats.failed = Cardinality(FailedOnes)
                  /\ stats.items = ItemsOf(ItemOnes)
    BY TotalsAre DEF Inv, CountsOK, Names
  <2> QED
    BY <2>2, <2>3, <2>6, <2>7, <2>8 DEF Accounted
<1> QED
  BY <1>1, ProcessorInvariant, PTL
====
