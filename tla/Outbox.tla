------------------------------- MODULE Outbox -------------------------------
(***************************************************************************)
(* What the batching layer of the SDK promises to the code that hands it   *)
(* events and logs, without threads, limits or timers.  Every kind of item *)
(* has one first-in first-out stream.  An accepted item joins the end of   *)
(* the pending part of its stream; from time to time everything that is    *)
(* pending in a stream leaves together, in order, with one result.         *)
(***************************************************************************)
EXTENDS Sequences

CONSTANTS
  Items,    \* the events and logs an application creates
  Kinds,    \* the streams
  Kind,     \* the stream of an item, a function from Items to Kinds
  Results   \* what may become of a batch that leaves

VARIABLES
  pending,  \* per stream, the accepted items that have not left, oldest first
  gone,     \* per stream, the accepted items that have left, oldest first
  result    \* of an item that has left, the result; "none" for the others

ovars == <<pending, gone, result>>

Init ==
  /\ pending = [k \in Kinds |-> <<>>]
  /\ gone    = [k \in Kinds |-> <<>>]
  /\ result  = [i \in Items |-> "none"]

Occurs(i, s) == \E n \in DOMAIN s : s[n] = i

Unknown(i) == /\ ~Occurs(i, pending[Kind[i]])
              /\ ~Occurs(i, gone[Kind[i]])

\* The streams of K leave, each with its own result.
Leave(K, res) ==
  /\ gone' = [k \in Kinds |-> IF k \in K THEN gone[k] \o pending[k] ELSE gone[k]]
  /\ result' = [i \in Items |->
                  IF Kind[i] \in K /\ Occurs(i, pending[Kind[i]])
                  THEN res[Kind[i]] ELSE result[i]]

Rest(K) == [k \in Kinds |-> IF k \in K THEN <<>> ELSE pending[k]]

\* Streams leave and nothing is accepted.
Drain(K) ==
  /\ \A k \in K : pending[k] # <<>>
  /\ \E res \in [Kinds -> Results] : Leave(K, res)
  /\ pending' = Rest(K)

\* An item is accepted; making room for it may first send its stream away.
Accept(i, K) ==
  /\ Unknown(i)
  /\ K \subseteq {Kind[i]}
  /\ \A k \in K : pending[k] # <<>>
  /\ \E res \in [Kinds -> Results] : Leave(K, res)
  /\ pending' = [Rest(K) EXCEPT ![Kind[i]] = Append(@, i)]

Next == \E K \in SUBSET Kinds :
          \/ Drain(K)
          \/ \E i \in Items : Accept(i, K)

\* What is pending in a stream leaves eventually.
Leaving(k) == \E K \in SUBSET Kinds :
                /\ k \in K
                /\ Drain(K) \/ \E i \in Items : Accept(i, K)

SafeSpec == Init /\ [][Next]_ovars
Spec == SafeSpec /\ \A k \in Kinds : WF_ovars(Leaving(k))
=============================================================================
