------------------------------- MODULE Channel -------------------------------
(***************************************************************************)
(* What a collector may rely on, whatever fails: the payloads come on      *)
(* connections made one after the other, in the order in which they were   *)
(* handed over and none of them twice, and a connection that breaks in the *)
(* middle of a payload carries nothing after it.                           *)
(***************************************************************************)
EXTENDS Naturals, Sequences

CONSTANTS
  Payloads,     \* numbered in the order in which they are handed over
  Connections,  \* numbered in the order in which they are made
  Nothing       \* no payload

VARIABLES
  carried,  \* the payloads a connection has carried to their end
  rest      \* the payload of which it has carried only the beginning

Empty(c) == carried[c] = <<>> /\ rest[c] = Nothing

\* No later connection has been used.
Newest(c) == \A d \in Connections : d > c => Empty(d)

\* Nothing as new as p has been on any connection.
Fresh(p) ==
  \A c \in Connections :
    /\ rest[c] # Nothing => rest[c] < p
    /\ \A n \in DOMAIN carried[c] : carried[c][n] < p

Init ==
  /\ carried = [c \in Connections |-> <<>>]
  /\ rest = [c \in Connections |-> Nothing]

Begin(c, p) ==
  /\ Newest(c)
  /\ rest[c] = Nothing
  /\ Fresh(p)
  /\ rest' = [rest EXCEPT ![c] = p]
  /\ UNCHANGED carried

Finish(c) ==
  /\ Newest(c)
  /\ rest[c] \in Payloads
  /\ carried' = [carried EXCEPT ![c] = Append(@, rest[c])]
  /\ rest' = [rest EXCEPT ![c] = Nothing]

\* A payload that the kernel takes in one piece.
Carry(c, p) ==
  /\ Newest(c)
  /\ rest[c] = Nothing
  /\ Fresh(p)
  /\ carried' = [carried EXCEPT ![c] = Append(@, p)]
  /\ UNCHANGED rest

Next ==
  \E c \in Connections :
    Finish(c) \/ \E p \in Payloads : Begin(c, p) \/ Carry(c, p)

Spec == Init /\ [][Next]_<<carried, rest>>
=============================================================================
