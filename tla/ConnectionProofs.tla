-------------------------- MODULE ConnectionProofs --------------------------
(***************************************************************************)
(* What TLAPS proves of Connection, for any threads, payloads, number of   *)
(* pieces and sockets, and any results of connecting and sending.          *)
(***************************************************************************)
EXTENDS Connection, FiniteSetTheorems, TLAPS

-----------------------------------------------------------------------------
(***************************************************************************)
(* The inductive invariant.                                                *)
(***************************************************************************)
\* A body between two of its steps holds the mutex, if it is one of these.
LockOK ==
  \A t \in Threads :
    pc[t] \in {"connecting", "sending", "relock"} => owner = t

\* Only a send has a payload, and what is left of it is not nothing.
ArgOK ==
  \A t \in Threads :
    /\ pc[t] \notin {"send", "sending", "returned", "threw"} => arg[t] = "none"
    /\ pc[t] = "send" => arg[t] \in Payloads /\ done[t] = 0
    /\ pc[t] = "sending" => arg[t] \in Payloads /\ done[t] < Units

\* Sockets are numbered as they come.  The thread that is about to lock the
\* mutex again is the only one that leaves a FAILED socket the peer still reads.
Hanging == \E t \in Threads : pc[t] = "relock"
SocketsOK ==
  /\ StateMatchesSocket
  /\ open \subseteq 1 .. created
  /\ \A t \in Threads : pc[t] = "connecting" => fd \in open
  /\ \A t \in Threads : pc[t] = "sending" => state = "CONNECTED"
  /\ \A t \in Threads : pc[t] = "connecting" => state = "CONNECTING"
  /\ state = "CONNECTING" => \E t \in Threads : pc[t] = "connecting"
  /\ state = "FAILED" /\ fd # NoSocket /\ peer[fd] = "reads" => Hanging

\* A send begins in vain only on a connection that is dead.  One that ends and
\* leaves it CONNECTED has made the error known: the next one breaks.
Sending == \E t \in Threads : pc[t] = "sending"
Told == IF peer[fd] = "gone" THEN 1 ELSE 0
VainOK ==
  /\ \A s \in Sockets : peer[s] \notin Dead => vain[s] = 0
  /\ \A s \in Sockets : s > created => peer[s] = "reads"
  /\ state = "CONNECTING" => vain[fd] = 0
  /\ state = "CONNECTED" =>
       vain[fd] <= Told + IF Sending THEN 1 ELSE 0

\* Each connect() that has begun has a socket left to create.
Wanting == {t \in Threads : pc[t] = "connect"}
RoomOK ==
  /\ IsFiniteSet(Wanting)
  /\ created + Cardinality(Wanting) <= MaxSockets

\* The next piece of a send under way follows the one before it.
WireOK ==
  /\ PiecesTogether
  /\ \A t \in Threads :
       pc[t] = "sending" /\ done[t] > 0 =>
         /\ Len(wire[fd]) > 0
         /\ wire[fd][Len(wire[fd])] = <<arg[t], done[t]>>

\* A send that is about to return has put its last piece on a wire.
Written == {p \in Payloads : \E s \in Sockets : WholeOn(p, s)}
WrittenOK ==
  /\ \A p \in Payloads : told[p] = "ok" => p \in Written
  /\ \A t \in Threads :
       pc[t] = "returned" /\ arg[t] # "none" => arg[t] \in Written

Inv ==
  /\ TypeOK
  /\ LockOK
  /\ ArgOK
  /\ SocketsOK
  /\ VainOK
  /\ RoomOK
  /\ WireOK
  /\ WrittenOK

-----------------------------------------------------------------------------
\* Every step is one of these.
LEMMA NextSteps ==
  [Next]_vars =>
    \/ \E t \in Threads : CallConnect(t) \/ CallReceive(t) \/ CallDisconnect(t)
    \/ \E t \in Threads, p \in Payloads : CallSend(t, p)
    \/ \E t \in Threads : ConnectAlready(t) \/ ConnectSocket(t)
    \/ \E t \in Threads : ConnectNoSocket(t) \/ Connected(t) \/ ConnectFails(t)
    \/ \E t \in Threads : SendRefused(t) \/ SendLocks(t) \/ SendUnit(t)
    \/ \E t \in Threads : SendAborts(t) \/ SendError(t) \/ SendBreaks(t)
    \/ \E t \in Threads : Receive(t) \/ ReceiveError(t) \/ ReceiveClosed(t)
    \/ \E t \in Threads : Disconnect(t)
    \/ \E s \in Sockets, end \in PeerEnds : PeerGoes(s, end)
    \/ \E t \in Threads : TimeOut(t) \/ Return(t)
    \/ UNCHANGED vars
  BY DEF Next, Body

\* A piece at the end of a wire leaves the others where they were.
LEMMA OnePieceMore ==
  ASSUME NEW s \in Sockets, NEW p \in Payloads, NEW n \in 1 .. Units,
         wire \in [Sockets -> Seq(Payloads \X (1 .. Units))],
         wire' = [wire EXCEPT ![s] = Append(@, <<p, n>>)]
  PROVE  /\ wire' \in [Sockets -> Seq(Payloads \X (1 .. Units))]
         /\ Len(wire'[s]) = Len(wire[s]) + 1
         /\ DOMAIN wire'[s] = 1 .. Len(wire[s]) + 1
         /\ wire'[s][Len(wire[s]) + 1] = <<p, n>>
         /\ \A m \in DOMAIN wire[s] : wire'[s][m] = wire[s][m]
         /\ \A c \in Sockets : c # s => wire'[c] = wire[c]
         /\ Written \subseteq Written'
         /\ n = Units => p \in Written'
<1>1. /\ wire[s] \in Seq(Payloads \X (1 .. Units))
      /\ <<p, n>> \in Payloads \X (1 .. Units)
  OBVIOUS
<1>2. wire'[s] = Append(wire[s], <<p, n>>)
  OBVIOUS
<1>3. \A c \in Sockets : c # s => wire'[c] = wire[c]
  OBVIOUS
<1>4. /\ wire'[s] \in Seq(Payloads \X (1 .. Units))
      /\ Len(wire'[s]) = Len(wire[s]) + 1
      /\ DOMAIN wire[s] = 1 .. Len(wire[s]) /\ Len(wire[s]) \in Nat
      /\ DOMAIN wire'[s] = 1 .. Len(wire[s]) + 1
      /\ wire'[s][Len(wire[s]) + 1] = <<p, n>>
      /\ \A m \in 1 .. Len(wire[s]) : wire'[s][m] = wire[s][m]
  BY <1>1, <1>2
<1>5. wire' \in [Sockets -> Seq(Payloads \X (1 .. Units))]
  BY <1>3, <1>4
<1>6. ASSUME NEW q \in Written PROVE q \in Written'
  <2>1. PICK c \in Sockets : \E m \in DOMAIN wire[c] : wire[c][m] = <<q, Units>>
    BY DEF Written, WholeOn
  <2>2. PICK m \in DOMAIN wire[c] : wire[c][m] = <<q, Units>>
    BY <2>1
  <2>3. m \in DOMAIN wire'[c] /\ wire'[c][m] = <<q, Units>>
    BY <2>2, <1>3, <1>4
  <2> QED
    BY <2>3 DEF Written, WholeOn
<1>7. n = Units => p \in Written'
  BY <1>4 DEF Written, WholeOn
<1> QED
  BY <1>3, <1>4, <1>5, <1>6, <1>7

\* A piece that is the first of its payload, or follows the one before it, leaves
\* the pieces together.
LEMMA NextPieceFits ==
  ASSUME NEW s \in Sockets, NEW p \in Payloads, NEW n \in 1 .. Units,
         wire \in [Sockets -> Seq(Payloads \X (1 .. Units))],
         wire' = [wire EXCEPT ![s] = Append(@, <<p, n>>)],
         PiecesTogether,
         n > 1 => /\ Len(wire[s]) > 0
                  /\ wire[s][Len(wire[s])] = <<p, n - 1>>
  PROVE  PiecesTogether'
<1>1. /\ DOMAIN wire[s] = 1 .. Len(wire[s]) /\ Len(wire[s]) \in Nat
      /\ DOMAIN wire'[s] = 1 .. Len(wire[s]) + 1
      /\ wire'[s][Len(wire[s]) + 1] = <<p, n>>
      /\ \A m \in DOMAIN wire[s] : wire'[s][m] = wire[s][m]
      /\ \A c \in Sockets : c # s => wire'[c] = wire[c]
  BY OnePieceMore
<1>2. SUFFICES ASSUME NEW c \in Sockets, NEW m \in DOMAIN wire'[c],
                      wire'[c][m][2] > 1
               PROVE  /\ m > 1
                      /\ wire'[c][m - 1] = <<wire'[c][m][1], wire'[c][m][2] - 1>>
  BY DEF PiecesTogether
<1>3. \A m1 \in DOMAIN wire[c] :
        wire[c][m1][2] > 1 =>
          /\ m1 > 1
          /\ wire[c][m1 - 1] = <<wire[c][m1][1], wire[c][m1][2] - 1>>
  BY DEF PiecesTogether
<1>4. CASE c # s
  BY <1>1, <1>2, <1>3, <1>4
<1>5. CASE c = s /\ m = Len(wire[s]) + 1
  <2>1. wire'[c][m] = <<p, n>> /\ n > 1
    BY <1>1, <1>2, <1>5
  <2>2. Len(wire[s]) > 0 /\ wire[s][Len(wire[s])] = <<p, n - 1>>
    BY <2>1
  <2>3. m - 1 = Len(wire[s]) /\ Len(wire[s]) \in DOMAIN wire[s]
    BY <1>1, <1>5, <2>2
  <2> QED
    BY <1>1, <1>5, <2>1, <2>2, <2>3
<1>6. CASE c = s /\ m # Len(wire[s]) + 1
  <2>1. m \in DOMAIN wire[s] /\ m \in Nat
    BY <1>1, <1>6
  <2>2. wire'[c][m] = wire[s][m]
    BY <1>1, <1>6, <2>1
  <2>3. m > 1 /\ wire[s][m - 1] = <<wire[s][m][1], wire[s][m][2] - 1>>
    BY <1>2, <1>3, <1>6, <2>1, <2>2
  <2>4. m - 1 \in DOMAIN wire[s]
    BY <1>1, <2>1, <2>3
  <2> QED
    BY <1>1, <1>6, <2>2, <2>3, <2>4
<1> QED
  BY <1>4, <1>5, <1>6

\* Nobody has a place to create a socket in that is not there.
LEMMA RoomForOne ==
  ASSUME TypeOK, RoomOK, NEW t \in Threads, pc[t] = "connect"
  PROVE  created + 1 \in Sockets
<1>1. t \in Wanting
  BY DEF Wanting
<1>2. Cardinality(Wanting) \in Nat /\ Cardinality(Wanting) # 0
  BY <1>1, FS_CardinalityType, FS_EmptySet DEF RoomOK
<1> QED
  BY <1>2, ConnectionAssumption DEF RoomOK, TypeOK, Sockets

-----------------------------------------------------------------------------
(***************************************************************************)
(* One lemma per part of the invariant, one step per action.               *)
(***************************************************************************)

\* Every step keeps the types.
LEMMA TypeStep ==
  Inv /\ [Next]_vars => TypeOK'
<1> SUFFICES ASSUME Inv, [Next]_vars PROVE TypeOK'
  OBVIOUS
<1> USE ConnectionAssumption
    DEF Inv, TypeOK, Goto, socket, Steps, Sockets, NoSocket, Ends
<1>1. ASSUME NEW t \in Threads, CallConnect(t) PROVE TypeOK'
  BY <1>1 DEF CallConnect, Call, calls
<1>2. ASSUME NEW t \in Threads, CallReceive(t) PROVE TypeOK'
  BY <1>2 DEF CallReceive, Call, calls
<1>3. ASSUME NEW t \in Threads, CallDisconnect(t) PROVE TypeOK'
  BY <1>3 DEF CallDisconnect, Call, calls
<1>4. ASSUME NEW t \in Threads, NEW p \in Payloads, CallSend(t, p)
      PROVE TypeOK'
  BY <1>4 DEF CallSend, Call
<1>5. ASSUME NEW t \in Threads, ConnectAlready(t) PROVE TypeOK'
  BY <1>5 DEF ConnectAlready, calls
<1>6. ASSUME NEW t \in Threads, ConnectSocket(t) PROVE TypeOK'
  <2>1. created + 1 \in Sockets
    BY <1>6, RoomForOne DEF ConnectSocket
  <2> QED
    BY <1>6, <2>1 DEF ConnectSocket, calls
<1>7. ASSUME NEW t \in Threads, ConnectNoSocket(t) PROVE TypeOK'
  BY <1>7 DEF ConnectNoSocket, calls
<1>8. ASSUME NEW t \in Threads, Connected(t) PROVE TypeOK'
  BY <1>8 DEF Connected, calls
<1>9. ASSUME NEW t \in Threads, ConnectFails(t) PROVE TypeOK'
  BY <1>9 DEF ConnectFails, calls
<1>10. ASSUME NEW t \in Threads, SendRefused(t) PROVE TypeOK'
  BY <1>10 DEF SendRefused, calls
<1>11. ASSUME NEW t \in Threads, SendLocks(t) PROVE TypeOK'
  <2>1. fd \in Sockets
    BY <1>11 DEF SendLocks, SocketsOK, StateMatchesSocket
  <2>2. vain' \in [Sockets -> Nat]
    BY <1>11, <2>1 DEF SendLocks
  <2> QED
    BY <1>11, <2>2 DEF SendLocks, calls
<1>12. ASSUME NEW t \in Threads, SendUnit(t) PROVE TypeOK'
  <2>1. fd \in Sockets /\ arg[t] \in Payloads /\ done[t] + 1 \in 1 .. Units
    BY <1>12 DEF SendUnit, ArgOK, SocketsOK, StateMatchesSocket
  <2>2. wire' \in [Sockets -> Seq(Payloads \X (1 .. Units))]
    BY <1>12, <2>1, OnePieceMore DEF SendUnit
  <2>3. done' \in [Threads -> 0 .. Units]
    BY <1>12, <2>1 DEF SendUnit
  <2>4. pc' \in [Threads -> Steps] /\ owner' \in Threads \union {Nobody}
    BY <1>12 DEF SendUnit
  <2> QED
    BY <1>12, <2>2, <2>3, <2>4 DEF SendUnit
<1>13. ASSUME NEW t \in Threads, SendAborts(t) PROVE TypeOK'
  <2>1. fd \in Sockets /\ arg[t] \in Payloads /\ done[t] + 1 \in 1 .. Units
    BY <1>13 DEF SendAborts, ArgOK, SocketsOK, StateMatchesSocket
  <2>2. wire' \in [Sockets -> Seq(Payloads \X (1 .. Units))]
    <3>1. CASE wire' = [wire EXCEPT ![fd] = Append(@, <<arg[t], done[t] + 1>>)]
      BY <2>1, <3>1, OnePieceMore
    <3>2. CASE wire' = wire
      BY <3>2
    <3> QED
      BY <1>13, <3>1, <3>2 DEF SendAborts
  <2>3. done' \in [Threads -> 0 .. Units]
    <3>1. CASE done' = [done EXCEPT ![t] = @ + 1]
      BY <2>1, <3>1
    <3>2. CASE done' = done
      BY <3>2
    <3> QED
      BY <1>13, <3>1, <3>2 DEF SendAborts
  <2>4. pc' \in [Threads -> Steps] /\ owner' \in Threads \union {Nobody}
    BY <1>13 DEF SendAborts
  <2> QED
    BY <1>13, <2>2, <2>3, <2>4 DEF SendAborts
<1>14. ASSUME NEW t \in Threads, SendBreaks(t) PROVE TypeOK'
  <2>1. fd \in Sockets
    BY <1>14 DEF SendBreaks, SocketsOK, StateMatchesSocket
  <2> QED
    BY <1>14, <2>1 DEF SendBreaks, calls
<1>15. ASSUME NEW t \in Threads, Receive(t) PROVE TypeOK'
  BY <1>15 DEF Receive, calls
<1>16. ASSUME NEW t \in Threads, ReceiveClosed(t) PROVE TypeOK'
  <2>1. fd \in Sockets
    BY <1>16 DEF ReceiveClosed, SocketsOK, StateMatchesSocket
  <2> QED
    BY <1>16, <2>1 DEF ReceiveClosed, calls
<1>17. ASSUME NEW t \in Threads, Disconnect(t) PROVE TypeOK'
  BY <1>17 DEF Disconnect, calls
<1>18. ASSUME NEW t \in Threads, TimeOut(t) PROVE TypeOK'
  BY <1>18 DEF TimeOut, calls
<1>19. ASSUME NEW t \in Threads, Return(t) PROVE TypeOK'
  BY <1>19 DEF Return, Outcome
<1>21. ASSUME NEW t \in Threads, SendError(t) PROVE TypeOK'
  BY <1>21 DEF SendError, calls
<1>22. ASSUME NEW t \in Threads, ReceiveError(t) PROVE TypeOK'
  BY <1>22 DEF ReceiveError, calls
<1>23. ASSUME NEW s \in Sockets, NEW end \in PeerEnds, PeerGoes(s, end)
       PROVE  TypeOK'
  BY <1>23 DEF PeerGoes, calls
<1>20. CASE UNCHANGED vars
  BY <1>20 DEF vars, calls
<1> QED
  BY NextSteps, <1>1, <1>2, <1>3, <1>4, <1>5, <1>6, <1>7, <1>8, <1>9, <1>10,
     <1>11, <1>12, <1>13, <1>14, <1>15, <1>16, <1>17, <1>18, <1>19, <1>20,
     <1>21, <1>22, <1>23

\* No step gives the mutex away from a body that still needs it.
LEMMA LockStep ==
  Inv /\ [Next]_vars => LockOK'
<1> SUFFICES ASSUME Inv, [Next]_vars PROVE LockOK'
  OBVIOUS
<1> USE ConnectionAssumption DEF Inv, TypeOK, Goto, socket, LockOK
<1>1. ASSUME NEW t \in Threads, CallConnect(t) PROVE LockOK'
  BY <1>1 DEF CallConnect, Call, calls
<1>2. ASSUME NEW t \in Threads, CallReceive(t) PROVE LockOK'
  BY <1>2 DEF CallReceive, Call, calls
<1>3. ASSUME NEW t \in Threads, CallDisconnect(t) PROVE LockOK'
  BY <1>3 DEF CallDisconnect, Call, calls
<1>4. ASSUME NEW t \in Threads, NEW p \in Payloads, CallSend(t, p)
      PROVE LockOK'
  BY <1>4 DEF CallSend, Call
<1>5. ASSUME NEW t \in Threads, ConnectAlready(t) PROVE LockOK'
  BY <1>5 DEF ConnectAlready, calls
<1>6. ASSUME NEW t \in Threads, ConnectSocket(t) PROVE LockOK'
  BY <1>6 DEF ConnectSocket, calls
<1>7. ASSUME NEW t \in Threads, ConnectNoSocket(t) PROVE LockOK'
  BY <1>7 DEF ConnectNoSocket, calls
<1>8. ASSUME NEW t \in Threads, Connected(t) PROVE LockOK'
  BY <1>8 DEF Connected, calls
<1>9. ASSUME NEW t \in Threads, ConnectFails(t) PROVE LockOK'
  BY <1>9 DEF ConnectFails, calls
<1>10. ASSUME NEW t \in Threads, SendRefused(t) PROVE LockOK'
  BY <1>10 DEF SendRefused, calls
<1>11. ASSUME NEW t \in Threads, SendLocks(t) PROVE LockOK'
  BY <1>11 DEF SendLocks, calls
<1>12. ASSUME NEW t \in Threads, SendUnit(t) PROVE LockOK'
  BY <1>12 DEF SendUnit
<1>13. ASSUME NEW t \in Threads, SendAborts(t) PROVE LockOK'
  BY <1>13 DEF SendAborts
<1>14. ASSUME NEW t \in Threads, SendBreaks(t) PROVE LockOK'
  BY <1>14 DEF SendBreaks, calls
<1>15. ASSUME NEW t \in Threads, Receive(t) PROVE LockOK'
  BY <1>15 DEF Receive, calls
<1>16. ASSUME NEW t \in Threads, ReceiveClosed(t) PROVE LockOK'
  BY <1>16 DEF ReceiveClosed, calls
<1>17. ASSUME NEW t \in Threads, Disconnect(t) PROVE LockOK'
  BY <1>17 DEF Disconnect, calls
<1>18. ASSUME NEW t \in Threads, TimeOut(t) PROVE LockOK'
  BY <1>18 DEF TimeOut, calls
<1>19. ASSUME NEW t \in Threads, Return(t) PROVE LockOK'
  BY <1>19 DEF Return, Outcome
<1>21. ASSUME NEW t \in Threads, SendError(t) PROVE LockOK'
  BY <1>21 DEF SendError, calls
<1>22. ASSUME NEW t \in Threads, ReceiveError(t) PROVE LockOK'
  BY <1>22 DEF ReceiveError, calls
<1>23. ASSUME NEW s \in Sockets, NEW end \in PeerEnds, PeerGoes(s, end)
       PROVE  LockOK'
  BY <1>23 DEF PeerGoes, calls
<1>20. CASE UNCHANGED vars
  BY <1>20 DEF vars, calls
<1> QED
  BY NextSteps, <1>1, <1>2, <1>3, <1>4, <1>5, <1>6, <1>7, <1>8, <1>9, <1>10,
     <1>11, <1>12, <1>13, <1>14, <1>15, <1>16, <1>17, <1>18, <1>19, <1>20,
     <1>21, <1>22, <1>23

\* Every step leaves a payload with the sends only.
LEMMA ArgStep ==
  Inv /\ [Next]_vars => ArgOK'
<1> SUFFICES ASSUME Inv, [Next]_vars PROVE ArgOK'
  OBVIOUS
<1> USE ConnectionAssumption DEF Inv, TypeOK, Goto, socket, ArgOK
<1>1. ASSUME NEW t \in Threads, CallConnect(t) PROVE ArgOK'
  BY <1>1 DEF CallConnect, Call, calls
<1>2. ASSUME NEW t \in Threads, CallReceive(t) PROVE ArgOK'
  BY <1>2 DEF CallReceive, Call, calls
<1>3. ASSUME NEW t \in Threads, CallDisconnect(t) PROVE ArgOK'
  BY <1>3 DEF CallDisconnect, Call, calls
<1>4. ASSUME NEW t \in Threads, NEW p \in Payloads, CallSend(t, p)
      PROVE ArgOK'
  BY <1>4 DEF CallSend, Call
<1>5. ASSUME NEW t \in Threads, ConnectAlready(t) PROVE ArgOK'
  BY <1>5 DEF ConnectAlready, calls
<1>6. ASSUME NEW t \in Threads, ConnectSocket(t) PROVE ArgOK'
  BY <1>6 DEF ConnectSocket, calls
<1>7. ASSUME NEW t \in Threads, ConnectNoSocket(t) PROVE ArgOK'
  BY <1>7 DEF ConnectNoSocket, calls
<1>8. ASSUME NEW t \in Threads, Connected(t) PROVE ArgOK'
  BY <1>8 DEF Connected, calls
<1>9. ASSUME NEW t \in Threads, ConnectFails(t) PROVE ArgOK'
  BY <1>9 DEF ConnectFails, calls
<1>10. ASSUME NEW t \in Threads, SendRefused(t) PROVE ArgOK'
  BY <1>10 DEF SendRefused, calls
<1>11. ASSUME NEW t \in Threads, SendLocks(t) PROVE ArgOK'
  BY <1>11 DEF SendLocks, calls
<1>12. ASSUME NEW t \in Threads, SendUnit(t) PROVE ArgOK'
  BY <1>12 DEF SendUnit
<1>13. ASSUME NEW t \in Threads, SendAborts(t) PROVE ArgOK'
  BY <1>13 DEF SendAborts
<1>14. ASSUME NEW t \in Threads, SendBreaks(t) PROVE ArgOK'
  BY <1>14 DEF SendBreaks, calls
<1>15. ASSUME NEW t \in Threads, Receive(t) PROVE ArgOK'
  BY <1>15 DEF Receive, calls
<1>16. ASSUME NEW t \in Threads, ReceiveClosed(t) PROVE ArgOK'
  BY <1>16 DEF ReceiveClosed, calls
<1>17. ASSUME NEW t \in Threads, Disconnect(t) PROVE ArgOK'
  BY <1>17 DEF Disconnect, calls
<1>18. ASSUME NEW t \in Threads, TimeOut(t) PROVE ArgOK'
  BY <1>18 DEF TimeOut, calls
<1>19. ASSUME NEW t \in Threads, Return(t) PROVE ArgOK'
  BY <1>19 DEF Return, Outcome
<1>21. ASSUME NEW t \in Threads, SendError(t) PROVE ArgOK'
  BY <1>21 DEF SendError, calls
<1>22. ASSUME NEW t \in Threads, ReceiveError(t) PROVE ArgOK'
  BY <1>22 DEF ReceiveError, calls
<1>23. ASSUME NEW s \in Sockets, NEW end \in PeerEnds, PeerGoes(s, end)
       PROVE  ArgOK'
  BY <1>23 DEF PeerGoes, calls
<1>20. CASE UNCHANGED vars
  BY <1>20 DEF vars, calls
<1> QED
  BY NextSteps, <1>1, <1>2, <1>3, <1>4, <1>5, <1>6, <1>7, <1>8, <1>9, <1>10,
     <1>11, <1>12, <1>13, <1>14, <1>15, <1>16, <1>17, <1>18, <1>19, <1>20,
     <1>21, <1>22, <1>23

\* Every step keeps state_ and the descriptors together.
LEMMA SocketsStep ==
  Inv /\ [Next]_vars => SocketsOK'
<1> SUFFICES ASSUME Inv, [Next]_vars PROVE SocketsOK'
  OBVIOUS
<1> USE ConnectionAssumption DEF Inv, Goto, socket
<1>t. /\ pc \in [Threads -> Steps] /\ owner \in Threads \union {Nobody}
      /\ peer \in [Sockets -> Ends] /\ open \subseteq Sockets
      /\ created \in Nat /\ fd \in Sockets \union {NoSocket}
  BY DEF TypeOK
<1>s. SocketsOK /\ StateMatchesSocket
  BY DEF SocketsOK
<1>l. \A t \in Threads :
        pc[t] \in {"connecting", "sending", "relock"} => owner = t
  BY DEF LockOK
<1>h. owner = Nobody => ~Hanging /\ state # "CONNECTING"
  BY <1>t, <1>s, <1>l DEF Hanging, SocketsOK
<1>d. state \notin {"CONNECTED", "CONNECTING"} /\ ~Hanging /\ fd # NoSocket =>
        peer[fd] # "reads"
  BY <1>s DEF SocketsOK, StateMatchesSocket, TypeOK
<1>0. ASSUME UNCHANGED <<state, fd, open, created, peer>>,
             \A t \in Threads :
               /\ pc'[t] = "connecting" <=> pc[t] = "connecting"
               /\ pc'[t] = "relock" <=> pc[t] = "relock"
               /\ pc'[t] = "sending" => state = "CONNECTED"
      PROVE  SocketsOK'
  <2>1. Hanging' <=> Hanging
    BY <1>0 DEF Hanging
  <2> QED
    BY <1>0, <1>s, <2>1 DEF SocketsOK, StateMatchesSocket
<1> USE <1>t
<1>1. ASSUME NEW t \in Threads, CallConnect(t) PROVE SocketsOK'
  BY <1>0, <1>1, <1>s DEF CallConnect, Call, calls, SocketsOK
<1>2. ASSUME NEW t \in Threads, CallReceive(t) PROVE SocketsOK'
  BY <1>0, <1>2, <1>s DEF CallReceive, Call, calls, SocketsOK
<1>3. ASSUME NEW t \in Threads, CallDisconnect(t) PROVE SocketsOK'
  BY <1>0, <1>3, <1>s DEF CallDisconnect, Call, calls, SocketsOK
<1>4. ASSUME NEW t \in Threads, NEW p \in Payloads, CallSend(t, p)
      PROVE SocketsOK'
  BY <1>0, <1>4, <1>s DEF CallSend, Call, SocketsOK
<1>5. ASSUME NEW t \in Threads, ConnectAlready(t) PROVE SocketsOK'
  BY <1>0, <1>5, <1>s DEF ConnectAlready, calls, SocketsOK
<1>6. ASSUME NEW t \in Threads, ConnectSocket(t) PROVE SocketsOK'
  <2>1. /\ fd # NoSocket => peer[fd] # "reads"
        /\ created' = created + 1 /\ fd' = created'
        /\ open' = open \union {fd'} /\ state' = "CONNECTING"
        /\ UNCHANGED peer /\ pc'[t] = "connecting"
        /\ created + 1 \in Sockets
    BY <1>6, <1>h, <1>d, RoomForOne DEF ConnectSocket
  <2>2. \A u \in Threads : /\ pc'[u] = "connecting" => fd' \in open'
                           /\ pc'[u] # "sending" /\ pc'[u] # "relock"
    BY <1>6, <1>l, <2>1 DEF ConnectSocket
  <2>3. StateMatchesSocket'
    BY <1>s, <2>1 DEF StateMatchesSocket, NoSocket, Sockets
  <2>4. open' \subseteq 1 .. created'
    <3>1. open \subseteq 1 .. created
      BY <1>s DEF SocketsOK
    <3>2. 1 .. created' = (1 .. created) \union {created + 1}
      BY <2>1
    <3> QED
      BY <2>1, <3>1, <3>2
  <2> QED
    BY <2>1, <2>2, <2>3, <2>4 DEF SocketsOK
<1>7. ASSUME NEW t \in Threads, ConnectNoSocket(t) PROVE SocketsOK'
  <2>1. /\ fd # NoSocket => peer[fd] # "reads"
        /\ fd' = NoSocket /\ state' = "FAILED"
        /\ UNCHANGED <<peer, open, created>>
    BY <1>7, <1>s, <1>h, <1>d DEF ConnectNoSocket
  <2>2. \A u \in Threads : pc'[u] # "connecting" /\ pc'[u] # "sending"
    BY <1>7, <1>l DEF ConnectNoSocket
  <2>3. StateMatchesSocket'
    BY <1>s, <2>1 DEF StateMatchesSocket
  <2> QED
    BY <1>s, <2>1, <2>2, <2>3 DEF SocketsOK
<1>8. ASSUME NEW t \in Threads, Connected(t) PROVE SocketsOK'
  <2>1. /\ fd \in open /\ state' = "CONNECTED"
        /\ UNCHANGED <<peer, open, created, fd>>
    BY <1>8, <1>s DEF Connected, SocketsOK
  <2>2. \A u \in Threads : pc'[u] # "connecting" /\ pc'[u] # "sending"
    BY <1>8, <1>l DEF Connected
  <2> QED
    BY <1>s, <2>1, <2>2 DEF SocketsOK, StateMatchesSocket, NoSocket, Sockets
<1>9. ASSUME NEW t \in Threads, ConnectFails(t) PROVE SocketsOK'
  <2>1. /\ state' = "FAILED" /\ UNCHANGED <<peer, open, created, fd>>
        /\ Hanging'
    BY <1>9 DEF ConnectFails, Hanging
  <2>2. \A u \in Threads : pc'[u] # "connecting" /\ pc'[u] # "sending"
    BY <1>9, <1>l DEF ConnectFails
  <2> QED
    BY <1>s, <2>1, <2>2 DEF SocketsOK, StateMatchesSocket
<1>10. ASSUME NEW t \in Threads, SendRefused(t) PROVE SocketsOK'
  BY <1>0, <1>10, <1>s DEF SendRefused, calls, SocketsOK
<1>11. ASSUME NEW t \in Threads, SendLocks(t) PROVE SocketsOK'
  BY <1>0, <1>11, <1>s DEF SendLocks, calls, SocketsOK
<1>12. ASSUME NEW t \in Threads, SendUnit(t) PROVE SocketsOK'
  BY <1>0, <1>12, <1>s DEF SendUnit, SocketsOK
<1>13. ASSUME NEW t \in Threads, SendAborts(t) PROVE SocketsOK'
  BY <1>0, <1>13, <1>s DEF SendAborts, SocketsOK
<1>14. ASSUME NEW t \in Threads, SendBreaks(t) PROVE SocketsOK'
  <2>1. /\ state' = "FAILED" /\ UNCHANGED <<open, created, fd>>
        /\ fd \in Sockets /\ peer' = [peer EXCEPT ![fd] = "gone"]
    BY <1>14, <1>s DEF SendBreaks, SocketsOK, StateMatchesSocket
  <2>2. \A u \in Threads : pc'[u] # "connecting" /\ pc'[u] # "sending"
    BY <1>14, <1>l DEF SendBreaks
  <2> QED
    BY <1>s, <2>1, <2>2 DEF SocketsOK, StateMatchesSocket
<1>15. ASSUME NEW t \in Threads, Receive(t) PROVE SocketsOK'
  BY <1>0, <1>15, <1>s DEF Receive, calls, SocketsOK
<1>16. ASSUME NEW t \in Threads, ReceiveClosed(t) PROVE SocketsOK'
  <2>1. /\ state' = "FAILED" /\ UNCHANGED <<open, created, fd, peer>>
        /\ peer[fd] # "reads"
    BY <1>16, <1>s DEF ReceiveClosed
  <2>2. \A u \in Threads : pc'[u] # "connecting" /\ pc'[u] # "sending"
    BY <1>16, <1>l DEF ReceiveClosed
  <2> QED
    BY <1>s, <2>1, <2>2 DEF SocketsOK, StateMatchesSocket
<1>17. ASSUME NEW t \in Threads, Disconnect(t) PROVE SocketsOK'
  <2>1. /\ state' = "DISCONNECTED" /\ fd' = NoSocket /\ open' = open \ {fd}
        /\ UNCHANGED <<created, peer>>
    BY <1>17 DEF Disconnect
  <2>2. \A u \in Threads : pc'[u] # "connecting" /\ pc'[u] # "sending"
    BY <1>17, <1>l DEF Disconnect
  <2>3. StateMatchesSocket'
    BY <1>s, <2>1 DEF StateMatchesSocket
  <2> QED
    BY <1>s, <2>1, <2>2, <2>3 DEF SocketsOK
<1>18. ASSUME NEW t \in Threads, TimeOut(t) PROVE SocketsOK'
  BY <1>0, <1>18, <1>s DEF TimeOut, calls, SocketsOK
<1>19. ASSUME NEW t \in Threads, Return(t) PROVE SocketsOK'
  BY <1>0, <1>19, <1>s DEF Return, SocketsOK
<1>20. CASE UNCHANGED vars
  BY <1>0, <1>s, <1>20 DEF vars, socket, calls, SocketsOK
<1>21. ASSUME NEW t \in Threads, SendError(t) PROVE SocketsOK'
  <2>1. /\ state = "CONNECTED" /\ UNCHANGED <<state, open, created, fd>>
        /\ fd \in Sockets /\ peer' = [peer EXCEPT ![fd] = "gone"]
    BY <1>21, <1>s DEF SendError, SocketsOK, StateMatchesSocket
  <2>2. \A u \in Threads : pc'[u] # "connecting" /\ pc'[u] # "sending"
    BY <1>21, <1>l DEF SendError
  <2> QED
    BY <1>s, <2>1, <2>2 DEF SocketsOK, StateMatchesSocket
<1>22. ASSUME NEW t \in Threads, ReceiveError(t) PROVE SocketsOK'
  <2>1. /\ state = "CONNECTED" /\ UNCHANGED <<state, open, created, fd>>
        /\ fd \in Sockets /\ peer' = [peer EXCEPT ![fd] = "gone"]
    BY <1>22, <1>s DEF ReceiveError, SocketsOK, StateMatchesSocket
  <2>2. \A u \in Threads : pc'[u] # "connecting" /\ pc'[u] # "sending"
    BY <1>22, <1>l DEF ReceiveError
  <2> QED
    BY <1>s, <2>1, <2>2 DEF SocketsOK, StateMatchesSocket
<1>23. ASSUME NEW s \in Sockets, NEW end \in PeerEnds, PeerGoes(s, end)
       PROVE  SocketsOK'
  <2>1. /\ UNCHANGED <<state, fd, open, created, pc>>
        /\ \A c \in Sockets : peer'[c] = "reads" => peer[c] = "reads"
    BY <1>23, <1>s DEF PeerGoes, calls
  <2>2. Hanging' <=> Hanging
    BY <2>1 DEF Hanging
  <2>3. \A s1 \in open' \ {fd'} : peer'[s1] # "reads"
    BY <1>s, <2>1 DEF StateMatchesSocket
  <2> QED
    BY <1>s, <2>1, <2>2, <2>3 DEF SocketsOK, StateMatchesSocket
<1> QED
  BY NextSteps, <1>1, <1>2, <1>3, <1>4, <1>5, <1>6, <1>7, <1>8, <1>9, <1>10,
     <1>11, <1>12, <1>13, <1>14, <1>15, <1>16, <1>17, <1>18, <1>19, <1>20,
     <1>21, <1>22, <1>23

\* Every step keeps what is known of the sends that began in vain.
LEMMA VainStep ==
  Inv /\ [Next]_vars => VainOK'
<1> SUFFICES ASSUME Inv, [Next]_vars PROVE VainOK'
  OBVIOUS
<1> USE ConnectionAssumption DEF Goto, socket
<1>t. /\ pc \in [Threads -> Steps] /\ owner \in Threads \union {Nobody}
      /\ peer \in [Sockets -> Ends] /\ vain \in [Sockets -> Nat]
      /\ created \in Nat
  BY DEF Inv, TypeOK
<1>v. /\ \A s \in Sockets : peer[s] \notin Dead => vain[s] = 0
      /\ \A s \in Sockets : s > created => peer[s] = "reads"
      /\ state = "CONNECTING" => vain[fd] = 0
      /\ state = "CONNECTED" =>
           vain[fd] <= Told + IF Sending THEN 1 ELSE 0
  BY DEF Inv, VainOK
<1>s. /\ state \in {"CONNECTED", "CONNECTING"} => fd \in Sockets
      /\ \A t \in Threads : pc[t] = "sending" => state = "CONNECTED"
      /\ open \subseteq 1 .. created
  BY DEF Inv, TypeOK, SocketsOK, StateMatchesSocket
<1>l. \A t \in Threads : pc[t] = "sending" => owner = t
  BY DEF Inv, LockOK
<1>c. \A t \in Threads :
        pc[t] = "connecting" => owner = t /\ state = "CONNECTING"
  BY DEF Inv, LockOK, SocketsOK
<1> USE <1>t
<1>0. ASSUME UNCHANGED <<vain, peer, created>>,
             state' \in {"CONNECTED", "CONNECTING"} =>
               /\ UNCHANGED <<state, fd>>
               /\ Sending' <=> Sending
      PROVE  VainOK'
  <2>1. state' = "CONNECTED" =>
          vain'[fd'] <= Told + IF Sending' THEN 1 ELSE 0
    BY <1>0, <1>v
  <2>2. state' = "CONNECTED" => Told' = Told
    BY <1>0 DEF Told
  <2>3. state' = "CONNECTED" =>
          vain'[fd'] <= Told' + IF Sending' THEN 1 ELSE 0
    BY <1>0, <1>s, <2>1, <2>2
  <2> QED
    BY <1>0, <1>v, <2>3 DEF VainOK
<1>p. ASSUME UNCHANGED <<vain, peer, created, fd>>, peer[fd] \notin Dead,
             state = "CONNECTED", state' = "CONNECTED"
      PROVE  VainOK'
  <2>1. vain'[fd'] = 0
    BY <1>p, <1>v, <1>s
  <2>2. vain'[fd'] <= Told' + IF Sending' THEN 1 ELSE 0
    BY <2>1 DEF Told
  <2> QED
    BY <1>p, <1>v, <2>2 DEF VainOK
<1>g. ASSUME state = "CONNECTED", UNCHANGED <<vain, state, fd, created>>,
             peer' = [peer EXCEPT ![fd] = "gone"], peer[fd] \in Dead,
             vain[fd] <= 1
      PROVE  VainOK'
  <2>1. fd \in Sockets /\ Told' = 1
    BY <1>g, <1>s DEF Told
  <2>2. vain'[fd'] <= Told' + IF Sending' THEN 1 ELSE 0
    BY <1>g, <2>1
  <2>3. \A s \in Sockets : peer'[s] \notin Dead => vain'[s] = 0
    BY <1>g, <1>v, <2>1 DEF Dead
  <2>4. \A s \in Sockets : s > created' => peer'[s] = "reads"
    BY <1>g, <1>v, <2>1 DEF Dead
  <2> QED
    BY <1>g, <2>2, <2>3, <2>4 DEF VainOK
<1>1. ASSUME NEW t \in Threads, CallConnect(t) PROVE VainOK'
  <2>1. Sending' <=> Sending
    BY <1>1 DEF CallConnect, Call, Sending
  <2> QED
    BY <1>0, <1>1, <2>1 DEF CallConnect, Call
<1>2. ASSUME NEW t \in Threads, CallReceive(t) PROVE VainOK'
  <2>1. Sending' <=> Sending
    BY <1>2 DEF CallReceive, Call, Sending
  <2> QED
    BY <1>0, <1>2, <2>1 DEF CallReceive, Call
<1>3. ASSUME NEW t \in Threads, CallDisconnect(t) PROVE VainOK'
  <2>1. Sending' <=> Sending
    BY <1>3 DEF CallDisconnect, Call, Sending
  <2> QED
    BY <1>0, <1>3, <2>1 DEF CallDisconnect, Call
<1>4. ASSUME NEW t \in Threads, NEW p \in Payloads, CallSend(t, p)
      PROVE VainOK'
  <2>1. Sending' <=> Sending
    BY <1>4 DEF CallSend, Call, Sending
  <2> QED
    BY <1>0, <1>4, <2>1 DEF CallSend, Call
<1>5. ASSUME NEW t \in Threads, ConnectAlready(t) PROVE VainOK'
  <2>1. Sending' <=> Sending
    BY <1>5 DEF ConnectAlready, Sending
  <2> QED
    BY <1>0, <1>5, <2>1 DEF ConnectAlready
<1>6. ASSUME NEW t \in Threads, ConnectSocket(t) PROVE VainOK'
  <2>1. /\ created + 1 \in Sockets /\ created' = created + 1 /\ fd' = created'
        /\ UNCHANGED <<vain, peer>> /\ state' = "CONNECTING"
    BY <1>6, RoomForOne DEF ConnectSocket, Inv
  <2>2. vain'[fd'] = 0
    BY <1>v, <2>1 DEF Dead
  <2>3. \A s \in Sockets : s > created' => peer'[s] = "reads"
    BY <1>v, <2>1 DEF Sockets
  <2> QED
    BY <1>v, <2>1, <2>2, <2>3 DEF VainOK
<1>7. ASSUME NEW t \in Threads, ConnectNoSocket(t) PROVE VainOK'
  BY <1>0, <1>7 DEF ConnectNoSocket
<1>8. ASSUME NEW t \in Threads, Connected(t) PROVE VainOK'
  <2>1. owner = t /\ state = "CONNECTING" /\ vain[fd] = 0 /\ fd \in Sockets
    BY <1>8, <1>v, <1>s, <1>c DEF Connected
  <2>2. vain'[fd'] = 0
    BY <1>8, <2>1 DEF Connected
  <2>3. vain'[fd'] <= Told' + IF Sending' THEN 1 ELSE 0
    BY <2>2 DEF Told
  <2> QED
    BY <1>8, <1>v, <2>3 DEF Connected, VainOK
<1>9. ASSUME NEW t \in Threads, ConnectFails(t) PROVE VainOK'
  BY <1>0, <1>9 DEF ConnectFails
<1>10. ASSUME NEW t \in Threads, SendRefused(t) PROVE VainOK'
  <2>1. Sending' <=> Sending
    BY <1>10 DEF SendRefused, Sending
  <2> QED
    BY <1>0, <1>10, <2>1 DEF SendRefused
<1>11. ASSUME NEW t \in Threads, SendLocks(t) PROVE VainOK'
  <2>1. /\ owner = Nobody /\ state = "CONNECTED" /\ fd \in Sockets
        /\ UNCHANGED <<state, fd, peer, created>>
        /\ vain' = [vain EXCEPT ![fd] = @ + IF peer[fd] \in Dead THEN 1 ELSE 0]
    BY <1>11, <1>s DEF SendLocks
  <2>2. ~Sending /\ Sending'
    BY <1>11, <1>l, <2>1 DEF Sending, SendLocks
  <2>3. Told' = Told /\ Told \in {0, 1}
    BY <2>1 DEF Told
  <2>4. vain[fd] <= Told /\ vain[fd] \in Nat
    BY <1>v, <2>1, <2>2, <2>3
  <2>5. vain'[fd] \in {vain[fd], vain[fd] + 1}
    BY <2>1
  <2>6. vain'[fd'] <= Told' + IF Sending' THEN 1 ELSE 0
    BY <2>1, <2>2, <2>3, <2>4, <2>5
  <2>7. \A s \in Sockets : peer'[s] \notin Dead => vain'[s] = 0
    BY <1>v, <2>1
  <2> QED
    BY <1>v, <2>1, <2>6, <2>7 DEF VainOK
<1>12. ASSUME NEW t \in Threads, SendUnit(t) PROVE VainOK'
  BY <1>p, <1>s, <1>12 DEF SendUnit
<1>13. ASSUME NEW t \in Threads, SendAborts(t) PROVE VainOK'
  BY <1>p, <1>s, <1>13 DEF SendAborts
<1>14. ASSUME NEW t \in Threads, SendBreaks(t) PROVE VainOK'
  <2>1. /\ fd \in Sockets /\ peer[fd] \in Dead /\ state' = "FAILED"
        /\ UNCHANGED <<vain, created>> /\ peer' = [peer EXCEPT ![fd] = "gone"]
    BY <1>14, <1>s DEF SendBreaks, Dead
  <2>2. \A s \in Sockets : peer'[s] \notin Dead => vain'[s] = 0
    BY <1>v, <2>1 DEF Dead
  <2>3. \A s \in Sockets : s > created' => peer'[s] = "reads"
    BY <1>v, <2>1 DEF Dead
  <2> QED
    BY <2>1, <2>2, <2>3 DEF VainOK
<1>15. ASSUME NEW t \in Threads, Receive(t) PROVE VainOK'
  <2>1. Sending' <=> Sending
    BY <1>15 DEF Receive, Sending
  <2> QED
    BY <1>0, <1>15, <2>1 DEF Receive
<1>16. ASSUME NEW t \in Threads, ReceiveClosed(t) PROVE VainOK'
  BY <1>0, <1>16 DEF ReceiveClosed
<1>17. ASSUME NEW t \in Threads, Disconnect(t) PROVE VainOK'
  BY <1>0, <1>17 DEF Disconnect
<1>18. ASSUME NEW t \in Threads, TimeOut(t) PROVE VainOK'
  <2>1. Sending' <=> Sending
    BY <1>18 DEF TimeOut, Sending
  <2> QED
    BY <1>0, <1>18, <2>1 DEF TimeOut
<1>19. ASSUME NEW t \in Threads, Return(t) PROVE VainOK'
  <2>1. Sending' <=> Sending
    BY <1>19 DEF Return, Sending
  <2> QED
    BY <1>0, <1>19, <2>1 DEF Return
<1>20. CASE UNCHANGED vars
  <2>1. Sending' <=> Sending
    BY <1>20 DEF vars, Sending
  <2> QED
    BY <1>0, <1>20, <2>1 DEF vars
<1>21. ASSUME NEW t \in Threads, SendError(t) PROVE VainOK'
  <2>1. /\ state = "CONNECTED" /\ fd \in Sockets /\ peer[fd] = "lost"
        /\ UNCHANGED <<vain, state, fd, created>>
        /\ peer' = [peer EXCEPT ![fd] = "gone"]
    BY <1>21, <1>s DEF SendError
  <2>2. vain[fd] <= 1
    BY <1>v, <2>1 DEF Told
  <2> QED
    BY <1>g, <2>1, <2>2 DEF Dead
<1>22. ASSUME NEW t \in Threads, ReceiveError(t) PROVE VainOK'
  <2>1. /\ state = "CONNECTED" /\ fd \in Sockets /\ peer[fd] \in {"lost", "reset"}
        /\ UNCHANGED <<vain, state, fd, created>>
        /\ peer' = [peer EXCEPT ![fd] = "gone"]
    BY <1>22, <1>s DEF ReceiveError
  <2>2. vain[fd] <= 1
    BY <1>v, <2>1 DEF Told
  <2> QED
    BY <1>g, <2>1, <2>2 DEF Dead
<1>23. ASSUME NEW s \in Sockets, NEW end \in PeerEnds, PeerGoes(s, end)
       PROVE  VainOK'
  <2>1. /\ peer[s] \notin Dead /\ s <= created
        /\ peer' = [peer EXCEPT ![s] = end]
        /\ UNCHANGED <<vain, state, fd, created, pc>>
    BY <1>23, <1>s DEF PeerGoes, Dead
  <2>2. vain[s] = 0
    BY <1>v, <2>1
  <2>3. Sending' <=> Sending
    BY <2>1 DEF Sending
  <2>4. ASSUME state = "CONNECTED"
        PROVE  vain'[fd'] <= Told' + IF Sending' THEN 1 ELSE 0
    <3>1. CASE fd = s
      <4>1. vain'[fd'] = 0
        BY <2>1, <2>2, <3>1
      <4> QED
        BY <4>1 DEF Told
    <3>2. CASE fd # s
      <4>1. Told' = Told
        BY <1>s, <2>1, <2>4, <3>2 DEF Told
      <4> QED
        BY <1>v, <2>1, <2>3, <2>4, <4>1
    <3> QED
      BY <3>1, <3>2
  <2>5. \A c \in Sockets : peer'[c] \notin Dead => vain'[c] = 0
    BY <1>v, <2>1, <2>2
  <2>6. \A c \in Sockets : c > created' => peer'[c] = "reads"
    BY <1>v, <2>1 DEF Sockets
  <2> QED
    BY <1>v, <2>1, <2>4, <2>5, <2>6 DEF VainOK
<1> QED
  BY NextSteps, <1>1, <1>2, <1>3, <1>4, <1>5, <1>6, <1>7, <1>8, <1>9, <1>10,
     <1>11, <1>12, <1>13, <1>14, <1>15, <1>16, <1>17, <1>18, <1>19, <1>20,
     <1>21, <1>22, <1>23

\* Every step keeps the connects that have begun within the bound.
LEMMA RoomStep ==
  Inv /\ [Next]_vars => RoomOK'
<1> SUFFICES ASSUME Inv, [Next]_vars PROVE RoomOK'
  OBVIOUS
<1> USE ConnectionAssumption DEF Inv, TypeOK, Goto, socket
<1>0. ASSUME created' = created,
             \A t \in Threads : pc'[t] = "connect" <=> pc[t] = "connect"
      PROVE  RoomOK'
  <2>1. Wanting' = Wanting
    BY <1>0 DEF Wanting
  <2> QED
    BY <1>0, <2>1 DEF RoomOK
<1>1. ASSUME NEW t \in Threads, CallConnect(t) PROVE RoomOK'
  <2>1. /\ t \notin Wanting /\ Wanting' = Wanting \union {t}
        /\ created + Cardinality(Wanting) < MaxSockets /\ created' = created
    BY <1>1 DEF CallConnect, Call, Wanting
  <2>2. IsFiniteSet(Wanting) /\ Cardinality(Wanting) \in Nat
    BY FS_CardinalityType DEF RoomOK
  <2>3. /\ IsFiniteSet(Wanting')
        /\ Cardinality(Wanting') = Cardinality(Wanting) + 1
    BY <2>1, <2>2, FS_AddElement
  <2> QED
    BY <2>1, <2>2, <2>3 DEF RoomOK
<1>2. ASSUME NEW t \in Threads, CallReceive(t) PROVE RoomOK'
  BY <1>0, <1>2 DEF CallReceive, Call, calls
<1>3. ASSUME NEW t \in Threads, CallDisconnect(t) PROVE RoomOK'
  BY <1>0, <1>3 DEF CallDisconnect, Call, calls
<1>4. ASSUME NEW t \in Threads, NEW p \in Payloads, CallSend(t, p)
      PROVE RoomOK'
  BY <1>0, <1>4 DEF CallSend, Call
<1>5. ASSUME NEW t \in Threads, ConnectAlready(t) PROVE RoomOK'
  <2>1. /\ t \in Wanting /\ Wanting' = Wanting \ {t}
        /\ created' = created
    BY <1>5 DEF ConnectAlready, calls, Wanting
  <2>2. IsFiniteSet(Wanting) /\ Cardinality(Wanting) \in Nat
    BY FS_CardinalityType DEF RoomOK
  <2>3. /\ IsFiniteSet(Wanting')
        /\ Cardinality(Wanting') = Cardinality(Wanting) - 1
    BY <2>1, <2>2, FS_RemoveElement
  <2> QED
    BY <2>1, <2>2, <2>3 DEF RoomOK
<1>6. ASSUME NEW t \in Threads, ConnectSocket(t) PROVE RoomOK'
  <2>1. /\ t \in Wanting /\ Wanting' = Wanting \ {t}
        /\ created' = created + 1
    BY <1>6 DEF ConnectSocket, calls, Wanting
  <2>2. IsFiniteSet(Wanting) /\ Cardinality(Wanting) \in Nat
    BY FS_CardinalityType DEF RoomOK
  <2>3. /\ IsFiniteSet(Wanting')
        /\ Cardinality(Wanting') = Cardinality(Wanting) - 1
    BY <2>1, <2>2, FS_RemoveElement
  <2> QED
    BY <2>1, <2>2, <2>3 DEF RoomOK
<1>7. ASSUME NEW t \in Threads, ConnectNoSocket(t) PROVE RoomOK'
  <2>1. /\ t \in Wanting /\ Wanting' = Wanting \ {t}
        /\ created' = created
    BY <1>7 DEF ConnectNoSocket, calls, Wanting
  <2>2. IsFiniteSet(Wanting) /\ Cardinality(Wanting) \in Nat
    BY FS_CardinalityType DEF RoomOK
  <2>3. /\ IsFiniteSet(Wanting')
        /\ Cardinality(Wanting') = Cardinality(Wanting) - 1
    BY <2>1, <2>2, FS_RemoveElement
  <2> QED
    BY <2>1, <2>2, <2>3 DEF RoomOK
<1>8. ASSUME NEW t \in Threads, Connected(t) PROVE RoomOK'
  BY <1>0, <1>8 DEF Connected, calls
<1>9. ASSUME NEW t \in Threads, ConnectFails(t) PROVE RoomOK'
  BY <1>0, <1>9 DEF ConnectFails, calls
<1>10. ASSUME NEW t \in Threads, SendRefused(t) PROVE RoomOK'
  BY <1>0, <1>10 DEF SendRefused, calls
<1>11. ASSUME NEW t \in Threads, SendLocks(t) PROVE RoomOK'
  BY <1>0, <1>11 DEF SendLocks, calls
<1>12. ASSUME NEW t \in Threads, SendUnit(t) PROVE RoomOK'
  BY <1>0, <1>12 DEF SendUnit
<1>13. ASSUME NEW t \in Threads, SendAborts(t) PROVE RoomOK'
  BY <1>0, <1>13 DEF SendAborts
<1>14. ASSUME NEW t \in Threads, SendBreaks(t) PROVE RoomOK'
  BY <1>0, <1>14 DEF SendBreaks, calls
<1>15. ASSUME NEW t \in Threads, Receive(t) PROVE RoomOK'
  BY <1>0, <1>15 DEF Receive, calls
<1>16. ASSUME NEW t \in Threads, ReceiveClosed(t) PROVE RoomOK'
  BY <1>0, <1>16 DEF ReceiveClosed, calls
<1>17. ASSUME NEW t \in Threads, Disconnect(t) PROVE RoomOK'
  BY <1>0, <1>17 DEF Disconnect, calls
<1>18. ASSUME NEW t \in Threads, TimeOut(t) PROVE RoomOK'
  BY <1>0, <1>18 DEF TimeOut, calls
<1>19. ASSUME NEW t \in Threads, Return(t) PROVE RoomOK'
  BY <1>0, <1>19 DEF Return, Outcome
<1>21. ASSUME NEW t \in Threads, SendError(t) PROVE RoomOK'
  BY <1>0, <1>21 DEF SendError, calls
<1>22. ASSUME NEW t \in Threads, ReceiveError(t) PROVE RoomOK'
  BY <1>0, <1>22 DEF ReceiveError, calls
<1>23. ASSUME NEW s \in Sockets, NEW end \in PeerEnds, PeerGoes(s, end)
       PROVE  RoomOK'
  BY <1>0, <1>23 DEF PeerGoes, calls
<1>20. CASE UNCHANGED vars
  BY <1>0, <1>20 DEF vars, calls
<1> QED
  BY NextSteps, <1>1, <1>2, <1>3, <1>4, <1>5, <1>6, <1>7, <1>8, <1>9, <1>10,
     <1>11, <1>12, <1>13, <1>14, <1>15, <1>16, <1>17, <1>18, <1>19, <1>20,
     <1>21, <1>22, <1>23

\* Every step keeps the pieces of a payload together.
LEMMA WireStep ==
  Inv /\ [Next]_vars => WireOK'
<1> SUFFICES ASSUME Inv, [Next]_vars PROVE WireOK'
  OBVIOUS
<1> USE ConnectionAssumption
    DEF Inv, Goto, socket, LockOK, ArgOK, SocketsOK, StateMatchesSocket
<1>t. /\ pc \in [Threads -> Steps]
      /\ arg \in [Threads -> Payloads \union {"none"}]
      /\ done \in [Threads -> 0 .. Units]
  BY DEF Inv, TypeOK
<1> USE <1>t
<1>0. ASSUME UNCHANGED wire,
             \A t \in Threads :
               pc'[t] = "sending" =>
                 \/ done'[t] = 0
                 \/ pc[t] = "sending" /\ UNCHANGED <<fd, arg[t], done[t]>>
      PROVE  WireOK'
  <2>1. PiecesTogether'
    BY <1>0 DEF Inv, WireOK, PiecesTogether
  <2>2. \A t \in Threads :
          pc'[t] = "sending" /\ done'[t] > 0 =>
            /\ Len(wire[fd']) > 0
            /\ wire[fd'][Len(wire[fd'])] = <<arg'[t], done'[t]>>
    BY <1>0 DEF Inv, WireOK
  <2> QED
    BY <1>0, <2>1, <2>2 DEF WireOK
<1>p. ASSUME NEW t \in Threads, pc[t] = "sending", UNCHANGED <<fd, arg>>,
             wire' = [wire EXCEPT ![fd] = Append(@, <<arg[t], done[t] + 1>>)],
             done' = [done EXCEPT ![t] = @ + 1],
             \A u \in Threads : u # t => pc'[u] # "sending"
      PROVE  WireOK'
  <2>1. /\ fd \in Sockets /\ arg[t] \in Payloads /\ done[t] + 1 \in 1 .. Units
        /\ wire \in [Sockets -> Seq(Payloads \X (1 .. Units))]
    BY <1>p DEF TypeOK
  <2>2. done[t] + 1 > 1 =>
          /\ Len(wire[fd]) > 0
          /\ wire[fd][Len(wire[fd])] = <<arg[t], (done[t] + 1) - 1>>
    <3>1. done[t] \in Nat /\ (done[t] + 1) - 1 = done[t]
      OBVIOUS
    <3>2. done[t] > 0 => /\ Len(wire[fd]) > 0
                         /\ wire[fd][Len(wire[fd])] = <<arg[t], done[t]>>
      BY <1>p DEF WireOK
    <3> QED
      BY <3>1, <3>2
  <2>3. PiecesTogether'
    BY <1>p, <2>1, <2>2, NextPieceFits DEF WireOK
  <2>4. /\ Len(wire'[fd]) = Len(wire[fd]) + 1 /\ Len(wire[fd]) \in Nat
        /\ wire'[fd][Len(wire[fd]) + 1] = <<arg[t], done[t] + 1>>
    BY <1>p, <2>1, OnePieceMore
  <2>5. /\ Len(wire'[fd]) > 0
        /\ wire'[fd][Len(wire'[fd])] = <<arg[t], done'[t]>>
    BY <1>p, <2>1, <2>4
  <2> QED
    BY <1>p, <2>3, <2>5 DEF WireOK
<1>1. ASSUME NEW t \in Threads, CallConnect(t) PROVE WireOK'
  BY <1>0, <1>1 DEF CallConnect, Call, calls
<1>2. ASSUME NEW t \in Threads, CallReceive(t) PROVE WireOK'
  BY <1>0, <1>2 DEF CallReceive, Call, calls
<1>3. ASSUME NEW t \in Threads, CallDisconnect(t) PROVE WireOK'
  BY <1>0, <1>3 DEF CallDisconnect, Call, calls
<1>4. ASSUME NEW t \in Threads, NEW p \in Payloads, CallSend(t, p)
      PROVE WireOK'
  BY <1>0, <1>4 DEF CallSend, Call
<1>5. ASSUME NEW t \in Threads, ConnectAlready(t) PROVE WireOK'
  BY <1>0, <1>5 DEF ConnectAlready, calls
<1>6. ASSUME NEW t \in Threads, ConnectSocket(t) PROVE WireOK'
  BY <1>0, <1>6 DEF ConnectSocket, calls
<1>7. ASSUME NEW t \in Threads, ConnectNoSocket(t) PROVE WireOK'
  BY <1>0, <1>7 DEF ConnectNoSocket, calls
<1>8. ASSUME NEW t \in Threads, Connected(t) PROVE WireOK'
  BY <1>0, <1>8 DEF Connected, calls
<1>9. ASSUME NEW t \in Threads, ConnectFails(t) PROVE WireOK'
  BY <1>0, <1>9 DEF ConnectFails, calls
<1>10. ASSUME NEW t \in Threads, SendRefused(t) PROVE WireOK'
  BY <1>0, <1>10 DEF SendRefused, calls
<1>11. ASSUME NEW t \in Threads, SendLocks(t) PROVE WireOK'
  BY <1>0, <1>11 DEF SendLocks, calls
<1>12. ASSUME NEW t \in Threads, SendUnit(t) PROVE WireOK'
  <2>1. /\ pc[t] = "sending" /\ UNCHANGED <<fd, arg>>
        /\ \A u \in Threads : u # t => pc'[u] # "sending"
    BY <1>12 DEF SendUnit, LockOK
  <2>2. CASE /\ wire' = [wire EXCEPT ![fd] = Append(@, <<arg[t], done[t] + 1>>)]
             /\ done' = [done EXCEPT ![t] = @ + 1]
    BY <1>p, <2>1, <2>2
  <2> QED
    BY <1>12, <2>2 DEF SendUnit
<1>13. ASSUME NEW t \in Threads, SendAborts(t) PROVE WireOK'
  <2>1. /\ pc[t] = "sending" /\ UNCHANGED <<fd, arg>>
        /\ \A u \in Threads : u # t => pc'[u] # "sending"
    BY <1>13 DEF SendAborts, LockOK
  <2>2. CASE /\ wire' = [wire EXCEPT ![fd] = Append(@, <<arg[t], done[t] + 1>>)]
             /\ done' = [done EXCEPT ![t] = @ + 1]
    BY <1>p, <2>1, <2>2
  <2>3. CASE UNCHANGED <<wire, done>>
    BY <1>13, <1>0, <2>1, <2>3 DEF SendAborts
  <2> QED
    BY <1>13, <2>2, <2>3 DEF SendAborts
<1>14. ASSUME NEW t \in Threads, SendBreaks(t) PROVE WireOK'
  BY <1>0, <1>14 DEF SendBreaks, calls
<1>15. ASSUME NEW t \in Threads, Receive(t) PROVE WireOK'
  BY <1>0, <1>15 DEF Receive, calls
<1>16. ASSUME NEW t \in Threads, ReceiveClosed(t) PROVE WireOK'
  BY <1>0, <1>16 DEF ReceiveClosed, calls
<1>17. ASSUME NEW t \in Threads, Disconnect(t) PROVE WireOK'
  BY <1>0, <1>17 DEF Disconnect, calls
<1>18. ASSUME NEW t \in Threads, TimeOut(t) PROVE WireOK'
  BY <1>0, <1>18 DEF TimeOut, calls
<1>19. ASSUME NEW t \in Threads, Return(t) PROVE WireOK'
  BY <1>0, <1>19 DEF Return, Outcome
<1>21. ASSUME NEW t \in Threads, SendError(t) PROVE WireOK'
  BY <1>0, <1>21 DEF SendError, calls
<1>22. ASSUME NEW t \in Threads, ReceiveError(t) PROVE WireOK'
  BY <1>0, <1>22 DEF ReceiveError, calls
<1>23. ASSUME NEW s \in Sockets, NEW end \in PeerEnds, PeerGoes(s, end)
       PROVE  WireOK'
  BY <1>0, <1>23 DEF PeerGoes, calls
<1>20. CASE UNCHANGED vars
  BY <1>0, <1>20 DEF vars, calls
<1> QED
  BY NextSteps, <1>1, <1>2, <1>3, <1>4, <1>5, <1>6, <1>7, <1>8, <1>9, <1>10,
     <1>11, <1>12, <1>13, <1>14, <1>15, <1>16, <1>17, <1>18, <1>19, <1>20,
     <1>21, <1>22, <1>23

\* No step answers for a payload that is not on a wire.
LEMMA WrittenStep ==
  Inv /\ [Next]_vars => WrittenOK'
<1> SUFFICES ASSUME Inv, [Next]_vars PROVE WrittenOK'
  OBVIOUS
<1> USE ConnectionAssumption DEF Inv, Goto, socket, ArgOK, WrittenOK
<1>t. /\ pc \in [Threads -> Steps]
      /\ arg \in [Threads -> Payloads \union {"none"}]
      /\ done \in [Threads -> 0 .. Units]
      /\ told \in [Payloads -> {"unsent", "called", "ok", "error", "timeout"}]
  BY DEF Inv, TypeOK
<1> USE <1>t
<1>0. UNCHANGED wire => Written' = Written
  BY DEF Written, WholeOn
<1>1. ASSUME NEW t \in Threads, CallConnect(t) PROVE WrittenOK'
  BY <1>0, <1>1 DEF CallConnect, Call, calls
<1>2. ASSUME NEW t \in Threads, CallReceive(t) PROVE WrittenOK'
  BY <1>0, <1>2 DEF CallReceive, Call, calls
<1>3. ASSUME NEW t \in Threads, CallDisconnect(t) PROVE WrittenOK'
  BY <1>0, <1>3 DEF CallDisconnect, Call, calls
<1>4. ASSUME NEW t \in Threads, NEW p \in Payloads, CallSend(t, p)
      PROVE WrittenOK'
  BY <1>0, <1>4 DEF CallSend, Call
<1>5. ASSUME NEW t \in Threads, ConnectAlready(t) PROVE WrittenOK'
  BY <1>0, <1>5 DEF ConnectAlready, calls
<1>6. ASSUME NEW t \in Threads, ConnectSocket(t) PROVE WrittenOK'
  BY <1>0, <1>6 DEF ConnectSocket, calls
<1>7. ASSUME NEW t \in Threads, ConnectNoSocket(t) PROVE WrittenOK'
  BY <1>0, <1>7 DEF ConnectNoSocket, calls
<1>8. ASSUME NEW t \in Threads, Connected(t) PROVE WrittenOK'
  BY <1>0, <1>8 DEF Connected, calls
<1>9. ASSUME NEW t \in Threads, ConnectFails(t) PROVE WrittenOK'
  BY <1>0, <1>9 DEF ConnectFails, calls
<1>10. ASSUME NEW t \in Threads, SendRefused(t) PROVE WrittenOK'
  BY <1>0, <1>10 DEF SendRefused, calls
<1>11. ASSUME NEW t \in Threads, SendLocks(t) PROVE WrittenOK'
  BY <1>0, <1>11 DEF SendLocks, calls
<1>12. ASSUME NEW t \in Threads, SendUnit(t) PROVE WrittenOK'
  <2> USE DEF TypeOK
  <2>1. fd \in Sockets /\ arg[t] \in Payloads /\ done[t] + 1 \in 1 .. Units
    BY <1>12 DEF SendUnit, SocketsOK, StateMatchesSocket
  <2>2. Written \subseteq Written'
    BY <1>12, <2>1, <1>0, OnePieceMore DEF SendUnit
  <2>3. done[t] + 1 = Units => arg[t] \in Written'
    BY <1>12, <2>1, OnePieceMore DEF SendUnit
  <2> QED
    BY <1>12, <2>1, <2>2, <2>3 DEF SendUnit
<1>13. ASSUME NEW t \in Threads, SendAborts(t) PROVE WrittenOK'
  <2> USE DEF TypeOK
  <2>1. fd \in Sockets /\ arg[t] \in Payloads /\ done[t] + 1 \in 1 .. Units
    BY <1>13 DEF SendAborts, SocketsOK, StateMatchesSocket
  <2>2. Written \subseteq Written'
    <3>1. CASE wire' = [wire EXCEPT ![fd] = Append(@, <<arg[t], done[t] + 1>>)]
      BY <2>1, <3>1, OnePieceMore
    <3>2. CASE wire' = wire
      BY <1>0, <3>2
    <3> QED
      BY <1>13, <3>1, <3>2 DEF SendAborts
  <2> QED
    BY <1>13, <2>2 DEF SendAborts
<1>14. ASSUME NEW t \in Threads, SendBreaks(t) PROVE WrittenOK'
  BY <1>0, <1>14 DEF SendBreaks, calls
<1>15. ASSUME NEW t \in Threads, Receive(t) PROVE WrittenOK'
  BY <1>0, <1>15 DEF Receive, calls
<1>16. ASSUME NEW t \in Threads, ReceiveClosed(t) PROVE WrittenOK'
  BY <1>0, <1>16 DEF ReceiveClosed, calls
<1>17. ASSUME NEW t \in Threads, Disconnect(t) PROVE WrittenOK'
  BY <1>0, <1>17 DEF Disconnect, calls
<1>18. ASSUME NEW t \in Threads, TimeOut(t) PROVE WrittenOK'
  BY <1>0, <1>18 DEF TimeOut, calls
<1>19. ASSUME NEW t \in Threads, Return(t) PROVE WrittenOK'
  BY <1>0, <1>19 DEF Return, Outcome
<1>21. ASSUME NEW t \in Threads, SendError(t) PROVE WrittenOK'
  BY <1>0, <1>21 DEF SendError, calls
<1>22. ASSUME NEW t \in Threads, ReceiveError(t) PROVE WrittenOK'
  BY <1>0, <1>22 DEF ReceiveError, calls
<1>23. ASSUME NEW s \in Sockets, NEW end \in PeerEnds, PeerGoes(s, end)
       PROVE  WrittenOK'
  BY <1>0, <1>23 DEF PeerGoes, calls
<1>20. CASE UNCHANGED vars
  BY <1>0, <1>20 DEF vars, calls
<1> QED
  BY NextSteps, <1>1, <1>2, <1>3, <1>4, <1>5, <1>6, <1>7, <1>8, <1>9, <1>10,
     <1>11, <1>12, <1>13, <1>14, <1>15, <1>16, <1>17, <1>18, <1>19, <1>20,
     <1>21, <1>22, <1>23

-----------------------------------------------------------------------------
(***************************************************************************)
(* The theorems.                                                           *)
(***************************************************************************)
\* The invariant holds before the first call.
LEMMA InitInv ==
  Init => Inv
<1> SUFFICES ASSUME Init PROVE Inv
  OBVIOUS
<1> USE ConnectionAssumption DEF Init
<1>1. TypeOK
  BY DEF TypeOK, Sockets, NoSocket, Steps, Ends
<1>2. LockOK /\ ArgOK
  BY DEF LockOK, ArgOK
<1>3. SocketsOK /\ VainOK
  BY DEF SocketsOK, StateMatchesSocket, VainOK, Dead
<1>4. RoomOK
  <2>1. Wanting = {}
    BY DEF Wanting
  <2> QED
    BY <2>1, FS_EmptySet DEF RoomOK
<1>5. WireOK
  BY DEF WireOK, PiecesTogether
<1>6. WrittenOK
  BY DEF WrittenOK
<1> QED
  BY <1>1, <1>2, <1>3, <1>4, <1>5, <1>6 DEF Inv

\* The invariant holds whatever the threads call and however the calls end.
THEOREM ConnectionInvariant ==
  Spec => []Inv
<1>1. Init => Inv
  BY InitInv
<1>2. Inv /\ [Next]_vars => Inv'
  BY TypeStep, LockStep, ArgStep, SocketsStep, VainStep, RoomStep, WireStep, WrittenStep
     DEF Inv
<1> QED
  BY <1>1, <1>2, PTL DEF Spec

\* Every variable keeps its type in every step of a Connection.
THEOREM ConnectionTypes ==
  Spec => []TypeOK
<1>1. Inv => TypeOK
  BY DEF Inv
<1> QED
  BY <1>1, ConnectionInvariant, PTL

\* StateMatchesSocket: is_connected() is never true of a socket that is closed, a
\* disconnected Connection holds no descriptor, and the descriptors a reconnect
\* loses are never those of a connection the peer still reads.
THEOREM StateAlwaysMatches ==
  Spec => []StateMatchesSocket
<1>1. Inv => StateMatchesSocket
  BY DEF Inv, SocketsOK
<1> QED
  BY <1>1, ConnectionInvariant, PTL

\* BreakNoticed: when a connection is dead, state_ may go on saying CONNECTED, but
\* no more than one send() ends on it before a send() says FAILED.
THEOREM DeathIsNoticed ==
  Spec => []BreakNoticed
<1>1. Inv => BreakNoticed
  <2> SUFFICES ASSUME Inv, state = "CONNECTED",
                      \A t \in Threads : pc[t] # "sending"
               PROVE  vain[fd] <= 1
    BY DEF BreakNoticed
  <2>1. ~Sending /\ Told \in {0, 1} /\ fd \in Sockets
    BY DEF Sending, Told, Inv, TypeOK, SocketsOK, StateMatchesSocket
  <2>2. vain[fd] <= Told /\ vain[fd] \in Nat
    BY <2>1 DEF Inv, VainOK, TypeOK
  <2> QED
    BY <2>1, <2>2
<1> QED
  BY <1>1, ConnectionInvariant, PTL

\* PiecesTogether: send() keeps mutex_ over all pieces of a payload, so nothing
\* comes between them, although a send that ends early leaves a stump.
THEOREM SendsNeverMix ==
  Spec => []PiecesTogether
<1>1. Inv => PiecesTogether
  BY DEF Inv, WireOK
<1> QED
  BY <1>1, ConnectionInvariant, PTL

\* OkMeansWritten: a send() that returned, not later than its time-out, has its
\* whole payload on one of the sockets.
THEOREM OkAlwaysMeansWritten ==
  Spec => []OkMeansWritten
<1>1. Inv => OkMeansWritten
  BY DEF Inv, WrittenOK, OkMeansWritten, Written
<1> QED
  BY <1>1, ConnectionInvariant, PTL
=============================================================================
