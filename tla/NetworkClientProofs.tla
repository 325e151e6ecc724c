------------------------ MODULE NetworkClientProofs -------------------------
(***************************************************************************)
(* What TLAPS proves of NetworkClient, for any number of senders, closers, *)
(* payloads, pieces, sockets and descriptors of the application, whatever  *)
(* may fail.                                                               *)
(***************************************************************************)
EXTENDS NetworkClient, TLAPS

-----------------------------------------------------------------------------
(***************************************************************************)
(* The inductive invariant.                                                *)
(***************************************************************************)
\* One thread at a time sends, and one at a time shuts down.
AloneOK ==
  /\ \A t \in Senders : pc[t] \in {"idle"} \union SendSteps
  /\ \A t \in Closers : pc[t] \in {"idle"} \union CloseSteps
  /\ \A t, u \in Senders : pc[t] # "idle" /\ pc[u] # "idle" => t = u
  /\ \A t, u \in Closers : pc[t] # "idle" /\ pc[u] # "idle" => t = u

\* A thread in send_data() has a payload of which some pieces are left.
CallOK ==
  \A t \in Senders :
    pc[t] # "idle" =>
      arg[t] \in Payloads /\ outcome[arg[t]] = "sending" /\ done[t] < Units

Opening == {"connect", "giveup"}
Leaving == {"test", "close"}
Forgetting == {"forget", "unset", "givenup"}

\* As long as shutdown() and send_data() have not overlapped, what is in
\* socket_fd_ is the only socket, is_connected_ says whether there is one, and
\* both are wrong only in between, with the only thread at work.
OwnOK ==
  ~raced =>
    /\ ~stranger
    /\ \A t \in Senders, u \in Closers : pc[t] = "idle" \/ pc[u] = "idle"
    /\ \A d \in Descriptors : table[d] \in Connections => d = fd
    /\ \A t \in Threads, d \in Descriptors :
         pc[t] \in Forgetting => table[d] \notin Connections
    /\ fd # NoFd /\ (\A t \in Threads : pc[t] \notin Forgetting) =>
         table[fd] \in Connections
    /\ (\A t \in Threads :
          pc[t] \notin Opening \union Leaving \union Forgetting) =>
         (connected <=> fd # NoFd)
    /\ \A t \in Senders :
         /\ pc[t] \in {"socket", "givenup"} => ~connected
         /\ pc[t] = "send" => connected
         /\ pc[t] \in Opening \union Leaving => ~connected /\ fd # NoFd
    /\ \A t \in Threads :
         /\ pc[t] \in {"close", "giveup"} => hold[t] = fd /\ fd # NoFd
         /\ pc[t] = "unset" => fd = NoFd

\* The payloads whose last piece is on a wire.
Ended == {p \in Payloads : Ends(p) # {}}

\* Only a payload that is counted as sent has its last piece on a wire, and each
\* of them has it, as long as shutdown() has not overlapped.
WireOK ==
  /\ \A p \in Ended : outcome[p] = "sent"
  /\ ~raced => \A p \in Payloads : outcome[p] = "sent" => p \in Ended

Inv ==
  /\ TypeOK
  /\ AloneOK
  /\ CallOK
  /\ OwnOK
  /\ WireOK

-----------------------------------------------------------------------------
\* A connection is a number that neither Free nor Other is.
LEMMA Numbers ==
  /\ Free \notin Connections /\ Other \notin Connections /\ Free # Other
  /\ NoFd \notin Descriptors /\ NoPayload \notin Payloads
  /\ Senders \subseteq Threads /\ Closers \subseteq Threads
  /\ \A t \in Senders : t \notin Closers
  BY NetworkAssumption
     DEF Free, Other, NoFd, NoPayload, Connections, Descriptors, Payloads,
        Threads

\* Every step is one of these.
LEMMA NextSteps ==
  [Next]_vars =>
    \/ OpenOther \/ \E c \in Connections : PeerStalls(c)
    \/ \E t \in Senders, p \in Payloads : SendBegin(t, p)
    \/ \E t \in Senders : CheckConnected(t) \/ NoSocket(t) \/ Socket(t)
    \/ \E t \in Senders : ConnectOk(t) \/ ConnectFails(t)
    \/ \E t \in Senders : SendPiece(t) \/ SendAstray(t) \/ SendFails(t)
    \/ \E t \in Senders : SendSignals(t) \/ SendUnsets(t) \/ GivenUp(t)
    \/ \E t \in Threads : Tests(t) \/ Closes(t) \/ Forgets(t)
    \/ \E t \in Closers : ShutdownBegin(t) \/ ShutdownUnsets(t)
    \/ UNCHANGED vars
  BY Numbers DEF Next, SendStep, ShutdownStep, CloseStep

\* A piece at the end of a wire ends its payload if it is the last one, and ends
\* or undoes no other.
LEMMA OnePieceMore ==
  ASSUME NEW s \in Connections, NEW p \in Payloads, NEW n \in 1 .. Units,
         wire \in [Connections -> Seq(Payloads \X (1 .. Units))],
         wire' = [wire EXCEPT ![s] = Append(@, <<p, n>>)]
  PROVE  /\ wire' \in [Connections -> Seq(Payloads \X (1 .. Units))]
         /\ Ended' = IF n = Units THEN Ended \union {p} ELSE Ended
<1>1. /\ wire[s] \in Seq(Payloads \X (1 .. Units))
      /\ <<p, n>> \in Payloads \X (1 .. Units)
      /\ wire'[s] = Append(wire[s], <<p, n>>)
      /\ \A c \in Connections : c # s => wire'[c] = wire[c]
  OBVIOUS
<1>2. /\ wire'[s] \in Seq(Payloads \X (1 .. Units))
      /\ DOMAIN wire[s] = 1 .. Len(wire[s]) /\ Len(wire[s]) \in Nat
      /\ DOMAIN wire'[s] = 1 .. Len(wire[s]) + 1
      /\ wire'[s][Len(wire[s]) + 1] = <<p, n>>
      /\ \A m \in 1 .. Len(wire[s]) : wire'[s][m] = wire[s][m]
  BY <1>1
<1>3. wire' \in [Connections -> Seq(Payloads \X (1 .. Units))]
  BY <1>1, <1>2
<1>4. ASSUME NEW q \in Ended PROVE q \in Ended'
  <2>1. PICK c \in Connections :
               \E m \in DOMAIN wire[c] : wire[c][m] = <<q, Units>>
    BY DEF Ended, Ends
  <2>2. PICK m \in DOMAIN wire[c] : wire[c][m] = <<q, Units>>
    BY <2>1
  <2>3. m \in DOMAIN wire'[c] /\ wire'[c][m] = <<q, Units>>
    BY <2>2, <1>1, <1>2
  <2> QED
    BY <2>3 DEF Ended, Ends
<1>5. n = Units => p \in Ended'
  BY <1>2 DEF Ended, Ends
<1>6. ASSUME NEW q \in Ended', q \notin Ended PROVE q = p /\ n = Units
  <2>1. PICK c \in Connections :
               \E m \in DOMAIN wire'[c] : wire'[c][m] = <<q, Units>>
    BY DEF Ended, Ends
  <2>2. PICK m \in DOMAIN wire'[c] : wire'[c][m] = <<q, Units>>
    BY <2>1
  <2>3. ~ (m \in DOMAIN wire[c] /\ wire[c][m] = <<q, Units>>)
    BY <1>6 DEF Ended, Ends
  <2>4. c = s /\ m = Len(wire[s]) + 1
    BY <1>1, <1>2, <2>2, <2>3
  <2> QED
    BY <1>2, <2>2, <2>4
<1> QED
  BY <1>3, <1>4, <1>5, <1>6

-----------------------------------------------------------------------------
(***************************************************************************)
(* One lemma per part of the invariant, one step per action.               *)
(***************************************************************************)

\* Every step keeps the types.
LEMMA TypeStep ==
  Inv /\ [Next]_vars => TypeOK'
<1> SUFFICES ASSUME Inv, [Next]_vars PROVE TypeOK'
  OBVIOUS
<1> USE Numbers, NetworkAssumption
    DEF Inv, Goto, At, shared, process, peer, send
<1>1. CASE OpenOther
  BY <1>1 DEF OpenOther, TypeOK, Threads, SendSteps, CloseSteps
<1>2. ASSUME NEW c \in Connections, PeerStalls(c) PROVE TypeOK'
  <2>1. c \in Connections
    OBVIOUS
  <2> QED
    BY <1>2, <2>1 DEF PeerStalls, TypeOK
<1>3. ASSUME NEW t \in Senders, NEW p \in Payloads, SendBegin(t, p)
      PROVE  TypeOK'
  BY <1>3 DEF SendBegin, Sending, Closing, TypeOK, Threads, SendSteps
<1>4. ASSUME NEW t \in Senders, CheckConnected(t) PROVE TypeOK'
  BY <1>4 DEF CheckConnected, TypeOK, Threads, SendSteps, CloseSteps
<1>5. ASSUME NEW t \in Senders, NoSocket(t) PROVE TypeOK'
  BY <1>5 DEF NoSocket, Drop, TypeOK, Threads, SendSteps, CloseSteps, CallOK
<1>6. ASSUME NEW t \in Senders, Socket(t) PROVE TypeOK'
  <2>1. made + 1 \in Connections /\ made + 1 \in 0 .. MaxConnections
    BY <1>6 DEF Socket, TypeOK, Connections
  <2> QED
    BY <1>6, <2>1 DEF Socket, TypeOK, Threads, SendSteps
<1>7. ASSUME NEW t \in Senders, ConnectOk(t) PROVE TypeOK'
  BY <1>7 DEF ConnectOk, TypeOK, Threads, SendSteps, CloseSteps
<1>8. ASSUME NEW t \in Senders, ConnectFails(t) PROVE TypeOK'
  BY <1>8 DEF ConnectFails, TypeOK, Threads, SendSteps, CloseSteps
<1>9. ASSUME NEW t \in Senders, SendPiece(t) PROVE TypeOK'
  <2>1. arg[t] \in Payloads /\ done[t] + 1 \in 1 .. Units
    BY <1>9 DEF SendPiece, CallOK, TypeOK
  <2>2. done' \in [Senders -> 0 .. Units]
    BY <1>9, <2>1 DEF SendPiece, Progress, TypeOK
  <2>3. /\ pc' \in [Threads -> {"idle"} \union SendSteps]
        /\ arg' \in [Senders -> Payloads \union {NoPayload}]
        /\ outcome' \in [Payloads -> {"new", "sending", "sent", "dropped"}]
    BY <1>9, <2>1 DEF SendPiece, Progress, TypeOK
  <2>4. wire' \in [Connections -> Seq(Payloads \X (1 .. Units))]
    BY <1>9, <2>1, OnePieceMore DEF SendPiece, Standing, TypeOK
  <2> QED
    BY <1>9, <2>2, <2>3, <2>4 DEF SendPiece, TypeOK
<1>10. ASSUME NEW t \in Senders, SendAstray(t) PROVE TypeOK'
  <2>1. arg[t] \in Payloads /\ done[t] + 1 \in 1 .. Units
    BY <1>10 DEF SendAstray, CallOK, TypeOK
  <2>2. done' \in [Senders -> 0 .. Units]
    BY <1>10, <2>1 DEF SendAstray, Progress, TypeOK
  <2>3. /\ pc' \in [Threads -> {"idle"} \union SendSteps]
        /\ arg' \in [Senders -> Payloads \union {NoPayload}]
        /\ outcome' \in [Payloads -> {"new", "sending", "sent", "dropped"}]
    BY <1>10, <2>1 DEF SendAstray, Progress, TypeOK
  <2> QED
    BY <1>10, <2>2, <2>3 DEF SendAstray, TypeOK
<1>11. ASSUME NEW t \in Senders, SendFails(t) PROVE TypeOK'
  BY <1>11 DEF SendFails, TypeOK, Threads, SendSteps, CloseSteps
<1>12. ASSUME NEW t \in Senders, SendSignals(t) PROVE TypeOK'
  BY <1>12 DEF SendSignals, TypeOK, Threads, SendSteps, CloseSteps
<1>13. ASSUME NEW t \in Threads, Tests(t) PROVE TypeOK'
  BY <1>13 DEF Tests, TypeOK, Threads, SendSteps, CloseSteps
<1>14. ASSUME NEW t \in Threads, Closes(t) PROVE TypeOK'
  BY <1>14 DEF Closes, Close, Standing, TypeOK, Threads, SendSteps, CloseSteps
<1>15. ASSUME NEW t \in Closers, ShutdownBegin(t) PROVE TypeOK'
  BY <1>15
     DEF ShutdownBegin, Sending, Closing, TypeOK, Threads, SendSteps,
         CloseSteps
<1>16. ASSUME NEW t \in Threads, Forgets(t) PROVE TypeOK'
  BY <1>16 DEF Forgets, TypeOK, Threads, SendSteps, CloseSteps
<1>17. ASSUME NEW t \in Senders, SendUnsets(t) \/ GivenUp(t) PROVE TypeOK'
  BY <1>17
     DEF SendUnsets, GivenUp, Drop, TypeOK, Threads, SendSteps, CloseSteps,
         CallOK
<1>19. ASSUME NEW t \in Closers, ShutdownUnsets(t) PROVE TypeOK'
  BY <1>19 DEF ShutdownUnsets, TypeOK, Threads, SendSteps, CloseSteps
<1>18. CASE UNCHANGED vars
  BY <1>18 DEF vars, TypeOK, peer
<1> QED
  BY NextSteps, <1>1, <1>2, <1>3, <1>4, <1>5, <1>6, <1>7, <1>8, <1>9, <1>10,
     <1>11, <1>12, <1>13, <1>14, <1>15, <1>16, <1>17, <1>18,
     <1>19

\* No step lets a second thread in.
LEMMA AloneStep ==
  Inv /\ [Next]_vars => AloneOK'
<1> SUFFICES ASSUME Inv, [Next]_vars PROVE AloneOK'
  OBVIOUS
<1> USE Numbers, NetworkAssumption
    DEF Inv, AloneOK, SendSteps, CloseSteps, Goto, At, shared, process,
        peer, send
<1>t. /\ pc \in [Threads -> {"idle"} \union SendSteps]
      /\ arg \in [Senders -> Payloads \union {NoPayload}]
      /\ done \in [Senders -> 0 .. Units]
      /\ outcome \in [Payloads -> {"new", "sending", "sent", "dropped"}]
      /\ connected \in BOOLEAN /\ fd \in Descriptors \union {NoFd}
      /\ hold \in [Threads -> Descriptors \union {NoFd}]
      /\ table \in [Descriptors -> Connections \union {Free, Other}]
      /\ stranger \in BOOLEAN /\ raced \in BOOLEAN
  BY DEF Inv, TypeOK
<1> USE <1>t
<1>1. CASE OpenOther
  BY <1>1 DEF OpenOther
<1>2. ASSUME NEW c \in Connections, PeerStalls(c) PROVE AloneOK'
  BY <1>2 DEF PeerStalls
<1>3. ASSUME NEW t \in Senders, NEW p \in Payloads, SendBegin(t, p)
      PROVE  AloneOK'
  BY <1>3 DEF SendBegin, Closing, Sending
<1>4. ASSUME NEW t \in Senders, CheckConnected(t) PROVE AloneOK'
  BY <1>4 DEF CheckConnected
<1>5. ASSUME NEW t \in Senders, NoSocket(t) PROVE AloneOK'
  BY <1>5 DEF NoSocket, Drop
<1>6. ASSUME NEW t \in Senders, Socket(t) PROVE AloneOK'
  BY <1>6 DEF Socket
<1>7. ASSUME NEW t \in Senders, ConnectOk(t) PROVE AloneOK'
  BY <1>7 DEF ConnectOk
<1>8. ASSUME NEW t \in Senders, ConnectFails(t) PROVE AloneOK'
  BY <1>8 DEF ConnectFails
<1>9. ASSUME NEW t \in Senders, SendPiece(t) PROVE AloneOK'
  <2>1. /\ pc' \in [Threads -> {"idle"} \union SendSteps]
        /\ \A u \in Threads : u # t => pc'[u] = pc[u]
        /\ pc[t] = "send" /\ pc'[t] \in {"idle", "send"}
    BY <1>9 DEF SendPiece, Progress, Threads
  <2> QED
    BY <2>1
<1>10. ASSUME NEW t \in Senders, SendAstray(t) PROVE AloneOK'
  <2>1. /\ pc' \in [Threads -> {"idle"} \union SendSteps]
        /\ \A u \in Threads : u # t => pc'[u] = pc[u]
        /\ pc[t] = "send" /\ pc'[t] \in {"idle", "send"}
    BY <1>10 DEF SendAstray, Progress, Threads
  <2> QED
    BY <2>1
<1>11. ASSUME NEW t \in Senders, SendFails(t) PROVE AloneOK'
  BY <1>11 DEF SendFails
<1>12. ASSUME NEW t \in Senders, SendSignals(t) PROVE AloneOK'
  BY <1>12 DEF SendSignals
<1>13. ASSUME NEW t \in Threads, Tests(t) PROVE AloneOK'
  BY <1>13 DEF Tests
<1>14. ASSUME NEW t \in Threads, Closes(t) PROVE AloneOK'
  BY <1>14 DEF Closes, Close, Standing
<1>15. ASSUME NEW t \in Closers, ShutdownBegin(t) PROVE AloneOK'
  BY <1>15 DEF ShutdownBegin, Sending, Closing
<1>16. ASSUME NEW t \in Threads, Forgets(t) PROVE AloneOK'
  BY <1>16 DEF Forgets
<1>17. ASSUME NEW t \in Senders, SendUnsets(t) \/ GivenUp(t) PROVE AloneOK'
  BY <1>17 DEF SendUnsets, GivenUp, Drop
<1>19. ASSUME NEW t \in Closers, ShutdownUnsets(t) PROVE AloneOK'
  BY <1>19 DEF ShutdownUnsets
<1>18. CASE UNCHANGED vars
  BY <1>18 DEF vars, peer
<1> QED
  BY NextSteps, <1>1, <1>2, <1>3, <1>4, <1>5, <1>6, <1>7, <1>8, <1>9, <1>10,
     <1>11, <1>12, <1>13, <1>14, <1>15, <1>16, <1>17, <1>18,
     <1>19

\* Every step leaves a send with a payload that it has not finished.
LEMMA CallStep ==
  Inv /\ [Next]_vars => CallOK'
<1> SUFFICES ASSUME Inv, [Next]_vars PROVE CallOK'
  OBVIOUS
<1> USE Numbers, NetworkAssumption
    DEF Inv, AloneOK, CallOK, Goto, At, shared, process, peer, send
<1>t. /\ pc \in [Threads -> {"idle"} \union SendSteps]
      /\ arg \in [Senders -> Payloads \union {NoPayload}]
      /\ done \in [Senders -> 0 .. Units]
      /\ outcome \in [Payloads -> {"new", "sending", "sent", "dropped"}]
      /\ connected \in BOOLEAN /\ fd \in Descriptors \union {NoFd}
      /\ hold \in [Threads -> Descriptors \union {NoFd}]
      /\ table \in [Descriptors -> Connections \union {Free, Other}]
      /\ stranger \in BOOLEAN /\ raced \in BOOLEAN
  BY DEF Inv, TypeOK
<1> USE <1>t
<1>1. CASE OpenOther
  BY <1>1 DEF OpenOther
<1>2. ASSUME NEW c \in Connections, PeerStalls(c) PROVE CallOK'
  BY <1>2 DEF PeerStalls
<1>3. ASSUME NEW t \in Senders, NEW p \in Payloads, SendBegin(t, p)
      PROVE  CallOK'
  BY <1>3 DEF SendBegin, Sending
<1>4. ASSUME NEW t \in Senders, CheckConnected(t) PROVE CallOK'
  BY <1>4 DEF CheckConnected
<1>5. ASSUME NEW t \in Senders, NoSocket(t) PROVE CallOK'
  BY <1>5 DEF NoSocket, Drop
<1>6. ASSUME NEW t \in Senders, Socket(t) PROVE CallOK'
  BY <1>6 DEF Socket
<1>7. ASSUME NEW t \in Senders, ConnectOk(t) PROVE CallOK'
  BY <1>7 DEF ConnectOk
<1>8. ASSUME NEW t \in Senders, ConnectFails(t) PROVE CallOK'
  BY <1>8 DEF ConnectFails
<1>9. ASSUME NEW t \in Senders, SendPiece(t) PROVE CallOK'
  <2>1. CASE done[t] + 1 = Units
    BY <1>9, <2>1 DEF SendPiece, Progress
  <2>2. CASE done[t] + 1 # Units
    <3>1. pc' = pc /\ arg' = arg /\ outcome' = outcome /\ pc[t] = "send"
      BY <1>9, <2>2 DEF SendPiece, Progress
    <3>2. done' = [done EXCEPT ![t] = @ + 1] /\ done[t] + 1 < Units
      BY <1>9, <2>2, <3>1 DEF SendPiece, Progress
    <3> QED
      BY <3>1, <3>2
  <2> QED
    BY <2>1, <2>2
<1>10. ASSUME NEW t \in Senders, SendAstray(t) PROVE CallOK'
  <2>1. CASE done[t] + 1 = Units
    BY <1>10, <2>1 DEF SendAstray, Progress
  <2>2. CASE done[t] + 1 # Units
    <3>1. pc' = pc /\ arg' = arg /\ outcome' = outcome /\ pc[t] = "send"
      BY <1>10, <2>2 DEF SendAstray, Progress
    <3>2. done' = [done EXCEPT ![t] = @ + 1] /\ done[t] + 1 < Units
      BY <1>10, <2>2, <3>1 DEF SendAstray, Progress
    <3> QED
      BY <3>1, <3>2
  <2> QED
    BY <2>1, <2>2
<1>11. ASSUME NEW t \in Senders, SendFails(t) PROVE CallOK'
  BY <1>11 DEF SendFails
<1>12. ASSUME NEW t \in Senders, SendSignals(t) PROVE CallOK'
  BY <1>12 DEF SendSignals
<1>13. ASSUME NEW t \in Threads, Tests(t) PROVE CallOK'
  BY <1>13 DEF Tests
<1>14. ASSUME NEW t \in Threads, Closes(t) PROVE CallOK'
  BY <1>14 DEF Closes, Close, Standing
<1>15. ASSUME NEW t \in Closers, ShutdownBegin(t) PROVE CallOK'
  BY <1>15 DEF ShutdownBegin, Sending, Closing
<1>16. ASSUME NEW t \in Threads, Forgets(t) PROVE CallOK'
  BY <1>16 DEF Forgets
<1>17. ASSUME NEW t \in Senders, SendUnsets(t) \/ GivenUp(t) PROVE CallOK'
  BY <1>17 DEF SendUnsets, GivenUp, Drop
<1>19. ASSUME NEW t \in Closers, ShutdownUnsets(t) PROVE CallOK'
  BY <1>19 DEF ShutdownUnsets
<1>18. CASE UNCHANGED vars
  BY <1>18 DEF vars, peer
<1> QED
  BY NextSteps, <1>1, <1>2, <1>3, <1>4, <1>5, <1>6, <1>7, <1>8, <1>9, <1>10,
     <1>11, <1>12, <1>13, <1>14, <1>15, <1>16, <1>17, <1>18,
     <1>19

\* As long as the two have not overlapped, no step opens a second socket or
\* forgets one that is open.
LEMMA OwnStep ==
  Inv /\ [Next]_vars => OwnOK'
<1> SUFFICES ASSUME Inv, [Next]_vars PROVE OwnOK'
  OBVIOUS
<1> USE Numbers, NetworkAssumption
    DEF Inv, AloneOK, OwnOK, Opening, Leaving, Forgetting, SendSteps,
        CloseSteps, Threads, Goto, At, shared, process, peer, send
<1>t. /\ pc \in [Threads -> {"idle"} \union SendSteps]
      /\ arg \in [Senders -> Payloads \union {NoPayload}]
      /\ done \in [Senders -> 0 .. Units]
      /\ outcome \in [Payloads -> {"new", "sending", "sent", "dropped"}]
      /\ connected \in BOOLEAN /\ fd \in Descriptors \union {NoFd}
      /\ hold \in [Threads -> Descriptors \union {NoFd}]
      /\ table \in [Descriptors -> Connections \union {Free, Other}]
      /\ stranger \in BOOLEAN /\ raced \in BOOLEAN
  BY DEF Inv, TypeOK
<1> USE <1>t
<1>1. CASE OpenOther
  <2>1. PICK d \in Descriptors :
          table[d] = Free /\ table' = [table EXCEPT ![d] = Other]
    BY <1>1 DEF OpenOther, LowestFree
  <2>2. \A e \in Descriptors :
          /\ table'[e] \in Connections <=> table[e] \in Connections
          /\ table[e] \in Connections => table'[e] = table[e]
    BY <2>1
  <2>3. UNCHANGED <<connected, fd, hold, pc, stranger, raced>>
    BY <1>1 DEF OpenOther
  <2> QED
    BY <2>2, <2>3
<1>2. ASSUME NEW c \in Connections, PeerStalls(c) PROVE OwnOK'
  BY <1>2 DEF PeerStalls
<1>3. ASSUME NEW t \in Senders, NEW p \in Payloads, SendBegin(t, p)
      PROVE  OwnOK'
  BY <1>3 DEF SendBegin, Closing, Sending
<1>4. ASSUME NEW t \in Senders, CheckConnected(t) PROVE OwnOK'
  BY <1>4 DEF CheckConnected
<1>5. ASSUME NEW t \in Senders, NoSocket(t) PROVE OwnOK'
  BY <1>5 DEF NoSocket, Drop
<1>6. ASSUME NEW t \in Senders, Socket(t) PROVE OwnOK'
  <2>1. PICK d \in Descriptors :
          table' = [table EXCEPT ![d] = made + 1] /\ fd' = d
    BY <1>6 DEF Socket
  <2>2. made + 1 \in Connections
    BY <1>6 DEF Socket, Inv, TypeOK, Connections
  <2>3. /\ pc[t] = "socket" /\ pc' = [pc EXCEPT ![t] = "connect"]
        /\ UNCHANGED <<connected, hold, stranger, raced>>
    BY <1>6 DEF Socket
  <2>4. ASSUME ~raced
        PROVE  /\ ~connected /\ \A e \in Descriptors : table[e] \notin Connections
               /\ \A u \in Threads : u # t => pc[u] = "idle"
    BY <2>3, <2>4
  <2>5. ASSUME ~raced
        PROVE  /\ \A e \in Descriptors : table'[e] \in Connections => e = d
               /\ table'[d] \in Connections
    <3>1. \A e \in Descriptors : table[e] \notin Connections
      BY <2>4, <2>5
    <3>2. table'[d] = made + 1 /\ \A e \in Descriptors : e # d => table'[e] = table[e]
      BY <2>1
    <3> QED
      BY <2>2, <3>1, <3>2
  <2> QED
    BY <2>1, <2>3, <2>4, <2>5
<1>7. ASSUME NEW t \in Senders, ConnectOk(t) PROVE OwnOK'
  BY <1>7 DEF ConnectOk
<1>8. ASSUME NEW t \in Senders, ConnectFails(t) PROVE OwnOK'
  BY <1>8 DEF ConnectFails
<1>9. ASSUME NEW t \in Senders, SendPiece(t) PROVE OwnOK'
  BY <1>9 DEF SendPiece, Progress
<1>10. ASSUME NEW t \in Senders, SendAstray(t) PROVE OwnOK'
  BY <1>10 DEF SendAstray, Progress, Standing
<1>11. ASSUME NEW t \in Senders, SendFails(t) PROVE OwnOK'
  BY <1>11 DEF SendFails
<1>12. ASSUME NEW t \in Senders, SendSignals(t) PROVE OwnOK'
  BY <1>12 DEF SendSignals
<1>13. ASSUME NEW t \in Threads, Tests(t) PROVE OwnOK'
  BY <1>13 DEF Tests
<1>14. ASSUME NEW t \in Threads, Closes(t) PROVE OwnOK'
  BY <1>14 DEF Closes, Close, Standing
<1>15. ASSUME NEW t \in Closers, ShutdownBegin(t) PROVE OwnOK'
  <2>1. /\ pc[t] = "idle" /\ \A u \in Closers : pc[u] = "idle"
        /\ raced' = (raced \/ \E u \in Senders : pc[u] # "idle")
        /\ pc' = [pc EXCEPT ![t] = "test"]
        /\ UNCHANGED <<connected, fd, hold, table, stranger>>
    BY <1>15 DEF ShutdownBegin, Sending, Closing
  <2>2. ASSUME ~raced'
        PROVE  ~raced /\ \A u \in Threads : pc[u] = "idle"
    BY <2>1, <2>2
  <2> QED
    BY <2>1, <2>2
<1>16. ASSUME NEW t \in Threads, Forgets(t) PROVE OwnOK'
  BY <1>16 DEF Forgets
<1>17. ASSUME NEW t \in Senders, SendUnsets(t) \/ GivenUp(t) PROVE OwnOK'
  BY <1>17 DEF SendUnsets, GivenUp, Drop
<1>19. ASSUME NEW t \in Closers, ShutdownUnsets(t) PROVE OwnOK'
  BY <1>19 DEF ShutdownUnsets
<1>18. CASE UNCHANGED vars
  BY <1>18 DEF vars, peer
<1> QED
  BY NextSteps, <1>1, <1>2, <1>3, <1>4, <1>5, <1>6, <1>7, <1>8, <1>9, <1>10,
     <1>11, <1>12, <1>13, <1>14, <1>15, <1>16, <1>17, <1>18,
     <1>19

\* The same, of the piece a thread in send_data() writes to socket_fd_.
LEMMA PieceEnds ==
  ASSUME NEW t \in Senders, table[fd] \in Connections, arg[t] \in Payloads,
         done[t] + 1 \in 1 .. Units,
         wire \in [Connections -> Seq(Payloads \X (1 .. Units))],
         wire' = [wire EXCEPT ![table[fd]] = Append(@, <<arg[t], done[t] + 1>>)]
  PROVE  Ended' = IF done[t] + 1 = Units THEN Ended \union {arg[t]} ELSE Ended
<1>1. PICK c \in Connections : c = table[fd]
  OBVIOUS
<1>2. PICK p \in Payloads, n \in 1 .. Units : p = arg[t] /\ n = done[t] + 1
  OBVIOUS
<1>3. wire' = [wire EXCEPT ![c] = Append(@, <<p, n>>)]
  BY <1>1, <1>2
<1>4. Ended' = IF n = Units THEN Ended \union {p} ELSE Ended
  BY <1>3, OnePieceMore
<1> QED
  BY <1>2, <1>4

\* Every step that puts a last piece on a wire counts its payload as sent, and the
\* other way round.
LEMMA WireStep ==
  Inv /\ [Next]_vars => WireOK'
<1> SUFFICES ASSUME Inv, [Next]_vars PROVE WireOK'
  OBVIOUS
<1> USE Numbers, NetworkAssumption
    DEF Inv, AloneOK, CallOK, WireOK, Goto, At, shared, process, peer, send
<1>t. /\ pc \in [Threads -> {"idle"} \union SendSteps]
      /\ arg \in [Senders -> Payloads \union {NoPayload}]
      /\ done \in [Senders -> 0 .. Units]
      /\ outcome \in [Payloads -> {"new", "sending", "sent", "dropped"}]
      /\ connected \in BOOLEAN /\ fd \in Descriptors \union {NoFd}
      /\ hold \in [Threads -> Descriptors \union {NoFd}]
      /\ table \in [Descriptors -> Connections \union {Free, Other}]
      /\ stranger \in BOOLEAN /\ raced \in BOOLEAN
  BY DEF Inv, TypeOK
<1> USE <1>t
<1>0. UNCHANGED wire => Ended' = Ended
  BY DEF Ended, Ends
<1>1. CASE OpenOther
  BY <1>0, <1>1 DEF OpenOther
<1>2. ASSUME NEW c \in Connections, PeerStalls(c) PROVE WireOK'
  BY <1>0, <1>2 DEF PeerStalls
<1>3. ASSUME NEW t \in Senders, NEW p \in Payloads, SendBegin(t, p)
      PROVE  WireOK'
  BY <1>0, <1>3 DEF SendBegin, Closing, Sending
<1>4. ASSUME NEW t \in Senders, CheckConnected(t) PROVE WireOK'
  BY <1>0, <1>4 DEF CheckConnected
<1>5. ASSUME NEW t \in Senders, NoSocket(t) PROVE WireOK'
  BY <1>0, <1>5 DEF NoSocket, Drop
<1>6. ASSUME NEW t \in Senders, Socket(t) PROVE WireOK'
  BY <1>0, <1>6 DEF Socket
<1>7. ASSUME NEW t \in Senders, ConnectOk(t) PROVE WireOK'
  BY <1>0, <1>7 DEF ConnectOk
<1>8. ASSUME NEW t \in Senders, ConnectFails(t) PROVE WireOK'
  BY <1>0, <1>8 DEF ConnectFails
<1>9. ASSUME NEW t \in Senders, SendPiece(t) PROVE WireOK'
  <2>1. /\ table[fd] \in Connections
        /\ arg[t] \in Payloads /\ done[t] + 1 \in 1 .. Units
        /\ outcome[arg[t]] = "sending" /\ raced' = raced
    BY <1>9 DEF SendPiece, Standing
  <2>2. wire \in [Connections -> Seq(Payloads \X (1 .. Units))]
    BY DEF Inv, TypeOK
  <2>3. wire' = [wire EXCEPT ![table[fd]] = Append(@, <<arg[t], done[t] + 1>>)]
    BY <1>9 DEF SendPiece
  <2>4. Ended' = IF done[t] + 1 = Units THEN Ended \union {arg[t]} ELSE Ended
    BY <2>1, <2>2, <2>3, PieceEnds
  <2>5. CASE done[t] + 1 = Units
    <3>1. outcome' = [outcome EXCEPT ![arg[t]] = "sent"]
      BY <1>9, <2>5 DEF SendPiece, Progress
    <3>2. Ended' = Ended \union {arg[t]}
      BY <2>4, <2>5
    <3> QED
      BY <2>1, <3>1, <3>2
  <2>6. CASE done[t] + 1 # Units
    <3>1. outcome' = outcome
      BY <1>9, <2>6 DEF SendPiece, Progress
    <3>2. Ended' = Ended
      BY <2>4, <2>6
    <3> QED
      BY <2>1, <3>1, <3>2
  <2> QED
    BY <2>5, <2>6
<1>10. ASSUME NEW t \in Senders, SendAstray(t) PROVE WireOK'
  <2>1. arg[t] \in Payloads /\ outcome[arg[t]] = "sending" /\ Ended' = Ended
    BY <1>0, <1>10 DEF SendAstray, CallOK
  <2>2. raced
    BY <1>10
       DEF SendAstray, Standing, OwnOK, Opening, Leaving, Forgetting,
           Threads, SendSteps, CloseSteps
  <2>3. outcome' = outcome \/ outcome' = [outcome EXCEPT ![arg[t]] = "sent"]
    BY <1>10 DEF SendAstray, Progress
  <2>4. raced'
    BY <1>10, <2>2 DEF SendAstray
  <2>5. \A p \in Ended : outcome'[p] = "sent"
    <3>1. SUFFICES ASSUME NEW p \in Ended PROVE outcome'[p] = "sent"
      OBVIOUS
    <3>2. p \in Payloads /\ outcome[p] = "sent"
      BY DEF Ended
    <3>3. outcome \in [Payloads -> {"new", "sending", "sent", "dropped"}]
      OBVIOUS
    <3> QED
      BY <2>1, <2>3, <3>2, <3>3
  <2> QED
    BY <2>1, <2>4, <2>5
<1>11. ASSUME NEW t \in Senders, SendFails(t) PROVE WireOK'
  BY <1>0, <1>11 DEF SendFails
<1>12. ASSUME NEW t \in Senders, SendSignals(t) PROVE WireOK'
  BY <1>0, <1>12 DEF SendSignals
<1>13. ASSUME NEW t \in Threads, Tests(t) PROVE WireOK'
  BY <1>0, <1>13 DEF Tests
<1>14. ASSUME NEW t \in Threads, Closes(t) PROVE WireOK'
  BY <1>0, <1>14 DEF Closes, Close, Standing
<1>15. ASSUME NEW t \in Closers, ShutdownBegin(t) PROVE WireOK'
  BY <1>0, <1>15 DEF ShutdownBegin, Sending, Closing
<1>16. ASSUME NEW t \in Threads, Forgets(t) PROVE WireOK'
  BY <1>0, <1>16 DEF Forgets
<1>17. ASSUME NEW t \in Senders, SendUnsets(t) \/ GivenUp(t) PROVE WireOK'
  <2>1. CASE SendUnsets(t)
    BY <1>0, <2>1 DEF SendUnsets, Drop
  <2>2. CASE GivenUp(t)
    BY <1>0, <2>2 DEF GivenUp, Drop
  <2> QED
    BY <1>17, <2>1, <2>2
<1>19. ASSUME NEW t \in Closers, ShutdownUnsets(t) PROVE WireOK'
  BY <1>0, <1>19 DEF ShutdownUnsets
<1>18. CASE UNCHANGED vars
  BY <1>0, <1>18 DEF vars, peer
<1> QED
  BY NextSteps, <1>1, <1>2, <1>3, <1>4, <1>5, <1>6, <1>7, <1>8, <1>9, <1>10,
     <1>11, <1>12, <1>13, <1>14, <1>15, <1>16, <1>17, <1>18,
     <1>19

-----------------------------------------------------------------------------
(***************************************************************************)
(* The theorems.                                                           *)
(***************************************************************************)
\* The invariant holds before the first call.
LEMMA InitInv ==
  Init => Inv
<1> SUFFICES ASSUME Init PROVE Inv
  OBVIOUS
<1> USE Numbers DEF Init
<1>1. TypeOK
  <2>1. wire \in [Connections -> Seq(Payloads \X (1 .. Units))]
    OBVIOUS
  <2>2. /\ table \in [Descriptors -> Connections \union {Free, Other}]
        /\ fd \in Descriptors \union {NoFd}
        /\ hold \in [Threads -> Descriptors \union {NoFd}]
    OBVIOUS
  <2>3. made \in 0 .. MaxConnections
    BY NetworkAssumption
  <2>4. /\ pc \in [Threads -> {"idle"} \union SendSteps]
        /\ arg \in [Senders -> Payloads \union {NoPayload}]
        /\ outcome \in [Payloads -> {"new", "sending", "sent", "dropped"}]
    OBVIOUS
  <2>5. done \in [Senders -> 0 .. Units]
    BY NetworkAssumption
  <2> QED
    BY <2>1, <2>2, <2>3, <2>4, <2>5 DEF TypeOK
<1>2. AloneOK /\ CallOK
  BY DEF AloneOK, CallOK, Threads
<1>3. OwnOK
  BY DEF OwnOK, Threads, Opening, Leaving, Forgetting
<1>4. WireOK
  BY DEF WireOK, Ended, Ends
<1> QED
  BY <1>1, <1>2, <1>3, <1>4 DEF Inv

\* The invariant holds whatever fails and whenever shutdown() is called.
THEOREM NetworkInvariant ==
  Spec => []Inv
<1>1. Init => Inv
  BY InitInv
<1>2. Inv /\ [Next]_vars => Inv'
  BY TypeStep, AloneStep, CallStep, OwnStep, WireStep DEF Inv
<1> QED
  BY <1>1, <1>2, PTL DEF Spec

\* Every variable keeps its type in every step of the network client.
THEOREM NetworkTypes ==
  Spec => []TypeOK
<1>1. Inv => TypeOK
  BY DEF Inv
<1> QED
  BY <1>1, NetworkInvariant, PTL

\* SentMeansWhole: a batch that send_data() counts has its last piece on a wire,
\* unless shutdown() came in between; one that it dropped has not, whatever
\* overlapped.
THEOREM SentIsOnTheWire ==
  Spec => []SentMeansWhole
<1>1. Inv => SentMeansWhole
  BY DEF Inv, WireOK, Ended, SentMeansWhole
<1> QED
  BY <1>1, NetworkInvariant, PTL

\* NoSocketLeaks: every way out of connect(), send_data() and shutdown() closes
\* what was opened, as long as they do not overlap.
THEOREM SocketsAreClosed ==
  Spec => []NoSocketLeaks
<1>1. Inv => NoSocketLeaks
  BY DEF Inv, OwnOK, NoSocketLeaks, Forgetting
<1> QED
  BY <1>1, NetworkInvariant, PTL

\* NoStrangerTouched: although descriptor numbers come back, the SDK writes to
\* and closes nothing but its own socket, as long as the two do not overlap.
THEOREM StrangersAreSafe ==
  Spec => []NoStrangerTouched
<1>1. Inv => NoStrangerTouched
  BY DEF Inv, OwnOK, NoStrangerTouched
<1> QED
  BY <1>1, NetworkInvariant, PTL

-----------------------------------------------------------------------------
(***************************************************************************)
(* What a reader finds on the wires: the rest of the invariant.            *)
(***************************************************************************)
\* What is in socket_fd_ is the newest connection or none.
NewestOK ==
  /\ \A d \in Descriptors : table[d] \in Connections => table[d] <= made
  /\ fd # NoFd /\ table[fd] \in Connections => table[fd] = made
  /\ \A c \in Connections : c > made => wire[c] = <<>>

\* The payloads of which some piece is on a wire.
Written ==
  {p \in Payloads :
     \E c \in Connections : \E n \in DOMAIN wire[c] : wire[c][n][1] = p}

\* Payloads come in their order, and none is on a wire before it is sent.
OrderOK ==
  /\ \A p, q \in Payloads : p < q /\ outcome[p] = "new" => outcome[q] = "new"
  /\ \A p \in Written : outcome[p] # "new"
  /\ \A t \in Senders :
       pc[t] # "idle" =>
         /\ \A p \in Payloads : outcome[p] # "new" => p <= arg[t]
         /\ done[t] = 0 => arg[t] \notin Written
         /\ pc[t] \in {"check", "socket", "connect"} => done[t] = 0

\* The pieces of q frames, the whole frames that were written, and the number of
\* pieces after the last of them.
Upto(q) == q * Units
Whole(w) == Len(w) \div Units
OverIn(w) == Len(w) - Upto(Whole(w))
Over(c) == OverIn(wire[c])

\* The last n pieces are the first n of p.
BegunIn(w, p, n) ==
  /\ n <= Len(w)
  /\ \A i \in 1 .. n : w[Len(w) - n + i] = <<p, i>>
Begun(c, p, n) == BegunIn(wire[c], p, n)

\* What comes after the whole frames of the newest connection is being sent, or
\* the connection is about to be closed.
FrameOK ==
  fd # NoFd /\ table[fd] \in Connections =>
    /\ Over(table[fd]) # 0 =>
         \E t \in Senders : pc[t] \in {"send", "test", "close"}
    /\ \A t \in Senders :
         pc[t] = "send" =>
           Over(table[fd]) = done[t] /\ Begun(table[fd], arg[t], done[t])

\* Nobody but the one who sends changes socket_fd_ to anything but -1, so what a
\* sender is about to close is what is in socket_fd_, if anything is.
HoldOK == \A t \in Senders : pc[t] = "close" => fd = hold[t] \/ fd = NoFd

-----------------------------------------------------------------------------
(***************************************************************************)
(* What a reader makes of a sequence of pieces.                            *)
(***************************************************************************)
\* A quotient is what a division by a size that is not zero leaves room for.
LEMMA Division ==
  ASSUME NEW m \in Nat, NEW u \in Nat \ {0}
  PROVE  /\ m \div u \in Nat /\ (m \div u) * u \in Nat
         /\ (m \div u) * u <= m /\ m < (m \div u) * u + u
OBVIOUS

\* Frames that end one after the other.
LEMMA Frames ==
  /\ Upto(0) = 0
  /\ \A q \in Nat : Upto(q) \in Nat /\ Upto(q + 1) = Upto(q) + Units
  /\ \A q, k \in Nat : q <= k => Upto(q) <= Upto(k)
<1> USE NetworkAssumption DEF Upto
<1>1. Upto(0) = 0
  OBVIOUS
<1>2. \A q \in Nat : Upto(q) \in Nat /\ Upto(q + 1) = Upto(q) + Units
  OBVIOUS
<1>3. \A q, k \in Nat : q <= k => Upto(q) <= Upto(k)
  OBVIOUS
<1> QED
  BY <1>1, <1>2, <1>3

Pieces == Payloads \X (1 .. Units)

\* What Carried and Rest make of a connection with these pieces.
FramesIn(w) ==
  [n \in 1 .. Whole(w) |-> Joined(SubSeq(w, Upto(n - 1) + 1, Upto(n)))]
RestIn(w) ==
  IF Len(w) = Upto(Whole(w)) THEN NoPayload
  ELSE Joined(SubSeq(w, Upto(Whole(w)) + 1, Len(w)))

\* What is left over is less than a frame.
LEMMA WholeEnd ==
  ASSUME NEW w \in Seq(Pieces)
  PROVE  /\ Whole(w) \in Nat /\ Upto(Whole(w)) \in Nat
         /\ Upto(Whole(w)) <= Len(w) /\ Len(w) < Upto(Whole(w)) + Units
<1>1. PICK m \in Nat : m = Len(w)
  OBVIOUS
<1>2. /\ m \div Units \in Nat /\ (m \div Units) * Units \in Nat
      /\ (m \div Units) * Units <= m /\ m < (m \div Units) * Units + Units
  BY <1>1, Division, NetworkAssumption
<1> QED
  BY <1>1, <1>2 DEF Whole, Upto

\* One more piece starts or goes on with a frame, or ends it.
LEMMA OneMorePiece ==
  ASSUME NEW w \in Seq(Pieces), NEW v \in Seq(Pieces), Len(v) = Len(w) + 1
  PROVE  /\ OverIn(w) + 1 < Units => Whole(v) = Whole(w)
         /\ OverIn(w) + 1 = Units => Whole(v) = Whole(w) + 1
<1>0. Units \in Nat /\ Units > 0
  BY NetworkAssumption
<1>1. PICK m \in Nat, q \in Nat, a \in Nat :
             /\ m = Len(w) /\ q = Whole(w) /\ a = Upto(q)
             /\ a <= m /\ m < a + Units /\ OverIn(w) = m - a
  BY WholeEnd DEF OverIn
<1>2. PICK k \in Nat, b \in Nat :
             /\ k = Whole(v) /\ b = Upto(k)
             /\ b <= m + 1 /\ m + 1 < b + Units
  BY <1>1, WholeEnd
<1>a. a <= m /\ m < a + Units /\ b <= m + 1 /\ m + 1 < b + Units
  BY <1>1, <1>2
<1>3. ASSUME NEW i \in Nat, NEW j \in Nat, i < j
      PROVE  Upto(i) + Units <= Upto(j)
  <2>1. Upto(i + 1) = Upto(i) + Units /\ i + 1 \in Nat /\ i + 1 <= j
    BY <1>3, Frames
  <2> QED
    BY <2>1, Frames
<1>4. CASE m - a + 1 < Units
  <2>1. ~ (k < q)
    <3>1. SUFFICES ASSUME k < q PROVE FALSE
      OBVIOUS
    <3>2. b + Units <= a
      BY <1>1, <1>2, <1>3, <3>1
    <3> QED
      BY <1>0, <1>a, <1>4, <3>2
  <2>2. ~ (q < k)
    <3>1. SUFFICES ASSUME q < k PROVE FALSE
      OBVIOUS
    <3>2. a + Units <= b
      BY <1>1, <1>2, <1>3, <3>1
    <3> QED
      BY <1>0, <1>a, <1>4, <3>2
  <2>3. k = q
    BY <2>1, <2>2
  <2> QED
    BY <1>1, <1>2, <1>4, <2>3
<1>5. CASE m - a + 1 = Units
  <2>1. Upto(q + 1) = m + 1 /\ q + 1 \in Nat
    <3>1. Upto(q + 1) = a + Units
      BY <1>1, Frames
    <3>2. a + Units = m + 1
      BY <1>0, <1>5
    <3> QED
      BY <3>1, <3>2
  <2>2. ~ (k < q + 1)
    <3>1. SUFFICES ASSUME k < q + 1 PROVE FALSE
      OBVIOUS
    <3>2. b + Units <= m + 1
      BY <1>2, <1>3, <2>1, <3>1
    <3> QED
      BY <1>0, <1>a, <3>2
  <2>3. ~ (q + 1 < k)
    <3>1. SUFFICES ASSUME q + 1 < k PROVE FALSE
      OBVIOUS
    <3>2. m + 1 + Units <= b
      BY <1>2, <1>3, <2>1, <3>1
    <3> QED
      BY <1>0, <1>a, <3>2
  <2>4. k = q + 1
    BY <2>1, <2>2, <2>3
  <2> QED
    BY <1>1, <1>2, <1>5, <2>4
<1> QED
  BY <1>1, <1>4, <1>5

\* Sequences are the same if they have the same elements.
LEMMA SameSequence ==
  ASSUME NEW S, NEW r \in Seq(S), NEW s \in Seq(S), Len(r) = Len(s),
         \A i \in 1 .. Len(s) : r[i] = s[i]
  PROVE  r = s
<1>1. /\ r = [i \in 1 .. Len(s) |-> r[i]]
      /\ s = [i \in 1 .. Len(s) |-> s[i]]
  OBVIOUS
<1> QED
  BY <1>1

\* What is cut out of a sequence is in its place there.
LEMMA Cut ==
  ASSUME NEW w \in Seq(Pieces), NEW a \in Nat \ {0}, NEW b \in Nat,
         a <= b, b <= Len(w)
  PROVE  /\ SubSeq(w, a, b) \in Seq(Pieces)
         /\ Len(SubSeq(w, a, b)) = b - a + 1
         /\ \A i \in 1 .. b - a + 1 : SubSeq(w, a, b)[i] = w[a - 1 + i]
OBVIOUS

\* The first pieces of a payload, in order, join to it.
LEMMA JoinedWhole ==
  ASSUME NEW s \in Seq(Pieces), NEW p \in Payloads, Len(s) > 0,
         \A i \in 1 .. Len(s) : s[i] = <<p, i>>
  PROVE  Joined(s) = p
<1>1. DOMAIN s = 1 .. Len(s) /\ 1 \in DOMAIN s
  OBVIOUS
<1>2. s[1][1] = p
  BY <1>1
<1>3. s = [n \in DOMAIN s |-> s[n]]
  OBVIOUS
<1>4. s = [n \in DOMAIN s |-> <<p, n>>]
  BY <1>1, <1>3
<1> QED
  BY <1>2, <1>4 DEF Joined

\* Whatever is joined, what comes out is garbled or the payload of the first.
LEMMA JoinedAny ==
  ASSUME NEW w \in Seq(Pieces), NEW a \in Nat \ {0}, NEW b \in Nat,
         a <= b, b <= Len(w)
  PROVE  \/ Joined(SubSeq(w, a, b)) = Garbled
         \/ a \in DOMAIN w /\ Joined(SubSeq(w, a, b)) = w[a][1]
<1>1. 1 \in 1 .. b - a + 1 /\ a - 1 + 1 = a /\ a \in DOMAIN w
  OBVIOUS
<1>2. SubSeq(w, a, b)[1] = w[a]
  BY <1>1, Cut
<1> QED
  BY <1>1, <1>2 DEF Joined

\* The pieces of a whole frame are among those written.
LEMMA FrameEnds ==
  ASSUME NEW w \in Seq(Pieces), NEW n \in 1 .. Whole(w)
  PROVE  /\ Upto(n - 1) + 1 \in Nat \ {0} /\ Upto(n) \in Nat
         /\ Upto(n - 1) + 1 <= Upto(n) /\ Upto(n) <= Len(w)
<1>1. PICK q \in Nat : q = Whole(w) /\ Upto(q) <= Len(w) /\ Upto(q) \in Nat
  BY WholeEnd
<1>2. PICK k \in Nat : k = n - 1 /\ k + 1 = n /\ n <= q /\ n \in Nat
  BY <1>1
<1>3. Upto(k) \in Nat /\ Upto(n) = Upto(k) + Units /\ Upto(n) <= Upto(q)
  BY <1>1, <1>2, Frames
<1> QED
  BY <1>1, <1>2, <1>3, NetworkAssumption

\* There is nothing on a new connection.
LEMMA NothingRead ==
  /\ OverIn(<<>>) = 0 /\ FramesIn(<<>>) = <<>> /\ RestIn(<<>>) = NoPayload
<1>1. Whole(<<>>) = 0
  <2>1. PICK q \in Nat : q = Whole(<<>>) /\ Upto(q) <= 0 /\ Upto(q) \in Nat
    <3>1. <<>> \in Seq(Pieces) /\ Len(<<>>) = 0
      OBVIOUS
    <3> QED
      BY <3>1, WholeEnd
  <2>2. CASE q # 0
    <3>1. q - 1 \in Nat /\ q - 1 + 1 = q
      BY <2>2
    <3>2. Upto(q) = Upto(q - 1) + Units /\ Upto(q - 1) \in Nat
      BY <3>1, Frames
    <3> QED
      BY <2>1, <3>2, NetworkAssumption
  <2> QED
    BY <2>1, <2>2
<1>2. Upto(0) = 0 /\ Len(<<>>) = 0
  BY Frames
<1> QED
  BY <1>1, <1>2 DEF OverIn, FramesIn, RestIn

\* A reader finds nothing on a wire that was not written to it.
LEMMA ReadWritten ==
  ASSUME NEW w \in Seq(Pieces)
  PROVE  /\ \A n \in DOMAIN FramesIn(w) :
              \/ FramesIn(w)[n] = Garbled
              \/ \E i \in DOMAIN w : FramesIn(w)[n] = w[i][1]
         /\ \/ RestIn(w) \in {NoPayload, Garbled}
            \/ \E i \in DOMAIN w : RestIn(w) = w[i][1]
<1>1. ASSUME NEW n \in 1 .. Whole(w)
      PROVE  \/ FramesIn(w)[n] = Garbled
             \/ \E i \in DOMAIN w : FramesIn(w)[n] = w[i][1]
  <2>1. FramesIn(w)[n] = Joined(SubSeq(w, Upto(n - 1) + 1, Upto(n)))
    BY DEF FramesIn
  <2>2. PICK a \in Nat \ {0}, b \in Nat :
               a = Upto(n - 1) + 1 /\ b = Upto(n) /\ a <= b /\ b <= Len(w)
    BY FrameEnds
  <2>3. FramesIn(w)[n] = Joined(SubSeq(w, a, b))
    BY <2>1, <2>2
  <2> QED
    BY <2>2, <2>3, JoinedAny
<1>2. PICK a \in Nat : a = Upto(Whole(w)) /\ a <= Len(w)
  BY WholeEnd
<1>3. ASSUME Len(w) = a PROVE RestIn(w) = NoPayload
  BY <1>2, <1>3 DEF RestIn
<1>4. ASSUME Len(w) # a
      PROVE  RestIn(w) = Garbled \/ \E i \in DOMAIN w : RestIn(w) = w[i][1]
  <2>1. PICK b \in Nat, c \in Nat \ {0} : b = Len(w) /\ c = a + 1 /\ c <= b
    BY <1>2, <1>4
  <2>2. RestIn(w) = Joined(SubSeq(w, c, b))
    BY <1>2, <1>4, <2>1 DEF RestIn
  <2>3. b <= Len(w)
    BY <2>1
  <2>4. \/ Joined(SubSeq(w, c, b)) = Garbled
        \/ c \in DOMAIN w /\ Joined(SubSeq(w, c, b)) = w[c][1]
    BY <2>1, <2>3, JoinedAny
  <2> QED
    BY <2>2, <2>4
<1>5. DOMAIN FramesIn(w) = 1 .. Whole(w)
  BY DEF FramesIn
<1> QED
  BY <1>1, <1>3, <1>4, <1>5

\* The reader is in the middle of the payload whose first pieces came last.
LEMMA ReadBegun ==
  ASSUME NEW w \in Seq(Pieces), NEW p \in Payloads, NEW n \in Nat,
         OverIn(w) = n, BegunIn(w, p, n)
  PROVE  RestIn(w) = IF n = 0 THEN NoPayload ELSE p
<1>1. PICK a \in Nat : a = Upto(Whole(w)) /\ a <= Len(w)
  BY WholeEnd
<1>2. PICK m \in Nat : m = Len(w) /\ n = m - a
  BY <1>1 DEF OverIn
<1>3. CASE n = 0
  BY <1>1, <1>2, <1>3 DEF RestIn
<1>4. CASE n # 0
  <2>1. PICK c \in Nat \ {0} : c = a + 1 /\ c <= m /\ m - c + 1 = n
    BY <1>1, <1>2, <1>4
  <2>2. RestIn(w) = Joined(SubSeq(w, c, m))
    BY <1>1, <1>2, <1>4, <2>1 DEF RestIn
  <2>3. PICK s \in Seq(Pieces) :
          /\ s = SubSeq(w, c, m) /\ Len(s) = n
          /\ \A i \in 1 .. n : s[i] = w[c - 1 + i]
    <3>1. c <= m /\ m <= Len(w)
      BY <2>1, <1>2
    <3>2. /\ SubSeq(w, c, m) \in Seq(Pieces)
          /\ Len(SubSeq(w, c, m)) = m - c + 1
          /\ \A i \in 1 .. m - c + 1 : SubSeq(w, c, m)[i] = w[c - 1 + i]
      BY <3>1, Cut
    <3> QED
      BY <2>1, <3>2
  <2>4. \A i \in 1 .. n : c - 1 + i = m - n + i
    BY <2>1, <1>2
  <2>5. \A i \in 1 .. n : w[m - n + i] = <<p, i>>
    BY <1>2 DEF BegunIn
  <2>6. \A i \in 1 .. Len(s) : s[i] = <<p, i>>
    BY <2>3, <2>4, <2>5
  <2>7. Joined(s) = p
    <3>1. Len(s) > 0
      BY <1>4, <2>3
    <3> QED
      BY <2>6, <3>1, JoinedWhole
  <2> QED
    BY <1>4, <2>2, <2>3, <2>7
<1> QED
  BY <1>3, <1>4

\* v has one piece more than w.
Grown(w, piece, v) ==
  /\ Len(v) = Len(w) + 1
  /\ v[Len(w) + 1] = piece
  /\ \A i \in 1 .. Len(w) : v[i] = w[i]

\* Append() is such a step.
LEMMA AppendGrows ==
  ASSUME NEW w \in Seq(Pieces), NEW piece \in Pieces
  PROVE  /\ Append(w, piece) \in Seq(Pieces)
         /\ Grown(w, piece, Append(w, piece))
BY DEF Grown

\* The next piece of p, after its first n.
LEMMA ReadNext ==
  ASSUME NEW w \in Seq(Pieces), NEW p \in Payloads, NEW n \in Nat,
         n < Units, OverIn(w) = n, BegunIn(w, p, n),
         NEW v \in Seq(Pieces), Grown(w, <<p, n + 1>>, v)
  PROVE  /\ BegunIn(v, p, n + 1)
         /\ n + 1 < Units => OverIn(v) = n + 1 /\ FramesIn(v) = FramesIn(w)
         /\ n + 1 = Units => /\ OverIn(v) = 0
                             /\ FramesIn(v) = Append(FramesIn(w), p)
<1>0. PICK m \in Nat, unit \in Nat \ {0} : m = Len(w) /\ unit = Units
  BY NetworkAssumption
<1>1. /\ Len(v) = m + 1 /\ v[m + 1] = <<p, n + 1>>
      /\ \A i \in 1 .. m : v[i] = w[i]
  BY <1>0 DEF Grown
<1>2. BegunIn(v, p, n + 1)
  <2>1. n <= m /\ \A i \in 1 .. n : w[m - n + i] = <<p, i>>
    BY <1>0 DEF BegunIn
  <2>2. ASSUME NEW i \in 1 .. n + 1
        PROVE  v[(m + 1) - (n + 1) + i] = <<p, i>>
    <3>1. (m + 1) - (n + 1) + i = m - n + i
      OBVIOUS
    <3>2. CASE i = n + 1
      <4>1. (m + 1) - (n + 1) + i = m + 1
        BY <3>2
      <4> QED
        BY <1>1, <3>2, <4>1
    <3>3. CASE i \in 1 .. n
      <4>1. m - n + i \in 1 .. m
        BY <2>1, <3>3
      <4> QED
        BY <1>1, <2>1, <3>1, <3>3, <4>1
    <3>4. i = n + 1 \/ i \in 1 .. n
      OBVIOUS
    <3> QED
      BY <3>2, <3>3, <3>4
  <2>3. n + 1 <= m + 1
    BY <2>1
  <2> QED
    BY <1>1, <2>2, <2>3 DEF BegunIn
<1>3. PICK q \in Nat, e \in Nat :
             q = Whole(w) /\ e = Upto(q) /\ n = m - e /\ e <= m
  BY <1>0, WholeEnd DEF OverIn
<1>4. /\ n + 1 < Units => Whole(v) = q
      /\ n + 1 = Units => Whole(v) = q + 1
  BY <1>0, <1>1, <1>3, OneMorePiece
<1>5. Upto(q + 1) = e + unit
  BY <1>0, <1>3, Frames
<1>6. ASSUME NEW k \in 1 .. q
      PROVE  SubSeq(v, Upto(k - 1) + 1, Upto(k))
               = SubSeq(w, Upto(k - 1) + 1, Upto(k))
  <2>1. PICK a \in Nat \ {0}, b \in Nat :
               a = Upto(k - 1) + 1 /\ b = Upto(k) /\ a <= b /\ b <= m
    BY <1>0, <1>3, FrameEnds
  <2>2. /\ SubSeq(w, a, b) \in Seq(Pieces)
        /\ Len(SubSeq(w, a, b)) = b - a + 1
        /\ \A i \in 1 .. b - a + 1 : SubSeq(w, a, b)[i] = w[a - 1 + i]
    <3>1. a <= b /\ b <= Len(w)
      BY <1>0, <2>1
    <3> QED
      BY <3>1, Cut
  <2>3. /\ SubSeq(v, a, b) \in Seq(Pieces)
        /\ Len(SubSeq(v, a, b)) = b - a + 1
        /\ \A i \in 1 .. b - a + 1 : SubSeq(v, a, b)[i] = v[a - 1 + i]
    <3>1. a <= b /\ b <= Len(v)
      BY <1>1, <2>1
    <3> QED
      BY <3>1, Cut
  <2>4. ASSUME NEW i \in 1 .. b - a + 1 PROVE v[a - 1 + i] = w[a - 1 + i]
    <3>0. a <= b /\ b <= m
      BY <2>1
    <3>1. a - 1 + i \in 1 .. m
      BY <3>0
    <3> QED
      BY <1>1, <3>1
  <2>5. SubSeq(v, a, b) = SubSeq(w, a, b)
    <3>1. /\ Len(SubSeq(v, a, b)) = Len(SubSeq(w, a, b))
          /\ \A i \in 1 .. Len(SubSeq(w, a, b)) :
               SubSeq(v, a, b)[i] = SubSeq(w, a, b)[i]
      BY <2>2, <2>3, <2>4
    <3> QED
      BY <2>2, <2>3, <3>1, SameSequence
  <2> QED
    BY <2>1, <2>5
<1>7. ASSUME n + 1 < Units
      PROVE  OverIn(v) = n + 1 /\ FramesIn(v) = FramesIn(w)
  <2>1. OverIn(v) = (m + 1) - e
    BY <1>1, <1>3, <1>4, <1>7 DEF OverIn
  <2>2. FramesIn(v) = FramesIn(w)
    BY <1>0, <1>1, <1>3, <1>4, <1>6, <1>7 DEF FramesIn
  <2> QED
    BY <1>3, <2>1, <2>2
<1>8. ASSUME n + 1 = Units
      PROVE  OverIn(v) = 0 /\ FramesIn(v) = Append(FramesIn(w), p)
  <2>0. n + 1 = unit
    BY <1>0, <1>8
  <2>1. OverIn(v) = 0
    <3>1. Whole(v) = q + 1
      BY <1>4, <1>8
    <3>2. OverIn(v) = (m + 1) - (e + unit)
      BY <1>1, <1>5, <3>1 DEF OverIn
    <3> QED
      BY <1>3, <2>0, <3>2
  <2>2. Joined(SubSeq(v, Upto(q) + 1, Upto(q + 1))) = p
    <3>1. PICK a \in Nat \ {0}, b \in Nat :
                 /\ a = Upto(q) + 1 /\ b = Upto(q + 1)
                 /\ b = m + 1 /\ b - a + 1 = unit /\ a - 1 = m - n
      <4>1. Upto(q) = m - n /\ Upto(q + 1) = m + 1 /\ n <= m /\ unit = n + 1
        <5>1. Upto(q) = e /\ e = m - n /\ n <= m
          BY <1>3
        <5>2. e + unit = m + 1
          BY <2>0, <5>1
        <5> QED
          BY <1>5, <2>0, <5>1, <5>2
      <4>2. m - n + 1 \in Nat \ {0} /\ m + 1 \in Nat
        BY <4>1
      <4> QED
        BY <4>1, <4>2
    <3>2. PICK s \in Seq(Pieces) :
            /\ s = SubSeq(v, a, b) /\ Len(s) = unit
            /\ \A i \in 1 .. unit : s[i] = v[a - 1 + i]
      <4>1. a <= b /\ b <= Len(v)
        <5>1. a <= b
          BY <3>1
        <5>2. b = Len(v)
          BY <1>1, <3>1
        <5> QED
          BY <5>1, <5>2
      <4>2. /\ SubSeq(v, a, b) \in Seq(Pieces)
            /\ Len(SubSeq(v, a, b)) = b - a + 1
            /\ \A i \in 1 .. b - a + 1 : SubSeq(v, a, b)[i] = v[a - 1 + i]
        BY <4>1, Cut
      <4> QED
        BY <3>1, <4>2
    <3>3. \A i \in 1 .. unit : v[a - 1 + i] = <<p, i>>
      <4>1. \A i \in 1 .. n + 1 : v[Len(v) - (n + 1) + i] = <<p, i>>
        BY <1>2 DEF BegunIn
      <4>2. \A i \in 1 .. unit : Len(v) - (n + 1) + i = a - 1 + i
        BY <1>1, <3>1
      <4>3. unit = n + 1
        BY <1>0, <1>8
      <4> QED
        BY <4>1, <4>2, <4>3
    <3>4. Joined(s) = p
      <4>1. Len(s) > 0 /\ \A i \in 1 .. Len(s) : s[i] = <<p, i>>
        BY <3>2, <3>3
      <4> QED
        BY <4>1, JoinedWhole
    <3> QED
      BY <3>1, <3>2, <3>4
  <2>3. /\ FramesIn(w) = [k \in 1 .. q |->
                            Joined(SubSeq(w, Upto(k - 1) + 1, Upto(k)))]
        /\ FramesIn(v) = [k \in 1 .. q + 1 |->
                            Joined(SubSeq(v, Upto(k - 1) + 1, Upto(k)))]
    BY <1>0, <1>1, <1>3, <1>4, <1>8 DEF FramesIn
  <2>4. Len(FramesIn(w)) = q
    BY <2>3
  <2>5. DOMAIN FramesIn(v) = 1 .. q + 1
    BY <2>3
  <2>6. ASSUME NEW k \in 1 .. q
        PROVE  FramesIn(v)[k] = FramesIn(w)[k]
    <3>1. k \in 1 .. q + 1
      OBVIOUS
    <3>2. /\ FramesIn(v)[k] = Joined(SubSeq(v, Upto(k - 1) + 1, Upto(k)))
          /\ FramesIn(w)[k] = Joined(SubSeq(w, Upto(k - 1) + 1, Upto(k)))
      BY <2>3, <3>1
    <3> QED
      BY <1>6, <3>2
  <2>7. FramesIn(v)[q + 1] = p
    <3>1. (q + 1) - 1 = q /\ q + 1 \in 1 .. q + 1
      OBVIOUS
    <3> QED
      BY <2>2, <2>3, <3>1
  <2>8. FramesIn(v) = Append(FramesIn(w), p)
    <3> DEFINE S == {FramesIn(v)[k] : k \in 1 .. q + 1}
    <3>1. \A k \in 1 .. q + 1 : FramesIn(v)[k] \in S
      OBVIOUS
    <3> HIDE DEF S
    <3>2. p \in S /\ \A k \in 1 .. q : FramesIn(w)[k] \in S
      BY <2>6, <2>7, <3>1
    <3>3. FramesIn(w) \in Seq(S)
      <4>1. FramesIn(w) \in [1 .. q -> S]
        BY <2>3, <3>2
      <4> QED
        BY <4>1
    <3>4. FramesIn(v) \in Seq(S) /\ Len(FramesIn(v)) = q + 1
      <4>1. FramesIn(v) \in [1 .. q + 1 -> S] /\ q + 1 \in Nat
        BY <2>3, <3>1
      <4> QED
        BY <4>1
    <3>5. PICK r \in Seq(S) : r = Append(FramesIn(w), p)
      <4>1. \A f \in Seq(S), x \in S : Append(f, x) \in Seq(S)
        OBVIOUS
      <4>2. Append(FramesIn(w), p) \in Seq(S)
        BY <3>2, <3>3, <4>1
      <4> QED
        BY <4>2
    <3>6. /\ Len(r) = q + 1 /\ r[q + 1] = p
          /\ \A k \in 1 .. q : r[k] = FramesIn(w)[k]
      BY <2>4, <3>2, <3>3, <3>5
    <3>7. \A k \in 1 .. q + 1 : k \in 1 .. q \/ k = q + 1
      OBVIOUS
    <3>8. \A k \in 1 .. Len(r) : FramesIn(v)[k] = r[k]
      BY <2>6, <2>7, <3>6, <3>7
    <3> QED
      BY <3>4, <3>5, <3>6, <3>8, SameSequence
  <2> QED
    BY <1>3, <1>8, <2>1, <2>8
<1> QED
  BY <1>1, <1>2, <1>7, <1>8

\* Carried and Rest read nothing but the wire.
LEMMA Views ==
  /\ \A c : Carried(c) = FramesIn(wire[c]) /\ Rest(c) = RestIn(wire[c])
  /\ \A c : Carried(c)' = FramesIn(wire'[c]) /\ Rest(c)' = RestIn(wire'[c])
BY DEF Carried, Rest, FramesIn, RestIn, Whole, Upto

\* A piece at the end of a wire brings its own payload and no other.
LEMMA PieceWritten ==
  ASSUME NEW s \in Connections, NEW p \in Payloads, NEW n \in 1 .. Units,
         wire \in [Connections -> Seq(Payloads \X (1 .. Units))],
         wire' = [wire EXCEPT ![s] = Append(@, <<p, n>>)]
  PROVE  Written' \subseteq Written \union {p}
<1> SUFFICES ASSUME NEW q \in Written' PROVE q \in Written \/ q = p
  OBVIOUS
<1>1. PICK c \in Connections : \E m \in DOMAIN wire'[c] : wire'[c][m][1] = q
  BY DEF Written
<1>2. PICK m \in DOMAIN wire'[c] : wire'[c][m][1] = q
  BY <1>1
<1>3. /\ wire[s] \in Seq(Payloads \X (1 .. Units))
      /\ wire'[s] = Append(wire[s], <<p, n>>)
      /\ c # s => wire'[c] = wire[c]
  OBVIOUS
<1>4. CASE c = s /\ m = Len(wire[s]) + 1
  BY <1>2, <1>3, <1>4
<1>5. CASE ~ (c = s /\ m = Len(wire[s]) + 1)
  <2>1. m \in DOMAIN wire[c] /\ wire'[c][m] = wire[c][m]
    BY <1>2, <1>3, <1>5
  <2> QED
    BY <1>2, <2>1 DEF Written
<1> QED
  BY <1>4, <1>5

\* Only socket() makes a connection the newest, and nothing is on it yet.
LEMMA NewestStep ==
  Inv /\ NewestOK /\ [Next]_vars => NewestOK'
<1> SUFFICES ASSUME Inv /\ NewestOK, [Next]_vars PROVE NewestOK'
  OBVIOUS
<1> USE Numbers, NetworkAssumption
    DEF NewestOK, AloneOK, SendSteps, CloseSteps, Threads, Goto, At, shared,
        process, peer, send
<1>t. /\ pc \in [Threads -> {"idle"} \union SendSteps]
      /\ arg \in [Senders -> Payloads \union {NoPayload}]
      /\ done \in [Senders -> 0 .. Units]
      /\ outcome \in [Payloads -> {"new", "sending", "sent", "dropped"}]
      /\ fd \in Descriptors \union {NoFd}
      /\ hold \in [Threads -> Descriptors \union {NoFd}]
      /\ table \in [Descriptors -> Connections \union {Free, Other}]
      /\ made \in 0 .. MaxConnections
      /\ wire \in [Connections -> Seq(Payloads \X (1 .. Units))]
  BY DEF Inv, TypeOK
<1> USE <1>t
<1>1. CASE OpenOther
  BY <1>1 DEF OpenOther, LowestFree
<1>2. ASSUME NEW c \in Connections, PeerStalls(c) PROVE NewestOK'
  BY <1>2 DEF PeerStalls
<1>3. ASSUME NEW t \in Senders, NEW p \in Payloads, SendBegin(t, p)
      PROVE  NewestOK'
  BY <1>3 DEF SendBegin, Sending, Closing
<1>4. ASSUME NEW t \in Senders, CheckConnected(t) PROVE NewestOK'
  BY <1>4 DEF CheckConnected
<1>5. ASSUME NEW t \in Senders, NoSocket(t) PROVE NewestOK'
  BY <1>5 DEF NoSocket, Drop
<1>6. ASSUME NEW t \in Senders, Socket(t) PROVE NewestOK'
  <2>1. PICK d \in Descriptors :
          table' = [table EXCEPT ![d] = made + 1] /\ fd' = d
    BY <1>6 DEF Socket
  <2>2. /\ made + 1 \in Connections /\ made \in Nat /\ made' = made + 1
        /\ UNCHANGED wire
    BY <1>6 DEF Socket, Connections
  <2>3. \A c \in Connections : c \in Nat
    BY DEF Connections
  <2> QED
    BY <2>1, <2>2, <2>3
<1>7. ASSUME NEW t \in Senders, ConnectOk(t) PROVE NewestOK'
  BY <1>7 DEF ConnectOk
<1>8. ASSUME NEW t \in Senders, ConnectFails(t) PROVE NewestOK'
  BY <1>8 DEF ConnectFails
<1>9. ASSUME NEW t \in Senders, SendPiece(t) PROVE NewestOK'
  <2>1. /\ table[fd] \in Connections /\ pc[t] = "send"
        /\ wire' = [wire EXCEPT ![table[fd]] =
                      Append(@, <<arg[t], done[t] + 1>>)]
        /\ UNCHANGED <<table, fd, made>>
    BY <1>9 DEF SendPiece, Standing
  <2>2. /\ fd # NoFd /\ table[fd] = made
        /\ \A c \in Connections : c # made => wire'[c] = wire[c]
    BY <1>9, <2>1 DEF SendPiece, Standing
  <2>3. \A c \in Connections : c \in Nat
    BY DEF Connections
  <2> QED
    BY <2>1, <2>2, <2>3
<1>10. ASSUME NEW t \in Senders, SendAstray(t) PROVE NewestOK'
  BY <1>10 DEF SendAstray, Progress
<1>11. ASSUME NEW t \in Senders, SendFails(t) PROVE NewestOK'
  BY <1>11 DEF SendFails
<1>12. ASSUME NEW t \in Senders, SendSignals(t) PROVE NewestOK'
  BY <1>12 DEF SendSignals
<1>13. ASSUME NEW t \in Threads, Tests(t) PROVE NewestOK'
  BY <1>13 DEF Tests
<1>14. ASSUME NEW t \in Threads, Closes(t) PROVE NewestOK'
  BY <1>14 DEF Closes, Close, Standing
<1>15. ASSUME NEW t \in Closers, ShutdownBegin(t) PROVE NewestOK'
  BY <1>15 DEF ShutdownBegin, Sending, Closing
<1>16. ASSUME NEW t \in Threads, Forgets(t) PROVE NewestOK'
  BY <1>16 DEF Forgets
<1>17. ASSUME NEW t \in Senders, SendUnsets(t) \/ GivenUp(t) PROVE NewestOK'
  BY <1>17 DEF SendUnsets, GivenUp, Drop
<1>19. ASSUME NEW t \in Closers, ShutdownUnsets(t) PROVE NewestOK'
  BY <1>19 DEF ShutdownUnsets
<1>18. CASE UNCHANGED vars
  BY <1>18 DEF vars, peer
<1> QED
  BY NextSteps, <1>1, <1>2, <1>3, <1>4, <1>5, <1>6, <1>7, <1>8, <1>9, <1>10,
     <1>11, <1>12, <1>13, <1>14, <1>15, <1>16, <1>17, <1>18,
     <1>19

\* A new payload is the first that has not been sent, and only its pieces are
\* written from then on.
LEMMA OrderStep ==
  Inv /\ OrderOK /\ [Next]_vars => OrderOK'
<1> SUFFICES ASSUME Inv /\ OrderOK, [Next]_vars PROVE OrderOK'
  OBVIOUS
<1> USE Numbers, NetworkAssumption
    DEF OrderOK, CallOK, AloneOK, SendSteps, CloseSteps, Threads, Goto, At,
        shared, process, peer, send
<1>t. /\ pc \in [Threads -> {"idle"} \union SendSteps]
      /\ arg \in [Senders -> Payloads \union {NoPayload}]
      /\ done \in [Senders -> 0 .. Units]
      /\ outcome \in [Payloads -> {"new", "sending", "sent", "dropped"}]
      /\ fd \in Descriptors \union {NoFd}
      /\ hold \in [Threads -> Descriptors \union {NoFd}]
      /\ table \in [Descriptors -> Connections \union {Free, Other}]
  BY DEF Inv, TypeOK
<1> USE <1>t
<1>0. UNCHANGED wire => Written' = Written
  BY DEF Written
<1>a. \A p \in Payloads : p \in Nat
  BY DEF Payloads
<1> USE <1>a DEF Inv
<1>1. CASE OpenOther
  BY <1>0, <1>1 DEF OpenOther, LowestFree
<1>2. ASSUME NEW c \in Connections, PeerStalls(c) PROVE OrderOK'
  BY <1>0, <1>2 DEF PeerStalls
<1>3. ASSUME NEW t \in Senders, NEW p \in Payloads, SendBegin(t, p)
      PROVE  OrderOK'
  <2>1. /\ \A v \in Senders : pc[v] = "idle"
        /\ outcome[p] = "new" /\ outcome' = [outcome EXCEPT ![p] = "sending"]
        /\ \A q \in Payloads : q < p => outcome[q] # "new"
        /\ arg' = [arg EXCEPT ![t] = p] /\ done' = [done EXCEPT ![t] = 0]
        /\ pc' = [pc EXCEPT ![t] = "check"]
        /\ Written' = Written
    BY <1>0, <1>3 DEF SendBegin, Sending, Payloads
  <2>2. \A q, r \in Payloads :
          q < r /\ outcome'[q] = "new" => outcome'[r] = "new"
    BY <2>1
  <2>3. \A q \in Written : outcome'[q] # "new" /\ q # p
    BY <2>1 DEF Written
  <2>4. \A q \in Payloads : outcome'[q] # "new" => q <= p
    BY <2>1
  <2> QED
    BY <2>1, <2>2, <2>3, <2>4
<1>4. ASSUME NEW t \in Senders, CheckConnected(t) PROVE OrderOK'
  BY <1>0, <1>4 DEF CheckConnected
<1>5. ASSUME NEW t \in Senders, NoSocket(t) PROVE OrderOK'
  BY <1>0, <1>5 DEF NoSocket, Drop
<1>6. ASSUME NEW t \in Senders, Socket(t) PROVE OrderOK'
  BY <1>0, <1>6 DEF Socket
<1>7. ASSUME NEW t \in Senders, ConnectOk(t) PROVE OrderOK'
  BY <1>0, <1>7 DEF ConnectOk
<1>8. ASSUME NEW t \in Senders, ConnectFails(t) PROVE OrderOK'
  BY <1>0, <1>8 DEF ConnectFails
<1>9. ASSUME NEW t \in Senders, SendPiece(t) PROVE OrderOK'
  <2>1. /\ table[fd] \in Connections /\ pc[t] = "send"
        /\ wire' = [wire EXCEPT ![table[fd]] =
                      Append(@, <<arg[t], done[t] + 1>>)]
        /\ UNCHANGED <<table, fd, made>>
    BY <1>9 DEF SendPiece, Standing
  <2>2. arg[t] \in Payloads /\ outcome[arg[t]] = "sending"
        /\ done[t] + 1 \in 1 .. Units
    BY <2>1 DEF Inv
  <2>3. Written' \subseteq Written \union {arg[t]}
    <3>1. PICK c \in Connections, p \in Payloads, n \in 1 .. Units :
                 c = table[fd] /\ p = arg[t] /\ n = done[t] + 1
      BY <2>1, <2>2
    <3>2. wire' = [wire EXCEPT ![c] = Append(@, <<p, n>>)]
      BY <2>1, <3>1
    <3> QED
      BY <3>1, <3>2, PieceWritten DEF Inv, TypeOK
  <2>4. CASE done[t] + 1 = Units
    <3>1. /\ outcome' = [outcome EXCEPT ![arg[t]] = "sent"]
          /\ pc' = [pc EXCEPT ![t] = "idle"]
          /\ arg' = [arg EXCEPT ![t] = NoPayload]
          /\ done' = [done EXCEPT ![t] = @ + 1]
      BY <1>9, <2>4 DEF SendPiece, Progress
    <3> QED
      BY <2>1, <2>2, <2>3, <3>1 DEF Inv
  <2>5. CASE done[t] + 1 # Units
    <3>1. /\ UNCHANGED <<outcome, pc, arg>>
          /\ done' = [done EXCEPT ![t] = @ + 1]
      BY <1>9, <2>5 DEF SendPiece, Progress
    <3> QED
      BY <2>1, <2>2, <2>3, <3>1 DEF Inv
  <2> QED
    BY <2>4, <2>5
<1>10. ASSUME NEW t \in Senders, SendAstray(t) PROVE OrderOK'
  <2>1. arg[t] \in Payloads /\ pc[t] = "send" /\ Written' = Written
    BY <1>0, <1>10 DEF SendAstray
  <2>2. CASE done[t] + 1 = Units
    <3>1. /\ outcome' = [outcome EXCEPT ![arg[t]] = "sent"]
          /\ pc' = [pc EXCEPT ![t] = "idle"]
          /\ arg' = [arg EXCEPT ![t] = NoPayload]
          /\ done' = [done EXCEPT ![t] = @ + 1]
      BY <1>10, <2>2 DEF SendAstray, Progress
    <3> QED
      BY <2>1, <3>1 DEF Written
  <2>3. CASE done[t] + 1 # Units
    <3>1. /\ UNCHANGED <<outcome, pc, arg>>
          /\ done' = [done EXCEPT ![t] = @ + 1]
      BY <1>10, <2>3 DEF SendAstray, Progress
    <3> QED
      BY <2>1, <3>1
  <2> QED
    BY <2>2, <2>3
<1>11. ASSUME NEW t \in Senders, SendFails(t) PROVE OrderOK'
  BY <1>0, <1>11 DEF SendFails
<1>12. ASSUME NEW t \in Senders, SendSignals(t) PROVE OrderOK'
  BY <1>0, <1>12 DEF SendSignals
<1>13. ASSUME NEW t \in Threads, Tests(t) PROVE OrderOK'
  BY <1>0, <1>13 DEF Tests
<1>14. ASSUME NEW t \in Threads, Closes(t) PROVE OrderOK'
  BY <1>0, <1>14 DEF Closes, Close, Standing
<1>15. ASSUME NEW t \in Closers, ShutdownBegin(t) PROVE OrderOK'
  BY <1>0, <1>15 DEF ShutdownBegin, Sending, Closing
<1>16. ASSUME NEW t \in Threads, Forgets(t) PROVE OrderOK'
  BY <1>0, <1>16 DEF Forgets
<1>17. ASSUME NEW t \in Senders, SendUnsets(t) \/ GivenUp(t) PROVE OrderOK'
  <2>1. CASE SendUnsets(t)
    BY <1>0, <2>1 DEF SendUnsets, Drop
  <2>2. CASE GivenUp(t)
    BY <1>0, <2>2 DEF GivenUp, Drop
  <2> QED
    BY <1>17, <2>1, <2>2
<1>19. ASSUME NEW t \in Closers, ShutdownUnsets(t) PROVE OrderOK'
  BY <1>0, <1>19 DEF ShutdownUnsets
<1>18. CASE UNCHANGED vars
  BY <1>0, <1>18 DEF vars, peer
<1> QED
  BY NextSteps, <1>1, <1>2, <1>3, <1>4, <1>5, <1>6, <1>7, <1>8, <1>9, <1>10,
     <1>11, <1>12, <1>13, <1>14, <1>15, <1>16, <1>17, <1>18,
     <1>19

\* No step but the sender's own gives socket_fd_ a new number.
LEMMA HoldStep ==
  Inv /\ HoldOK /\ [Next]_vars => HoldOK'
<1> SUFFICES ASSUME Inv, HoldOK, [Next]_vars,
                    NEW s \in Senders, pc'[s] = "close"
             PROVE  fd' = hold'[s] \/ fd' = NoFd
  BY DEF HoldOK
<1>t. /\ pc \in [Threads -> {"idle"} \union SendSteps]
      /\ hold \in [Threads -> Descriptors \union {NoFd}]
      /\ s \in Threads
  BY Numbers DEF Inv, TypeOK
<1>h. pc[s] = "close" => fd = hold[s] \/ fd = NoFd
  BY DEF HoldOK
<1> USE <1>t, <1>h, Numbers
    DEF Goto, At, shared, process, peer, send
<1>1. CASE UNCHANGED <<fd, hold, pc>>
  BY <1>1
<1>2. CASE OpenOther \/ (\E c \in Connections : PeerStalls(c)) \/ UNCHANGED vars
  BY <1>1, <1>2 DEF OpenOther, PeerStalls, vars
<1>3. ASSUME NEW t \in Threads, NEW step, step # "close",
             pc' = [pc EXCEPT ![t] = step], UNCHANGED <<fd, hold>>
      PROVE  fd' = hold'[s] \/ fd' = NoFd
  BY <1>3
<1>4. ASSUME NEW t \in Senders,
             \/ \E p \in Payloads : SendBegin(t, p)
             \/ CheckConnected(t) \/ ConnectOk(t) \/ SendFails(t) \/ SendUnsets(t)
      PROVE  fd' = hold'[s] \/ fd' = NoFd
  BY <1>3, <1>4
     DEF SendBegin, CheckConnected, ConnectOk, SendFails, SendUnsets, Drop
<1>5. ASSUME NEW t \in Senders,
             SendPiece(t) \/ SendAstray(t) \/ SendSignals(t)
      PROVE  fd' = hold'[s] \/ fd' = NoFd
  BY <1>1, <1>3, <1>5 DEF SendPiece, SendAstray, SendSignals, Progress
<1>6. ASSUME NEW t \in Senders, ConnectFails(t)
      PROVE  fd' = hold'[s] \/ fd' = NoFd
  BY <1>6 DEF ConnectFails
<1>7. ASSUME NEW t \in Senders, Socket(t) \/ NoSocket(t)
      PROVE  fd' = hold'[s] \/ fd' = NoFd
  <2>1. pc[t] = "socket"
    BY <1>7 DEF Socket, NoSocket
  <2>2. s # t => pc[s] = "idle"
    BY <2>1 DEF Inv, AloneOK
  <2>3. pc'[t] # "close"
    BY <1>7 DEF Socket, NoSocket, Drop
  <2>4. s # t => pc'[s] = pc[s]
    BY <1>7 DEF Socket, NoSocket, Drop
  <2> QED
    BY <2>2, <2>3, <2>4
<1>8. ASSUME NEW t \in Threads, Tests(t)
      PROVE  fd' = hold'[s] \/ fd' = NoFd
  BY <1>8 DEF Tests
<1>9. ASSUME NEW t \in Threads, Closes(t)
      PROVE  fd' = hold'[s] \/ fd' = NoFd
  BY <1>9 DEF Closes
<1>10. ASSUME NEW t \in Threads, Forgets(t)
       PROVE  fd' = hold'[s] \/ fd' = NoFd
  BY <1>10 DEF Forgets
<1>11. ASSUME NEW t \in Senders, GivenUp(t)
       PROVE  fd' = hold'[s] \/ fd' = NoFd
  BY <1>11 DEF GivenUp
<1>12. ASSUME NEW t \in Closers, ShutdownBegin(t) \/ ShutdownUnsets(t)
       PROVE  fd' = hold'[s] \/ fd' = NoFd
  BY <1>3, <1>12 DEF ShutdownBegin, ShutdownUnsets
<1> QED
  BY NextSteps, <1>2, <1>4, <1>5, <1>6, <1>7, <1>8, <1>9, <1>10, <1>11, <1>12

\* A connection that broke inside a frame is closed before another is sent, and
\* a send that goes on adds the next piece to its own.
LEMMA FrameStep ==
  Inv /\ NewestOK /\ OrderOK /\ HoldOK /\ FrameOK /\ [Next]_vars => FrameOK'
<1> SUFFICES ASSUME Inv, NewestOK, OrderOK, HoldOK, FrameOK, [Next]_vars
             PROVE  FrameOK'
  OBVIOUS
<1> USE Numbers, NetworkAssumption
    DEF FrameOK, AloneOK, SendSteps, CloseSteps, Threads, Goto, At, shared,
        process, peer, send
<1>t. /\ pc \in [Threads -> {"idle"} \union SendSteps]
      /\ arg \in [Senders -> Payloads \union {NoPayload}]
      /\ done \in [Senders -> 0 .. Units]
      /\ outcome \in [Payloads -> {"new", "sending", "sent", "dropped"}]
      /\ fd \in Descriptors \union {NoFd}
      /\ hold \in [Threads -> Descriptors \union {NoFd}]
      /\ table \in [Descriptors -> Connections \union {Free, Other}]
      /\ made \in 0 .. MaxConnections
      /\ wire \in [Connections -> Seq(Payloads \X (1 .. Units))]
  BY DEF Inv, TypeOK
<1> USE <1>t
<1>0. UNCHANGED wire =>
        \A c \in Connections :
          /\ Over(c)' = Over(c)
          /\ \A p, n : Begun(c, p, n) => Begun(c, p, n)'
  BY DEF Over, Begun
<1>b. \A c \in Connections, p \in Payloads : Begun(c, p, 0) /\ Begun(c, p, 0)'
  <2>1. \A w, p : Len(w) \in Nat => BegunIn(w, p, 0)
    BY DEF BegunIn
  <2>2. wire' \in [Connections -> Seq(Payloads \X (1 .. Units))]
    BY TypeStep DEF TypeOK
  <2>3. \A c \in Connections : Len(wire[c]) \in Nat /\ Len(wire'[c]) \in Nat
    BY <2>2
  <2> QED
    BY <2>1, <2>3 DEF Begun
<1>1. CASE OpenOther
  BY <1>0, <1>1 DEF OpenOther, LowestFree
<1>2. ASSUME NEW c \in Connections, PeerStalls(c) PROVE FrameOK'
  BY <1>0, <1>2 DEF PeerStalls
<1>3. ASSUME NEW t \in Senders, NEW p \in Payloads, SendBegin(t, p)
      PROVE  FrameOK'
  BY <1>0, <1>3 DEF SendBegin, Sending, Closing
<1>4. ASSUME NEW t \in Senders, CheckConnected(t) PROVE FrameOK'
  <2> SUFFICES ASSUME fd # NoFd, NEW c \in Connections, table[fd] = c
               PROVE  FrameOK'
    BY <1>4 DEF CheckConnected
  <2>1. /\ pc[t] = "check"
        /\ pc' \in [Threads -> {"idle"} \union SendSteps]
        /\ \A v \in Senders : v # t => pc[v] = "idle" /\ pc'[v] = "idle"
        /\ UNCHANGED <<fd, table, wire, arg, done>>
    BY <1>4 DEF CheckConnected, Inv
  <2>2. done[t] = 0 /\ arg[t] \in Payloads
    BY <2>1 DEF OrderOK, Inv, CallOK
  <2>3. Over(c) = 0
    BY <2>1
  <2>4. Over(c)' = 0 /\ Begun(c, arg[t], 0)'
    BY <1>0, <1>b, <2>1, <2>2, <2>3
  <2> QED
    BY <2>1, <2>2, <2>4
<1>5. ASSUME NEW t \in Senders, NoSocket(t) PROVE FrameOK'
  BY <1>0, <1>5 DEF NoSocket, Drop
<1>6. ASSUME NEW t \in Senders, Socket(t) PROVE FrameOK'
  <2>1. PICK c \in Connections : c = made + 1
    BY <1>6 DEF Socket, Connections
  <2>2. /\ wire[c] = <<>> /\ UNCHANGED wire
        /\ fd' \in Descriptors /\ table'[fd'] = c
        /\ \A v \in Senders : pc'[v] # "send"
    BY <2>1, <1>6 DEF Socket, NewestOK, Inv
  <2>3. Over(c)' = 0
    <3>1. wire'[c] = <<>>
      BY <2>2
    <3> QED
      BY <3>1, NothingRead DEF Over
  <2> QED
    BY <2>2, <2>3
<1>7. ASSUME NEW t \in Senders, ConnectOk(t) PROVE FrameOK'
  <2> SUFFICES ASSUME fd # NoFd, NEW c \in Connections, table[fd] = c
               PROVE  FrameOK'
    BY <1>7 DEF ConnectOk
  <2>1. /\ pc[t] = "connect"
        /\ pc' \in [Threads -> {"idle"} \union SendSteps]
        /\ \A v \in Senders : v # t => pc[v] = "idle" /\ pc'[v] = "idle"
        /\ UNCHANGED <<fd, table, wire, arg, done>>
    BY <1>7 DEF ConnectOk, Inv
  <2>2. done[t] = 0 /\ arg[t] \in Payloads
    BY <2>1 DEF OrderOK, Inv, CallOK
  <2>3. Over(c) = 0
    BY <2>1
  <2>4. Over(c)' = 0 /\ Begun(c, arg[t], 0)'
    BY <1>0, <1>b, <2>1, <2>2, <2>3
  <2> QED
    BY <2>1, <2>2, <2>4
<1>8. ASSUME NEW t \in Senders, ConnectFails(t) PROVE FrameOK'
  BY <1>0, <1>8 DEF ConnectFails
<1>9. ASSUME NEW t \in Senders, SendPiece(t) PROVE FrameOK'
  <2>1. /\ table[fd] \in Connections /\ pc[t] = "send"
        /\ wire' = [wire EXCEPT ![table[fd]] =
                      Append(@, <<arg[t], done[t] + 1>>)]
        /\ UNCHANGED <<table, fd, made>>
    BY <1>9 DEF SendPiece, Standing
  <2>2. /\ arg[t] \in Payloads /\ done[t] \in Nat /\ done[t] < Units
        /\ Over(table[fd]) = done[t] /\ Begun(table[fd], arg[t], done[t])
        /\ fd # NoFd
    BY <2>1, <1>9 DEF SendPiece, Standing, Inv, CallOK
  <2>3. PICK c \in Connections, p \in Payloads, n \in Nat :
               c = table[fd] /\ p = arg[t] /\ n = done[t]
    BY <2>1, <2>2
  <2>4. wire[c] \in Seq(Pieces) /\ wire'[c] = Append(wire[c], <<p, n + 1>>)
    BY <2>1, <2>3 DEF Pieces
  <2>5. n < Units /\ OverIn(wire[c]) = n /\ BegunIn(wire[c], p, n)
    BY <2>2, <2>3 DEF Over, Begun
  <2>6. /\ Begun(c, p, n + 1)'
        /\ n + 1 < Units => Over(c)' = n + 1
        /\ n + 1 = Units => Over(c)' = 0
    <3>1. PICK w \in Seq(Pieces) : w = wire[c]
      BY <2>4
    <3>2. PICK piece \in Pieces : piece = <<p, n + 1>>
      <4>1. n + 1 \in 1 .. Units
        BY <2>5
      <4> QED
        BY <4>1 DEF Pieces
    <3>3. PICK v \in Seq(Pieces) : v = wire'[c] /\ Grown(w, piece, v)
      BY <2>4, <3>1, <3>2, AppendGrows
    <3>4. /\ BegunIn(v, p, n + 1)
          /\ n + 1 < Units => OverIn(v) = n + 1
          /\ n + 1 = Units => OverIn(v) = 0
      BY <2>5, <3>1, <3>2, <3>3, ReadNext
    <3> QED
      BY <3>3, <3>4 DEF Over, Begun
  <2>7. CASE n + 1 = Units
    <3>1. pc' = [pc EXCEPT ![t] = "idle"]
      BY <2>3, <2>7, <1>9 DEF SendPiece, Progress
    <3>2. \A v \in Senders : pc'[v] = "idle"
      BY <2>1, <3>1 DEF Inv
    <3>3. Over(c)' = 0 /\ table'[fd'] = c
      BY <2>1, <2>3, <2>6, <2>7
    <3> QED
      BY <3>2, <3>3
  <2>8. CASE n + 1 # Units
    <3>1. pc' = pc /\ arg' = arg /\ done' = [done EXCEPT ![t] = n + 1]
      BY <2>3, <2>8, <1>9 DEF SendPiece, Progress
    <3>2. /\ pc'[t] = "send" /\ arg'[t] = p /\ done'[t] = n + 1
          /\ \A v \in Senders : v # t => pc'[v] = "idle"
      BY <2>1, <2>3, <3>1 DEF Inv
    <3>3. /\ table'[fd'] = c /\ Over(c)' = n + 1 /\ Begun(c, p, n + 1)'
      BY <2>1, <2>3, <2>5, <2>6, <2>8
    <3> QED
      BY <3>2, <3>3
  <2> QED
    BY <2>7, <2>8
<1>10. ASSUME NEW t \in Senders, SendAstray(t) PROVE FrameOK'
  <2>1. table[fd] = Other /\ UNCHANGED <<fd, table>>
    BY <1>10 DEF SendAstray, Standing
  <2> QED
    BY <2>1
<1>11. ASSUME NEW t \in Senders, SendFails(t) PROVE FrameOK'
  BY <1>0, <1>11 DEF SendFails
<1>12. ASSUME NEW t \in Senders, SendSignals(t) PROVE FrameOK'
  BY <1>0, <1>12 DEF SendSignals
<1>13. ASSUME NEW t \in Threads, Tests(t) PROVE FrameOK'
  BY <1>0, <1>13 DEF Tests
<1>14. ASSUME NEW t \in Threads, Closes(t) PROVE FrameOK'
  BY <1>0, <1>14 DEF Closes, Close, Standing, HoldOK
<1>15. ASSUME NEW t \in Closers, ShutdownBegin(t) PROVE FrameOK'
  BY <1>0, <1>15 DEF ShutdownBegin, Sending, Closing
<1>16. ASSUME NEW t \in Threads, Forgets(t) PROVE FrameOK'
  BY <1>0, <1>16 DEF Forgets
<1>17. ASSUME NEW t \in Senders, SendUnsets(t) \/ GivenUp(t) PROVE FrameOK'
  BY <1>0, <1>17 DEF SendUnsets, GivenUp, Drop
<1>19. ASSUME NEW t \in Closers, ShutdownUnsets(t) PROVE FrameOK'
  BY <1>0, <1>19 DEF ShutdownUnsets
<1>18. CASE UNCHANGED vars
  BY <1>0, <1>18 DEF vars, peer
<1> QED
  BY NextSteps, <1>1, <1>2, <1>3, <1>4, <1>5, <1>6, <1>7, <1>8, <1>9, <1>10,
     <1>11, <1>12, <1>13, <1>14, <1>15, <1>16, <1>17, <1>18,
     <1>19

-----------------------------------------------------------------------------
(***************************************************************************)
(* The connections are a Channel.                                          *)
(***************************************************************************)
\* The invariant, and what a reader relies on.
ChannelInv ==
  /\ Inv
  /\ NewestOK
  /\ OrderOK
  /\ HoldOK
  /\ FrameOK

\* Nothing has been sent, and a reader has found nothing.
LEMMA InitChannel ==
  Init => ChannelInv /\ Reader!Init
<1> SUFFICES ASSUME Init PROVE ChannelInv /\ Reader!Init
  OBVIOUS
<1>1. Inv
  BY InitInv
<1>2. NewestOK /\ HoldOK /\ FrameOK
  BY Numbers DEF Init, NewestOK, HoldOK, FrameOK
<1>3. Written = {}
  BY DEF Init, Written
<1>4. OrderOK
  BY <1>3 DEF Init, OrderOK, Threads
<1>5. \A c \in Connections : Carried(c) = <<>> /\ Rest(c) = NoPayload
  <2>1. \A c \in Connections : wire[c] = <<>>
    BY DEF Init
  <2> QED
    BY <2>1, NothingRead, Views
<1>6. Reader!Init
  BY <1>5 DEF Reader!Init
<1> QED
  BY <1>1, <1>2, <1>4, <1>6 DEF ChannelInv

\* Nothing as new as a payload of which no piece is on a wire has been read.
LEMMA FreshPayload ==
  ASSUME TypeOK, OrderOK, NEW t \in Senders, pc[t] # "idle",
         NEW p \in Payloads, arg[t] = p, done[t] = 0
  PROVE  \A c \in Connections :
           /\ Rest(c) # NoPayload => Rest(c) < p
           /\ \A n \in DOMAIN Carried(c) : Carried(c)[n] < p
<1> SUFFICES ASSUME NEW c \in Connections
             PROVE  /\ Rest(c) # NoPayload => Rest(c) < p
                    /\ \A n \in DOMAIN Carried(c) : Carried(c)[n] < p
  OBVIOUS
<1>1. PICK w \in Seq(Pieces) : w = wire[c]
  BY DEF TypeOK, Pieces
<1>2. Garbled < p /\ p \in Nat
  BY DEF Garbled, Payloads
<1>3. \A i \in DOMAIN w : w[i][1] < p
  <2>1. ASSUME NEW i \in DOMAIN w PROVE w[i][1] \in Written
    <3>1. w[i] \in Pieces
      OBVIOUS
    <3>2. w[i][1] \in Payloads
      BY <3>1 DEF Pieces
    <3> QED
      BY <1>1, <3>2 DEF Written
  <2>2. \A q \in Written : q \in Payloads /\ outcome[q] # "new"
    BY DEF OrderOK, Written
  <2>3. \A q \in Written : q <= p /\ q # p
    BY <2>2 DEF OrderOK
  <2>4. \A q \in Payloads : q \in Nat
    BY DEF Payloads
  <2>5. ASSUME NEW q \in Written PROVE q < p
    <3>1. q \in Nat /\ p \in Nat
      BY <1>2, <2>2, <2>4
    <3>2. q <= p /\ q # p
      BY <2>3
    <3> QED
      BY <3>1, <3>2
  <2> QED
    BY <2>1, <2>5
<1>4. \A n \in DOMAIN FramesIn(w) : FramesIn(w)[n] < p
  BY <1>2, <1>3, ReadWritten
<1>5. RestIn(w) # NoPayload => RestIn(w) < p
  BY <1>2, <1>3, ReadWritten
<1> QED
  BY <1>1, <1>4, <1>5, Views

\* Of a payload a reader sees the beginning, nothing more, or the end.
LEMMA ReaderStep ==
  ChannelInv /\ [Next]_vars =>
    [Reader!Next]_<<[c \in Connections |-> Carried(c)],
                    [c \in Connections |-> Rest(c)]>>
<1> SUFFICES ASSUME ChannelInv, [Next]_vars
             PROVE  [Reader!Next]_<<[c \in Connections |-> Carried(c)],
                                    [c \in Connections |-> Rest(c)]>>
  OBVIOUS
<1>1. CASE UNCHANGED wire
  <2>1. \A c \in Connections :
          Carried(c)' = Carried(c) /\ Rest(c)' = Rest(c)
    BY <1>1, Views
  <2> QED
    BY <2>1
<1>2. ASSUME NEW t \in Senders, SendPiece(t)
      PROVE  Reader!Next \/ UNCHANGED <<[c \in Connections |-> Carried(c)],
                                        [c \in Connections |-> Rest(c)]>>
  <2>1. /\ pc[t] = "send" /\ table[fd] \in Connections /\ fd # NoFd
        /\ arg[t] \in Payloads /\ done[t] \in Nat /\ done[t] < Units
        /\ wire' = [wire EXCEPT ![table[fd]] =
                      Append(@, <<arg[t], done[t] + 1>>)]
    BY <1>2, Numbers
       DEF SendPiece, Standing, At, ChannelInv, Inv, CallOK, TypeOK
  <2>2. PICK c \in Connections, p \in Payloads, n \in Nat :
               c = table[fd] /\ p = arg[t] /\ n = done[t] /\ n < Units
    BY <2>1
  <2>3. /\ wire \in [Connections -> Seq(Pieces)]
        /\ \A d \in Connections : d # c => wire'[d] = wire[d]
        /\ wire'[c] = Append(wire[c], <<p, n + 1>>)
    BY <2>1, <2>2 DEF ChannelInv, Inv, TypeOK, Pieces
  <2>4. OverIn(wire[c]) = n /\ BegunIn(wire[c], p, n)
    BY <2>1, <2>2 DEF ChannelInv, FrameOK, Over, Begun
  <2>5. PICK w \in Seq(Pieces) : w = wire[c]
    BY <2>3
  <2>6. PICK v \in Seq(Pieces) : v = wire'[c] /\ Grown(w, <<p, n + 1>>, v)
    <3>1. PICK piece \in Pieces : piece = <<p, n + 1>>
      <4>1. n + 1 \in 1 .. Units
        BY <2>2, NetworkAssumption
      <4> QED
        BY <4>1 DEF Pieces
    <3> QED
      BY <2>3, <2>5, <3>1, AppendGrows
  <2>7. /\ BegunIn(v, p, n + 1)
        /\ n + 1 < Units => OverIn(v) = n + 1 /\ FramesIn(v) = FramesIn(w)
        /\ n + 1 = Units => /\ OverIn(v) = 0
                            /\ FramesIn(v) = Append(FramesIn(w), p)
    BY <2>2, <2>4, <2>5, <2>6, ReadNext
  <2>8. Carried(c) = FramesIn(w) /\ Rest(c) = IF n = 0 THEN NoPayload ELSE p
    <3>1. RestIn(w) = IF n = 0 THEN NoPayload ELSE p
      BY <2>4, <2>5, ReadBegun
    <3> QED
      BY <2>5, <3>1, Views
  <2>9. /\ Carried(c)' = FramesIn(v)
        /\ Rest(c)' = IF n + 1 = Units THEN NoPayload ELSE p
    <3>1. CASE n + 1 = Units
      <4>1. BegunIn(v, p, 0) /\ OverIn(v) = 0
        BY <2>7, <3>1 DEF BegunIn
      <4>2. RestIn(v) = NoPayload
        BY <4>1, ReadBegun
      <4> QED
        BY <2>6, <3>1, <4>2, Views
    <3>2. CASE n + 1 # Units
      <4>1. n + 1 < Units /\ n + 1 \in Nat /\ n + 1 # 0
        BY <2>2, <3>2, NetworkAssumption
      <4>2. RestIn(v) = p
        BY <2>7, <4>1, ReadBegun
      <4> QED
        BY <2>6, <3>2, <4>2, Views
    <3> QED
      BY <3>1, <3>2
  <2>10. \A d \in Connections :
           d # c => Carried(d)' = Carried(d) /\ Rest(d)' = Rest(d)
    BY <2>3, Views
  <2>11. \A d \in Connections :
           d > c => Carried(d) = <<>> /\ Rest(d) = NoPayload
    <3>1. \A d \in Connections : d > c => wire[d] = <<>>
      BY <2>1, <2>2 DEF ChannelInv, NewestOK
    <3> QED
      BY <3>1, NothingRead, Views
  <2>12. n = 0 =>
           \A d \in Connections :
             /\ Rest(d) # NoPayload => Rest(d) < p
             /\ \A m \in DOMAIN Carried(d) : Carried(d)[m] < p
    BY <2>1, <2>2, FreshPayload DEF ChannelInv, Inv
  <2>13. NoPayload \notin Payloads
    BY Numbers
  <2>14. CASE n + 1 < Units /\ n = 0
    <3>1. /\ Carried(c)' = Carried(c)
          /\ Rest(c) = NoPayload /\ Rest(c)' = p
      BY <2>7, <2>8, <2>9, <2>14
    <3>2. Reader!Begin(c, p)
      BY <2>10, <2>11, <2>12, <2>14, <3>1
         DEF Reader!Begin, Reader!Newest, Reader!Empty, Reader!Fresh
    <3> QED
      BY <3>2 DEF Reader!Next
  <2>15. CASE n + 1 < Units /\ n # 0
    <3>1. Carried(c)' = Carried(c) /\ Rest(c)' = Rest(c)
      BY <2>7, <2>8, <2>9, <2>15
    <3> QED
      BY <2>10, <3>1
  <2>16. CASE n + 1 = Units /\ n = 0
    <3>1. /\ Carried(c)' = Append(Carried(c), p)
          /\ Rest(c) = NoPayload /\ Rest(c)' = NoPayload
      BY <2>7, <2>8, <2>9, <2>16
    <3>2. Reader!Carry(c, p)
      BY <2>10, <2>11, <2>12, <2>16, <3>1
         DEF Reader!Carry, Reader!Newest, Reader!Empty, Reader!Fresh
    <3> QED
      BY <3>2 DEF Reader!Next
  <2>17. CASE n + 1 = Units /\ n # 0
    <3>1. /\ Carried(c)' = Append(Carried(c), p)
          /\ Rest(c) = p /\ Rest(c)' = NoPayload
      BY <2>7, <2>8, <2>9, <2>17
    <3>2. Reader!Finish(c)
      BY <2>10, <2>11, <2>17, <3>1
         DEF Reader!Finish, Reader!Newest, Reader!Empty
    <3> QED
      BY <3>2 DEF Reader!Next
  <2>18. n + 1 < Units \/ n + 1 = Units
    BY <2>2, NetworkAssumption
  <2> QED
    BY <2>14, <2>15, <2>16, <2>17, <2>18
<1>3. UNCHANGED wire \/ \E t \in Senders : SendPiece(t)
  BY NextSteps
     DEF OpenOther, PeerStalls, SendBegin, CheckConnected, NoSocket, Socket,
         ConnectOk, ConnectFails, SendAstray, SendFails, SendSignals,
         Tests, Closes, Forgets, SendUnsets, GivenUp, ShutdownBegin,
         ShutdownUnsets, vars, peer
<1> QED
  BY <1>1, <1>2, <1>3

\* KeepsChannel: whenever sends fail and shutdown() interferes, a reader that
\* follows the length prefixes finds whole frames on every connection, in the
\* order in which they were handed over and none twice, and at the end of a
\* connection at most the beginning of one more.
THEOREM ImplementsChannel ==
  Spec => KeepsChannel
<1>1. Init => ChannelInv /\ Reader!Init
  BY InitChannel
<1>2. ChannelInv /\ [Next]_vars => ChannelInv'
  BY TypeStep, AloneStep, CallStep, OwnStep, WireStep, NewestStep, OrderStep,
     HoldStep, FrameStep DEF ChannelInv, Inv
<1>3. ChannelInv /\ [Next]_vars =>
        [Reader!Next]_<<[c \in Connections |-> Carried(c)],
                        [c \in Connections |-> Rest(c)]>>
  BY ReaderStep
<1> QED
  BY <1>1, <1>2, <1>3, PTL DEF Spec, KeepsChannel, Reader!Spec
=============================================================================
