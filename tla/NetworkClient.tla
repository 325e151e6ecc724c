---------------------------- MODULE NetworkClient ----------------------------
(***************************************************************************)
(* NetworkClient::Impl of src/src/network.cpp, as ClientImpl uses it: the  *)
(* batch manager calls send_data() with its own mutex held, so one send at *)
(* a time, while shutdown() is called without that mutex and may come at   *)
(* any moment.  send_data() takes no lock; is_connected_ and socket_fd_    *)
(* are read and written one by one, and each of these and each system call *)
(* is a step.                                                              *)
(*                                                                         *)
(* The process's descriptor table is part of the model: socket() and the   *)
(* application's own open() get the lowest free number, so a number that   *)
(* was closed comes back as something else.                                *)
(***************************************************************************)
EXTENDS Integers, Sequences, FiniteSets

CONSTANTS
  Senders,         \* threads in send_data(), one at a time
  Closers,         \* threads that call shutdown()
  MaxPayloads,     \* bound: batches handed over
  Units,           \* pieces the kernel may take a frame in
  MaxConnections,  \* bound: sockets created
  MaxOthers,       \* bound: descriptors the application opens itself
  ConnectMayFail,  \* connect() may return false
  SendMayFail,     \* ::send may return an error
  PeerMayStall,    \* the server may stop reading for good
  PipeSignal       \* SIGPIPE has its default effect and the peer may close

ASSUME NetworkAssumption ==
  /\ Units \in Nat \ {0}
  /\ MaxConnections \in Nat
  /\ MaxOthers \in Nat
  /\ MaxPayloads \in Nat
  /\ {ConnectMayFail, SendMayFail, PeerMayStall, PipeSignal} \subseteq BOOLEAN
  /\ Senders \intersect Closers = {}

\* Serialized batches, in the order in which the batch manager hands them over.
Payloads == 1 .. MaxPayloads
NoPayload == 0

Connections == 1 .. MaxConnections
Descriptors == 1 .. (MaxConnections + MaxOthers)
Free == 0
Other == -1
NoFd == -1

VARIABLES
  connected,  \* is_connected_
  fd,         \* socket_fd_
  table,      \* what each descriptor of the process stands for
  made,       \* connections created so far
  wire,       \* what was written to a connection: <<payload, unit>> pairs
  stalled,    \* connections whose peer has stopped reading
  pc,         \* where a thread is
  hold,       \* the number a thread has read for the close() it is about
              \* to call
  arg,        \* the payload of a thread in send_data()
  done,       \* units of its frame sent so far
  outcome,    \* history: "new", "sending", "sent" or "dropped"
  stranger,   \* history: a descriptor of the application was written to
              \* or closed
  raced,      \* history: a shutdown() and a send_data() have overlapped
  killed      \* the process died of SIGPIPE

shared == <<connected, fd, hold>>
process == <<table, made, stranger, raced, killed>>
peer == <<wire, stalled>>
send == <<arg, done, outcome>>
vars == <<connected, fd, table, made, wire, stalled, pc, hold, arg, done,
          outcome, stranger, raced, killed>>

Threads == Senders \union Closers
CloseSteps == {"test", "close", "forget", "unset"}
SendSteps == {"check", "socket", "connect", "giveup", "givenup", "send"}
               \union CloseSteps

TypeOK ==
  /\ connected \in BOOLEAN
  /\ fd \in Descriptors \union {NoFd}
  /\ table \in [Descriptors -> Connections \union {Free, Other}]
  /\ made \in 0 .. MaxConnections
  /\ wire \in [Connections -> Seq(Payloads \X (1 .. Units))]
  /\ stalled \subseteq Connections
  /\ pc \in [Threads -> {"idle"} \union SendSteps]
  /\ hold \in [Threads -> Descriptors \union {NoFd}]
  /\ arg \in [Senders -> Payloads \union {NoPayload}]
  /\ done \in [Senders -> 0 .. Units]
  /\ outcome \in [Payloads -> {"new", "sending", "sent", "dropped"}]
  /\ stranger \in BOOLEAN
  /\ raced \in BOOLEAN
  /\ killed \in BOOLEAN

Init ==
  /\ connected = FALSE
  /\ fd = NoFd
  /\ table = [d \in Descriptors |-> Free]
  /\ made = 0
  /\ wire = [c \in Connections |-> <<>>]
  /\ stalled = {}
  /\ pc = [t \in Threads |-> "idle"]
  /\ hold = [t \in Threads |-> NoFd]
  /\ arg = [t \in Senders |-> NoPayload]
  /\ done = [t \in Senders |-> 0]
  /\ outcome = [p \in Payloads |-> "new"]
  /\ stranger = FALSE
  /\ raced = FALSE
  /\ killed = FALSE

Goto(t, step) == pc' = [pc EXCEPT ![t] = step]
At(t, step) == ~killed /\ pc[t] = step

LowestFree(d) == table[d] = Free /\ \A e \in 1 .. d - 1 : table[e] # Free

-----------------------------------------------------------------------------
(***************************************************************************)
(* The environment.                                                        *)
(***************************************************************************)
\* The application opens a file or a socket of its own.
OpenOther ==
  /\ ~killed
  /\ Cardinality({d \in Descriptors : table[d] = Other}) < MaxOthers
  /\ \E d \in Descriptors :
       /\ LowestFree(d)
       /\ table' = [table EXCEPT ![d] = Other]
  /\ UNCHANGED <<shared, made, peer, pc, send, stranger, raced, killed>>

PeerStalls(c) ==
  /\ PeerMayStall
  /\ c \in (1 .. made) \ stalled
  /\ stalled' = stalled \union {c}
  /\ UNCHANGED <<shared, process, wire, pc, send>>

-----------------------------------------------------------------------------
(***************************************************************************)
(* send_data() and connect().                                              *)
(***************************************************************************)
Sending == \E t \in Senders : pc[t] # "idle"
Closing == \E t \in Closers : pc[t] # "idle"

\* The batch manager holds its mutex: nobody else is in send_data().
SendBegin(t, p) ==
  /\ At(t, "idle")
  /\ ~Sending
  /\ outcome[p] = "new"
  /\ \A q \in 1 .. p - 1 : outcome[q] # "new"
  /\ outcome' = [outcome EXCEPT ![p] = "sending"]
  /\ arg' = [arg EXCEPT ![t] = p]
  /\ done' = [done EXCEPT ![t] = 0]
  /\ raced' = (raced \/ Closing)
  /\ Goto(t, "check")
  /\ UNCHANGED <<shared, table, made, stranger, killed, peer>>

\* The call ends; nothing but connections_failed tells how.
Drop(t) ==
  /\ outcome' = [outcome EXCEPT ![arg[t]] = "dropped"]
  /\ arg' = [arg EXCEPT ![t] = NoPayload]
  /\ Goto(t, "idle")
  /\ UNCHANGED done

CheckConnected(t) ==
  /\ At(t, "check")
  /\ Goto(t, IF connected THEN "send" ELSE "socket")
  /\ UNCHANGED <<shared, process, peer, send>>

\* The endpoint has no port or one on which std::stoi throws, which ends the
\* call as well, or socket() fails.
NoSocket(t) ==
  /\ At(t, "socket")
  /\ ConnectMayFail
  /\ Drop(t)
  /\ \/ fd' = NoFd
     \/ UNCHANGED fd
  /\ UNCHANGED <<connected, hold, process, peer>>

\* Bound: the last socket is not replaced.
Socket(t) ==
  /\ At(t, "socket")
  /\ made < MaxConnections
  /\ made' = made + 1
  /\ \E d \in Descriptors :
       /\ LowestFree(d)
       /\ table' = [table EXCEPT ![d] = made + 1]
       /\ fd' = d
  /\ Goto(t, "connect")
  /\ UNCHANGED <<connected, hold, stranger, raced, killed, peer, send>>

\* ::connect on the new socket, which a close of its number does not end.
ConnectOk(t) ==
  /\ At(t, "connect")
  /\ connected' = TRUE
  /\ Goto(t, "send")
  /\ UNCHANGED <<fd, hold, process, peer, send>>

\* No address, no route or a refusal: close(socket_fd_) comes next.
ConnectFails(t) ==
  /\ At(t, "connect")
  /\ ConnectMayFail
  /\ hold' = [hold EXCEPT ![t] = fd]
  /\ Goto(t, "giveup")
  /\ UNCHANGED <<connected, fd, process, peer, send>>

Progress(t) ==
  /\ done' = [done EXCEPT ![t] = @ + 1]
  /\ IF done[t] + 1 = Units
     THEN /\ outcome' = [outcome EXCEPT ![arg[t]] = "sent"]
          /\ arg' = [arg EXCEPT ![t] = NoPayload]
          /\ Goto(t, "idle")
     ELSE UNCHANGED <<outcome, arg, pc>>

Standing(d) == IF d = NoFd THEN Free ELSE table[d]

\* Fault: a short write is taken for the whole frame.
SendShort(t) ==
  /\ At(t, "send")
  /\ Standing(fd) \in Connections \ stalled
  /\ wire' = [wire EXCEPT ![table[fd]] = Append(@, <<arg[t], done[t] + 1>>)]
  /\ done' = [done EXCEPT ![t] = Units]
  /\ outcome' = [outcome EXCEPT ![arg[t]] = "sent"]
  /\ arg' = [arg EXCEPT ![t] = NoPayload]
  /\ Goto(t, "idle")
  /\ UNCHANGED <<shared, process, stalled>>

\* The kernel takes the next piece of the frame; after the last the call ends.
SendPiece(t) ==
  /\ At(t, "send")
  /\ Standing(fd) \in Connections \ stalled
  /\ wire' = [wire EXCEPT ![table[fd]] = Append(@, <<arg[t], done[t] + 1>>)]
  /\ Progress(t)
  /\ UNCHANGED <<shared, process, stalled>>

\* socket_fd_ has become a descriptor of the application: it gets the bytes.
SendAstray(t) ==
  /\ At(t, "send")
  /\ Standing(fd) = Other
  /\ stranger' = TRUE
  /\ Progress(t)
  /\ UNCHANGED <<shared, table, made, raced, killed, peer>>

\* Fault: a failed send leaves the connection as it is.
SendFailsOpen(t) ==
  /\ At(t, "send")
  /\ SendMayFail
  /\ Drop(t)
  /\ UNCHANGED <<shared, process, peer>>

\* Fault: a failed send is tried again on the same socket, without a limit.
SendRetries(t) ==
  /\ At(t, "send")
  /\ SendMayFail \/ Standing(fd) = Free
  /\ Goto(t, "check")
  /\ UNCHANGED <<shared, process, peer, send>>

\* An error of ::send, EBADF for a closed descriptor among them.
SendFails(t) ==
  /\ At(t, "send")
  /\ SendMayFail \/ Standing(fd) = Free
  /\ connected' = FALSE
  /\ Goto(t, "test")
  /\ UNCHANGED <<fd, hold, process, peer, send>>

\* The peer has closed and ::send is called without MSG_NOSIGNAL.
SendSignals(t) ==
  /\ At(t, "send")
  /\ PipeSignal
  /\ Standing(fd) \in Connections
  /\ killed' = TRUE
  /\ UNCHANGED <<shared, table, made, stranger, raced, peer, pc, send>>

-----------------------------------------------------------------------------
(***************************************************************************)
(* close_connection(), by a sender whose send has failed and by            *)
(* shutdown(): the test of socket_fd_, close(), socket_fd_ = -1 and        *)
(* is_connected_ = false, one by one.  connect() gives up a socket in the  *)
(* same way, without the test and without the flag.                        *)
(***************************************************************************)
\* Fault: the descriptor is forgotten and not closed.
ForgetOnly(t) == UNCHANGED <<table, stranger>>

\* close() is called with the number that was tested, or with a newer one when
\* the variable is read again for the call.
Close(t) ==
  \E d \in {hold[t], fd} :
    /\ table' = IF d = NoFd THEN table ELSE [table EXCEPT ![d] = Free]
    /\ stranger' = (stranger \/ Standing(d) = Other)

Tests(t) ==
  /\ At(t, "test")
  /\ hold' = [hold EXCEPT ![t] = fd]
  /\ Goto(t, IF fd = NoFd THEN "unset" ELSE "close")
  /\ UNCHANGED <<connected, fd, process, peer, send>>

Closes(t) ==
  /\ At(t, "close") \/ At(t, "giveup")
  /\ Close(t)
  /\ hold' = [hold EXCEPT ![t] = NoFd]
  /\ Goto(t, IF pc[t] = "close" THEN "forget" ELSE "givenup")
  /\ UNCHANGED <<connected, fd, made, raced, killed, peer, send>>

\* Fault: the number of a closed descriptor is kept.
ForgetsNot(t) ==
  /\ At(t, "forget")
  /\ Goto(t, "unset")
  /\ UNCHANGED <<shared, process, peer, send>>

Forgets(t) ==
  /\ At(t, "forget")
  /\ fd' = NoFd
  /\ Goto(t, "unset")
  /\ UNCHANGED <<connected, hold, process, peer, send>>

SendUnsets(t) ==
  /\ At(t, "unset")
  /\ connected' = FALSE
  /\ Drop(t)
  /\ UNCHANGED <<fd, hold, process, peer>>

\* The end of a connect() that failed, which ends send_data() as well.
GivenUp(t) ==
  /\ At(t, "givenup")
  /\ fd' = NoFd
  /\ Drop(t)
  /\ UNCHANGED <<connected, hold, process, peer>>

ShutdownBegin(t) ==
  /\ At(t, "idle")
  /\ ~Closing
  /\ raced' = (raced \/ Sending)
  /\ Goto(t, "test")
  /\ UNCHANGED <<shared, table, made, stranger, killed, peer, send>>

ShutdownUnsets(t) ==
  /\ At(t, "unset")
  /\ connected' = FALSE
  /\ Goto(t, "idle")
  /\ UNCHANGED <<fd, hold, process, peer, send>>

-----------------------------------------------------------------------------
CloseStep(t) == Tests(t) \/ Closes(t) \/ Forgets(t)

SendStep(t) ==
  \/ CheckConnected(t) \/ NoSocket(t) \/ Socket(t)
  \/ ConnectOk(t) \/ ConnectFails(t)
  \/ SendPiece(t) \/ SendAstray(t) \/ SendFails(t) \/ SendSignals(t)
  \/ CloseStep(t) \/ SendUnsets(t) \/ GivenUp(t)

ShutdownStep(t) == CloseStep(t) \/ ShutdownUnsets(t)

Next ==
  \/ OpenOther
  \/ \E c \in Connections : PeerStalls(c)
  \/ \E t \in Senders : SendStep(t) \/ \E p \in Payloads : SendBegin(t, p)
  \/ \E t \in Closers : ShutdownBegin(t) \/ ShutdownStep(t)

Spec == Init /\ [][Next]_vars

\* What a sender does on its own, and what the kernel owes it: connect() and
\* a send to a closed descriptor end, a blocking send moves on unless the
\* peer has stopped reading.  Nothing makes a healthy connection fail.
SendGoesOn(t) ==
  \/ CheckConnected(t) \/ NoSocket(t) \/ Socket(t)
  \/ ConnectOk(t) \/ ConnectFails(t)
  \/ SendPiece(t) \/ SendAstray(t)
  \/ Standing(fd) = Free /\ SendFails(t)
  \/ CloseStep(t) \/ SendUnsets(t) \/ GivenUp(t)

FairSpec ==
  /\ Spec
  /\ \A t \in Senders : WF_vars(SendGoesOn(t))
  /\ \A t \in Closers : WF_vars(ShutdownStep(t))

-----------------------------------------------------------------------------
(***************************************************************************)
(* Properties.                                                             *)
(***************************************************************************)
\* The first pieces of a payload, in order; Garbled when they are not that.
Garbled == -1
Joined(pieces) ==
  LET p == pieces[1][1]
  IN  IF pieces = [n \in DOMAIN pieces |-> <<p, n>>] THEN p ELSE Garbled

\* What a reader that follows the length prefixes makes of a connection.
Carried(c) ==
  [n \in 1 .. Len(wire[c]) \div Units |->
     Joined(SubSeq(wire[c], (n - 1) * Units + 1, n * Units))]
Rest(c) ==
  LET whole == (Len(wire[c]) \div Units) * Units
  IN  IF Len(wire[c]) = whole THEN NoPayload
      ELSE Joined(SubSeq(wire[c], whole + 1, Len(wire[c])))

Reader == INSTANCE Channel WITH
  Nothing <- NoPayload,
  carried <- [c \in Connections |-> Carried(c)],
  rest <- [c \in Connections |-> Rest(c)]

\* The connections are a Channel, whenever sends fail and shutdown()
\* interferes: whole frames in the order in which they were handed over, none
\* twice, and nothing after a frame that was cut short, so that a reader that
\* follows the length prefixes is never led astray (network.cpp:674-726).
KeepsChannel == Reader!Spec

Ends(p) == {c \in Connections : \E n \in DOMAIN wire[c] : wire[c][n] = <<p, Units>>}

\* As long as shutdown() and send_data() have not overlapped, a batch whose send
\* is counted as an operation is on the wire to its end; a dropped one is not,
\* whatever overlapped (network.cpp:674-738).
SentMeansWhole ==
  \A p \in Payloads :
    /\ ~raced /\ outcome[p] = "sent" => Ends(p) # {}
    /\ outcome[p] = "dropped" => Ends(p) = {}

\* As long as the two have not overlapped, between calls no socket is open but
\* the one in socket_fd_: every way out of connect() and send_data() closes
\* what it opened.
NoSocketLeaks ==
  (\A t \in Threads : pc[t] = "idle") /\ ~raced =>
    \A d \in Descriptors : table[d] \in Connections => d = fd

\* As long as the two have not overlapped, the SDK writes to and closes nothing
\* but its own socket.
NoStrangerTouched == ~raced => ~stranger

\* send_data() returns, whatever fails and whatever shutdown() does, unless
\* the server has stopped reading (there is no time-out of its own) or
\* SIGPIPE has ended the process.
SendReturns ==
  \A t \in Senders :
    pc[t] # "idle" ~> pc[t] = "idle" \/ stalled # {} \/ killed
=============================================================================
