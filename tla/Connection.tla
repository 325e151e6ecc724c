----------------------------- MODULE Connection -----------------------------
(***************************************************************************)
(* Connection of src/src/network.cpp: one TCP socket behind one mutex.     *)
(* Every call runs its body on a std::async thread; the caller waits for   *)
(* it with a timeout, but the destructor of the future waits for the body  *)
(* to end, so a call comes back only after its body has.  A caller and its *)
(* async thread are therefore one thread here, with a flag that says that  *)
(* the timeout passed meanwhile.                                           *)
(*                                                                         *)
(* connect() and send() keep the mutex over several steps; the bodies that *)
(* take it for one look or one change are single actions.                  *)
(***************************************************************************)
EXTENDS Integers, Sequences, FiniteSets

CONSTANTS
  Threads,         \* callers of the connection
  Payloads,        \* what they send, each once
  Units,           \* pieces the kernel may take a payload in
  MaxSockets,      \* bound: sockets created
  ConnectResults,  \* of "ok" and "fails": what connecting may come to
  SendResults,     \* of "ok" and "aborts" (time-out, or an errno that says
                   \* nothing of the connection): what sending may come to
                   \* while the peer's end is there
  PeerEnds,        \* of "closed", "lost" and "reset": how the peer may end
  Nobody           \* not a thread

ASSUME ConnectionAssumption ==
  /\ Units \in Nat \ {0}
  /\ MaxSockets \in Nat
  /\ Nobody \notin Threads
  /\ ConnectResults \subseteq {"ok", "fails"}
  /\ SendResults \subseteq {"ok", "aborts"}
  /\ PeerEnds \subseteq {"closed", "lost", "reset"}

Sockets == 1 .. MaxSockets
NoSocket == 0

VARIABLES
  state,    \* state_
  fd,       \* socket_fd_
  open,     \* descriptors the process has open
  created,  \* sockets created so far
  peer,     \* the other end of each socket, see Ends
  vain,     \* history: sends that began on a socket whose other end was gone
  wire,     \* what has been written to a socket: <<payload, unit>> pairs
  owner,    \* the holder of mutex_
  pc,       \* where the body of a thread's call is
  arg,      \* the payload of a send
  done,     \* units of it sent so far
  late,     \* the caller's time-out has passed
  told      \* history: what send() came to for a payload

socket == <<state, fd, open, created, peer, vain>>
calls == <<arg, done, told>>
vars == <<state, fd, open, created, peer, vain, wire, owner, pc, arg, done,
          late, told>>

\* The peer's end: it reads and may write; it has closed, and its kernel may
\* still take data; it was lost, with an error pending that is neither EPIPE
\* nor ECONNRESET (ETIMEDOUT, EHOSTUNREACH); it has reset the connection, which
\* is pending as ECONNRESET; it is gone, and the error has been reported.
Ends == {"reads", "closed", "lost", "reset", "gone"}
Dead == {"lost", "reset", "gone"}

\* "relock" is the call of disconnect_internal() with mutex_ held.
Steps == {"idle", "connect", "connecting", "relock", "send", "sending",
          "receive", "disconnect", "returned", "threw"}

TypeOK ==
  /\ state \in {"DISCONNECTED", "CONNECTING", "CONNECTED", "FAILED"}
  /\ fd \in Sockets \union {NoSocket}
  /\ open \subseteq Sockets
  /\ created \in 0 .. MaxSockets
  /\ peer \in [Sockets -> Ends]
  /\ vain \in [Sockets -> Nat]
  /\ wire \in [Sockets -> Seq(Payloads \X (1 .. Units))]
  /\ owner \in Threads \union {Nobody}
  /\ pc \in [Threads -> Steps]
  /\ arg \in [Threads -> Payloads \union {"none"}]
  /\ done \in [Threads -> 0 .. Units]
  /\ late \in [Threads -> BOOLEAN]
  /\ told \in [Payloads -> {"unsent", "called", "ok", "error", "timeout"}]

Init ==
  /\ state = "DISCONNECTED"
  /\ fd = NoSocket
  /\ open = {}
  /\ created = 0
  /\ peer = [s \in Sockets |-> "reads"]
  /\ vain = [s \in Sockets |-> 0]
  /\ wire = [s \in Sockets |-> <<>>]
  /\ owner = Nobody
  /\ pc = [t \in Threads |-> "idle"]
  /\ arg = [t \in Threads |-> "none"]
  /\ done = [t \in Threads |-> 0]
  /\ late = [t \in Threads |-> FALSE]
  /\ told = [p \in Payloads |-> "unsent"]

Goto(t, step) == pc' = [pc EXCEPT ![t] = step]

-----------------------------------------------------------------------------
(***************************************************************************)
(* The calls begin: std::async starts the body.                            *)
(***************************************************************************)
Call(t, step) ==
  /\ pc[t] = "idle"
  /\ Goto(t, step)
  /\ late' = [late EXCEPT ![t] = FALSE]
  /\ UNCHANGED <<socket, wire, owner>>

\* Bound: each connect that has begun may create a socket.
CallConnect(t) ==
  /\ created + Cardinality({u \in Threads : pc[u] = "connect"}) < MaxSockets
  /\ Call(t, "connect")
  /\ UNCHANGED calls

CallReceive(t) == Call(t, "receive") /\ UNCHANGED calls
CallDisconnect(t) == Call(t, "disconnect") /\ UNCHANGED calls

CallSend(t, p) ==
  /\ told[p] = "unsent"
  /\ Call(t, "send")
  /\ arg' = [arg EXCEPT ![t] = p]
  /\ done' = [done EXCEPT ![t] = 0]
  /\ told' = [told EXCEPT ![p] = "called"]

-----------------------------------------------------------------------------
(***************************************************************************)
(* connect_internal().                                                     *)
(***************************************************************************)
ConnectAlready(t) ==
  /\ pc[t] = "connect"
  /\ owner = Nobody
  /\ state = "CONNECTED"
  /\ Goto(t, "returned")
  /\ UNCHANGED <<socket, wire, owner, calls, late>>

\* socket_fd_ is assigned, whatever it held.
ConnectSocket(t) ==
  /\ pc[t] = "connect"
  /\ owner = Nobody
  /\ state # "CONNECTED"
  /\ owner' = t
  /\ state' = "CONNECTING"
  /\ created' = created + 1
  /\ fd' = created + 1
  /\ open' = open \union {created + 1}
  /\ Goto(t, "connecting")
  /\ UNCHANGED <<peer, vain, wire, calls, late>>

\* socket() returns -1.
ConnectNoSocket(t) ==
  /\ pc[t] = "connect"
  /\ owner = Nobody
  /\ state # "CONNECTED"
  /\ "fails" \in ConnectResults
  /\ owner' = t
  /\ state' = "FAILED"
  /\ fd' = NoSocket
  /\ Goto(t, "relock")
  /\ UNCHANGED <<open, created, peer, vain, wire, calls, late>>

Connected(t) ==
  /\ pc[t] = "connecting"
  /\ "ok" \in ConnectResults
  /\ state' = "CONNECTED"
  /\ owner' = Nobody
  /\ Goto(t, "returned")
  /\ UNCHANGED <<fd, open, created, peer, vain, wire, calls, late>>

\* The handler calls disconnect_internal(), which locks mutex_ again: the
\* thread waits for itself.
ConnectFails(t) ==
  /\ pc[t] = "connecting"
  /\ "fails" \in ConnectResults
  /\ state' = "FAILED"
  /\ Goto(t, "relock")
  /\ UNCHANGED <<fd, open, created, peer, vain, wire, owner, calls, late>>

-----------------------------------------------------------------------------
(***************************************************************************)
(* send_internal().                                                        *)
(***************************************************************************)
SendRefused(t) ==
  /\ pc[t] = "send"
  /\ owner = Nobody
  /\ state # "CONNECTED"
  /\ Goto(t, "threw")
  /\ UNCHANGED <<socket, wire, owner, calls, late>>

\* Fault: senders share the mutex.
SendLocksShared(t) ==
  /\ pc[t] = "send"
  /\ owner = Nobody \/ \E u \in Threads : owner = u /\ pc[u] = "sending"
  /\ state = "CONNECTED"
  /\ owner' = t
  /\ Goto(t, "sending")
  /\ UNCHANGED <<socket, wire, calls, late>>

SendLocks(t) ==
  /\ pc[t] = "send"
  /\ owner = Nobody
  /\ state = "CONNECTED"
  /\ owner' = t
  /\ vain' = [vain EXCEPT ![fd] = @ + IF peer[fd] \in Dead THEN 1 ELSE 0]
  /\ Goto(t, "sending")
  /\ UNCHANGED <<state, fd, open, created, peer, wire, calls, late>>

\* Fault: send() trusts the first call of the kernel.
SendUnitTrusting(t) ==
  /\ pc[t] = "sending"
  /\ "ok" \in SendResults
  /\ peer[fd] \notin Dead
  /\ wire' = [wire EXCEPT ![fd] = Append(@, <<arg[t], done[t] + 1>>)]
  /\ done' = [done EXCEPT ![t] = @ + 1]
  /\ owner' = Nobody
  /\ Goto(t, "returned")
  /\ UNCHANGED <<socket, arg, told, late>>

\* The kernel takes the next piece; with the last one send() returns.
SendUnit(t) ==
  /\ pc[t] = "sending"
  /\ "ok" \in SendResults
  /\ peer[fd] \notin Dead
  /\ wire' = [wire EXCEPT ![fd] = Append(@, <<arg[t], done[t] + 1>>)]
  /\ done' = [done EXCEPT ![t] = @ + 1]
  /\ IF done[t] + 1 = Units
     THEN owner' = Nobody /\ Goto(t, "returned")
     ELSE UNCHANGED <<owner, pc>>
  /\ UNCHANGED <<socket, arg, told, late>>

\* Fault: a time-out is taken for the end of the connection.
SendAbortsFailed(t) ==
  /\ pc[t] = "sending"
  /\ "aborts" \in SendResults
  /\ peer[fd] \notin Dead
  /\ state' = "FAILED"
  /\ owner' = Nobody
  /\ Goto(t, "threw")
  /\ UNCHANGED <<fd, open, created, peer, vain, wire, calls, late>>

\* poll() or the elapsed time says send_timeout is over, or send() sets an
\* errno other than those of a broken connection: state_ stays CONNECTED.
\* The elapsed time is looked at after a piece, the last one included.
SendAborts(t) ==
  /\ pc[t] = "sending"
  /\ "aborts" \in SendResults
  /\ peer[fd] \notin Dead
  /\ \/ UNCHANGED <<wire, done>>
     \/ /\ wire' = [wire EXCEPT ![fd] = Append(@, <<arg[t], done[t] + 1>>)]
        /\ done' = [done EXCEPT ![t] = @ + 1]
  /\ owner' = Nobody
  /\ Goto(t, "threw")
  /\ UNCHANGED <<socket, arg, told, late>>

\* send() reports an error of the socket that is not one of a broken pipe:
\* state_ stays CONNECTED, and the kernel reports the error no more.
SendError(t) ==
  /\ pc[t] = "sending"
  /\ peer[fd] = "lost"
  /\ peer' = [peer EXCEPT ![fd] = "gone"]
  /\ owner' = Nobody
  /\ Goto(t, "threw")
  /\ UNCHANGED <<state, fd, open, created, vain, wire, calls, late>>

\* Fault: a broken connection is still called connected.
SendBreaksQuietly(t) ==
  /\ pc[t] = "sending"
  /\ peer[fd] \in {"reset", "gone"}
  /\ peer' = [peer EXCEPT ![fd] = "gone"]
  /\ owner' = Nobody
  /\ Goto(t, "threw")
  /\ UNCHANGED <<state, fd, open, created, vain, wire, calls, late>>

\* ECONNRESET or EPIPE.
SendBreaks(t) ==
  /\ pc[t] = "sending"
  /\ peer[fd] \in {"reset", "gone"}
  /\ peer' = [peer EXCEPT ![fd] = "gone"]
  /\ state' = "FAILED"
  /\ owner' = Nobody
  /\ Goto(t, "threw")
  /\ UNCHANGED <<fd, open, created, vain, wire, calls, late>>

-----------------------------------------------------------------------------
(***************************************************************************)
(* receive_internal() and disconnect_internal().                           *)
(***************************************************************************)
\* Data, nothing yet, a time-out, or not connected: nothing changes.
Receive(t) ==
  /\ pc[t] = "receive"
  /\ owner = Nobody
  /\ \E step \in {"returned", "threw"} :
       /\ state # "CONNECTED" => step = "threw"
       /\ Goto(t, step)
  /\ UNCHANGED <<socket, wire, owner, calls, late>>

\* recv() reports the pending error, ECONNRESET as well as any other:
\* state_ stays CONNECTED.
ReceiveError(t) ==
  /\ pc[t] = "receive"
  /\ owner = Nobody
  /\ state = "CONNECTED"
  /\ peer[fd] \in {"lost", "reset"}
  /\ peer' = [peer EXCEPT ![fd] = "gone"]
  /\ Goto(t, "threw")
  /\ UNCHANGED <<state, fd, open, created, vain, wire, owner, calls, late>>

\* recv() returns 0.
ReceiveClosed(t) ==
  /\ pc[t] = "receive"
  /\ owner = Nobody
  /\ state = "CONNECTED"
  /\ peer[fd] \in {"closed", "gone"}
  /\ state' = "FAILED"
  /\ Goto(t, "threw")
  /\ UNCHANGED <<fd, open, created, peer, vain, wire, owner, calls, late>>

Disconnect(t) ==
  /\ pc[t] = "disconnect"
  /\ owner = Nobody
  /\ open' = open \ {fd}
  /\ fd' = NoSocket
  /\ state' = "DISCONNECTED"
  /\ Goto(t, "returned")
  /\ UNCHANGED <<created, peer, vain, wire, owner, calls, late>>

-----------------------------------------------------------------------------
(***************************************************************************)
(* The caller's side.                                                      *)
(***************************************************************************)
\* wait_for() gives up; the future is destroyed, which waits for the body.
TimeOut(t) ==
  /\ pc[t] \notin {"idle", "disconnect"}
  /\ ~late[t]
  /\ late' = [late EXCEPT ![t] = TRUE]
  /\ UNCHANGED <<socket, wire, owner, pc, calls>>

Outcome(t) ==
  IF late[t] THEN "timeout" ELSE IF pc[t] = "returned" THEN "ok" ELSE "error"

Return(t) ==
  /\ pc[t] \in {"returned", "threw"}
  /\ told' = IF arg[t] = "none" THEN told
             ELSE [told EXCEPT ![arg[t]] = Outcome(t)]
  /\ arg' = [arg EXCEPT ![t] = "none"]
  /\ Goto(t, "idle")
  /\ UNCHANGED <<socket, wire, owner, done, late>>

-----------------------------------------------------------------------------
(***************************************************************************)
(* The peer and the network between.                                       *)
(***************************************************************************)
\* Once closed, lost or reset, an end comes back no more.
PeerGoes(s, end) ==
  /\ s \in open
  /\ peer[s] \in (IF end = "closed" THEN {"reads"} ELSE {"reads", "closed"})
  /\ peer' = [peer EXCEPT ![s] = end]
  /\ UNCHANGED <<state, fd, open, created, vain, wire, owner, pc, calls, late>>

-----------------------------------------------------------------------------
Body(t) ==
  \/ ConnectAlready(t) \/ ConnectSocket(t) \/ ConnectNoSocket(t)
  \/ Connected(t) \/ ConnectFails(t)
  \/ SendRefused(t) \/ SendLocks(t) \/ SendUnit(t) \/ SendAborts(t)
  \/ SendError(t) \/ SendBreaks(t)
  \/ Receive(t) \/ ReceiveError(t) \/ ReceiveClosed(t) \/ Disconnect(t)

Next ==
  \/ \E s \in Sockets, end \in PeerEnds : PeerGoes(s, end)
  \/ \E t \in Threads :
       \/ CallConnect(t) \/ CallReceive(t) \/ CallDisconnect(t)
       \/ \E p \in Payloads : CallSend(t, p)
       \/ Body(t)
       \/ TimeOut(t)
       \/ Return(t)

Spec == Init /\ [][Next]_vars

\* The operating system runs the async threads, gives mutex_ to each thread
\* that keeps asking for it, and ends system calls at their time-outs.
FairSpec ==
  /\ Spec
  /\ \A t \in Threads : SF_vars(Body(t)) /\ WF_vars(Return(t))

-----------------------------------------------------------------------------
(***************************************************************************)
(* Properties.                                                             *)
(***************************************************************************)
\* state_ and socket_fd_ agree: CONNECTED is only said of an open socket, and
\* DISCONNECTED means that none is held.  connect() drops the descriptor of a
\* FAILED connection without closing it, which loses descriptors but never a
\* connection that is alive: FAILED is only said when the peer has ended it.
StateMatchesSocket ==
  /\ state = "CONNECTED" => fd \in open
  /\ state = "DISCONNECTED" => fd = NoSocket
  /\ fd # NoSocket => fd \in open
  /\ \A s \in open \ {fd} : peer[s] # "reads"

\* state_ goes on saying CONNECTED of a connection that is dead, even after
\* receive() or send() has reported the error; but only one send() can begin
\* on it and end with state_ still CONNECTED, whatever reports what first.
BreakNoticed ==
  (state = "CONNECTED" /\ \A t \in Threads : pc[t] # "sending") => vain[fd] <= 1

\* The pieces of a payload follow each other on the wire: two sends never
\* mix, whichever threads they come from and however they end.
PiecesTogether ==
  \A s \in Sockets : \A n \in DOMAIN wire[s] :
    LET piece == wire[s][n]
    IN  piece[2] > 1 => /\ n > 1
                        /\ wire[s][n - 1] = <<piece[1], piece[2] - 1>>

WholeOn(p, s) == \E n \in DOMAIN wire[s] : wire[s][n] = <<p, Units>>

\* send() returns normally only after the kernel took the whole payload.
OkMeansWritten == \A p \in Payloads : told[p] = "ok" => \E s \in Sockets : WholeOn(p, s)

\* Every call returns, as long as connecting succeeds.
CallsReturn == \A t \in Threads : pc[t] # "idle" ~> pc[t] = "idle"

=============================================================================
