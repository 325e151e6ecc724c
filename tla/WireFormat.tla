----------------------------- MODULE WireFormat -----------------------------
(***************************************************************************)
(* From a call of the application to what the collector reads: the calls   *)
(* of src/src/client.cpp, the items and the properties of                  *)
(* src/src/batch.cpp, Batch::serialize(), the length-prefixed frames of    *)
(* NetworkClient::send_data(), and a collector that follows the schemas of *)
(* src/schema and reads properties with deserialize_properties().          *)
(*                                                                         *)
(* A finished FlatBuffer is one cell of the byte stream that holds its     *)
(* root table; a length prefix and the head of a Batch are cells as well.  *)
(* Reading a root looks at the start of the bytes it is given and nowhere  *)
(* else, which is how a FlatBuffer is read.                                *)
(***************************************************************************)
EXTENDS Integers, Sequences

CONSTANTS
  Calls,    \* calls of event(), event_revenue(), event_advanced() and log_*():
            \* records, each made once
  None,     \* an optional field that was left out
  Null,     \* the value nullptr, and null in JSON
  NaN,      \* a double that is not a number, or infinite
  NotUtf8,  \* a string that is no UTF-8
  MaxTime   \* bound: the clock

Kinds == {"event", "log"}
Times == 0 .. MaxTime

\* A call is [kind, user, name, device, session, stamp, data, own] for an event
\* and [kind, service, level, data, own] for a log: data are the properties it
\* was given, own those it sets itself (the order of event_revenue(), the
\* message of a log).
ASSUME WireAssumption ==
  /\ MaxTime \in Nat
  /\ \A c \in Calls : c.kind \in Kinds
  /\ \A c \in Calls : c.kind = "event" => c.stamp \in Times \union {None}
  /\ Null # NaN

VARIABLES
  clock,   \* now_milliseconds()
  batch,   \* the items of the current batch of a kind, oldest first
  stream,  \* what was written to the connection and not yet read
  given,   \* history: the calls of a kind, each with the time it was made
  failed,  \* history: the calls that came to an exception
  got      \* what the collector has read of a kind

vars == <<clock, batch, stream, given, failed, got>>

TypeOK ==
  /\ clock \in Times
  /\ \A k \in Kinds : /\ Len(batch[k]) <= Len(given[k])
                      /\ Len(got[k]) + Len(batch[k]) <= Len(given[k])
  /\ failed \subseteq Calls

Init ==
  /\ clock = 0
  /\ batch = [k \in Kinds |-> <<>>]
  /\ stream = <<>>
  /\ given = [k \in Kinds |-> <<>>]
  /\ failed = {}
  /\ got = [k \in Kinds |-> <<>>]

-----------------------------------------------------------------------------
(***************************************************************************)
(* Properties and items.                                                   *)
(***************************************************************************)
NoProperties == <<>>

\* What nlohmann::json makes of a value; a string that is no UTF-8 makes dump()
\* throw.
Dumped(v) == IF v = NaN THEN Null ELSE v

Dumps(properties) == \A key \in DOMAIN properties : properties[key] # NotUtf8

\* serialize_properties(): an object, or null when there is nothing in it.
SerializeProperties(properties) ==
  IF DOMAIN properties = {} THEN Null
  ELSE [key \in DOMAIN properties |-> Dumped(properties[key])]

\* deserialize_properties()
DeserializeProperties(json) == IF json = Null THEN NoProperties ELSE json

\* Properties put over others.
Over(top, below) ==
  [key \in DOMAIN top \union DOMAIN below |->
     IF key \in DOMAIN top THEN top[key] ELSE below[key]]

\* Fault: the given properties are put over those of the call.
CombinedUnder(c) == Over(c.data, c.own)

\* The properties of the call are put over those it was given.
Combined(c) == Over(c.own, c.data)

\* An object is not null.
ASSUME ObjectAssumption ==
  \A c \in Calls : [key \in DOMAIN Combined(c) |-> Dumped(Combined(c)[key])] # Null

ItemTime(c) == IF c.stamp = None THEN clock ELSE c.stamp

\* EventBatchItem and LogBatchItem.
Item(c) ==
  IF c.kind = "event"
  THEN [user |-> c.user, name |-> c.name, device |-> c.device,
        session |-> c.session, time |-> ItemTime(c),
        payload |-> SerializeProperties(Combined(c))]
  ELSE [service |-> c.service, level |-> c.level, time |-> clock,
        payload |-> SerializeProperties(Combined(c))]

\* The Event table; there is no field for user_id_.
EventTable(item) ==
  [time |-> item.time, device |-> item.device, session |-> item.session,
   name |-> item.name, payload |-> item.payload]

\* The LogEntry table, made when the batch is serialized.
LogTable(item) ==
  [service |-> item.service, level |-> item.level, time |-> clock,
   payload |-> item.payload]

-----------------------------------------------------------------------------
(***************************************************************************)
(* Batch::serialize() and the frame of send_data().                        *)
(***************************************************************************)
Buffer(tables) == [what |-> "buffer", root |-> tables]

\* Fault: log items are serialized one by one, as events are.
DataOneByOne(k, items) ==
  [n \in DOMAIN items |->
     Buffer(<<IF k = "event" THEN EventTable(items[n]) ELSE LogTable(items[n])>>)]

\* Every event is serialized on its own and the bytes are put one after the
\* other; logs share one LogData.
Data(k, items) ==
  IF k = "event"
  THEN [n \in DOMAIN items |-> Buffer(<<EventTable(items[n])>>)]
  ELSE <<Buffer([n \in DOMAIN items |-> LogTable(items[n])])>>

BatchHead(k) == [what |-> "head", schema |-> k]

Serialized(k, items) == <<BatchHead(k)>> \o Data(k, items)

Framed(data) == <<[what |-> "length", value |-> Len(data)]>> \o data

-----------------------------------------------------------------------------
(***************************************************************************)
(* The steps.                                                              *)
(***************************************************************************)
Tick ==
  /\ clock < MaxTime
  /\ clock' = clock + 1
  /\ UNCHANGED <<batch, stream, given, failed, got>>

Made(c) ==
  c \in failed \/ \E n \in DOMAIN given[c.kind] : given[c.kind][n].call = c

Call(c) ==
  /\ ~Made(c)
  /\ Dumps(Combined(c))
  /\ batch' = [batch EXCEPT ![c.kind] = Append(@, Item(c))]
  /\ given' = [given EXCEPT ![c.kind] = Append(@, [call |-> c, at |-> clock])]
  /\ UNCHANGED <<clock, stream, failed, got>>

\* serialize_properties() throws, and the call catches it and reports: there
\* is no item.
CallFails(c) ==
  /\ ~Made(c)
  /\ ~Dumps(Combined(c))
  /\ failed' = failed \union {c}
  /\ UNCHANGED <<clock, batch, stream, given, got>>

SendBatch(k) ==
  /\ batch[k] # <<>>
  /\ stream' = stream \o Framed(Serialized(k, batch[k]))
  /\ batch' = [batch EXCEPT ![k] = <<>>]
  /\ UNCHANGED <<clock, given, failed, got>>

\* The root table of the bytes is that of their first buffer.
Root(data) == Head(data).root

\* A reader takes a length, then as much as it says.
FrameArrived ==
  /\ stream # <<>>
  /\ Head(stream).what = "length"
  /\ Len(stream) > Head(stream).value

Collect ==
  /\ FrameArrived
  /\ LET n == Head(stream).value
         frame == SubSeq(stream, 2, n + 1)
         k == Head(frame).schema
     IN  /\ got' = [got EXCEPT ![k] = @ \o Root(Tail(frame))]
         /\ stream' = SubSeq(stream, n + 2, Len(stream))
  /\ UNCHANGED <<clock, batch, given, failed>>

Next ==
  \/ Tick
  \/ \E c \in Calls : Call(c) \/ CallFails(c)
  \/ \E k \in Kinds : SendBatch(k)
  \/ Collect

Spec == Init /\ [][Next]_vars

FairSpec == Spec /\ (\A k \in Kinds : WF_vars(SendBatch(k))) /\ WF_vars(Collect)

-----------------------------------------------------------------------------
(***************************************************************************)
(* Properties.                                                             *)
(***************************************************************************)
\* The reader always stands at the start of a frame, so that everything that
\* was sent can be read.
StreamInStep ==
  stream # <<>> => /\ Head(stream).what = "length"
                   /\ FrameArrived
                   /\ stream[2].what = "head"

\* What is read is what the call set itself and, for the other keys, what it
\* was given; there is no way to write a number that is none.
ReadAs(c, read) ==
  /\ DOMAIN read = DOMAIN c.own \union DOMAIN c.data
  /\ \A key \in DOMAIN read :
       LET v == IF key \in DOMAIN c.own THEN c.own[key] ELSE c.data[key]
       IN  read[key] = IF v = NaN THEN Null ELSE v

LogsInOrder ==
  /\ Len(got["log"]) <= Len(given["log"])
  /\ \A n \in DOMAIN got["log"] :
       LET l == got["log"][n]
           c == given["log"][n].call
       IN  /\ l.service = c.service /\ l.level = c.level
           /\ ReadAs(c, DeserializeProperties(l.payload))

\* In the end the collector has read every log that did not come to an
\* exception, with its message and its data, each in the place in which it was
\* written, whatever batches they were sent in.  Nothing takes back what was
\* read, so that the order holds all the way.
LogsAllArrive == <>[](Len(got["log"]) = Len(given["log"]) /\ LogsInOrder)

TimeOf(g) == IF g.call.stamp = None THEN g.at ELSE g.call.stamp

\* An event that arrives carries the device, session and name it was tracked
\* with, the time of the call unless another was given, and its properties: an
\* order of event_revenue() is the one that was passed, whatever the properties
\* say (client.cpp:91-112, batch.cpp:46-59, 953-1030).
EventsUnchanged ==
  \A n \in DOMAIN got["event"] :
    LET e == got["event"][n]
    IN  \E m \in DOMAIN given["event"] :
          LET g == given["event"][m]
          IN  /\ e.device = g.call.device /\ e.session = g.call.session
              /\ e.name = g.call.name
              /\ e.time = TimeOf(g)
              /\ ReadAs(g.call, DeserializeProperties(e.payload))
=============================================================================
