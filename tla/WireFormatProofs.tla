-------------------------- MODULE WireFormatProofs --------------------------
(***************************************************************************)
(* What TLAPS proves of WireFormat, for any calls, any properties and any  *)
(* splitting into batches: the reader stays in step with the writer, what  *)
(* arrives is what was passed, and logs arrive in the order of their calls.*)
(***************************************************************************)
EXTENDS WireFormat, TLAPS

-----------------------------------------------------------------------------
(***************************************************************************)
(* The inductive invariant.                                                *)
(***************************************************************************)
IsSeq(s) == \E S : s \in Seq(S)

ShapeOK ==
  /\ batch = [k \in Kinds |-> batch[k]] /\ \A k \in Kinds : IsSeq(batch[k])
  /\ given = [k \in Kinds |-> given[k]] /\ \A k \in Kinds : IsSeq(given[k])
  /\ got = [k \in Kinds |-> got[k]] /\ \A k \in Kinds : IsSeq(got[k])
  /\ IsSeq(stream)

\* How many calls of a kind were made, wait in the batch and were read.
Given(k) == Len(given[k])
Waiting(k) == Len(batch[k])
Read(k) == Len(got[k])

\* What a log item, a LogEntry, an event item and an Event table say of the
\* call they come from.
LogOf(l, g) ==
  /\ l.service = g.call.service /\ l.level = g.call.level
  /\ ReadAs(g.call, DeserializeProperties(l.payload))

EventOf(e, g) ==
  /\ e.device = g.call.device /\ e.session = g.call.session
  /\ e.name = g.call.name
  /\ e.time = TimeOf(g)
  /\ ReadAs(g.call, DeserializeProperties(e.payload))

\* The current batch holds the calls made last, in their order.
BatchesOK ==
  \A k \in Kinds :
    /\ Waiting(k) <= Given(k)
    /\ \A n \in 1 .. Waiting(k) :
         LET g == given[k][Given(k) - Waiting(k) + n]
         IN  IF k = "event" THEN EventOf(batch[k][n], g) ELSE LogOf(batch[k][n], g)

SomeEvent(e) == \E n \in 1 .. Given("event") : EventOf(e, given["event"][n])

\* A frame of n cells starts at p: a length, a head, and buffers of which the
\* first says what its calls were.  logs tells how many logs there were before
\* each start of a frame.
FrameAt(logs, p) ==
  LET n == stream[p].value
      root == stream[p + 2].root
  IN  /\ stream[p].what = "length" /\ n \in Nat /\ n >= 2
      /\ p + n + 1 \in DOMAIN logs
      /\ stream[p + 1].what = "head" /\ stream[p + 1].schema \in Kinds
      /\ IsSeq(root)
      /\ stream[p + 1].schema = "event" =>
           /\ logs[p + n + 1] = logs[p]
           /\ \A i \in 1 .. Len(root) : SomeEvent(root[i])
      /\ stream[p + 1].schema = "log" =>
           /\ logs[p + n + 1] = logs[p] + Len(root)
           /\ \A i \in 1 .. Len(root) : LogOf(root[i], given["log"][logs[p] + i])

\* The stream is one frame after the other, with the logs between those that
\* were read and those that wait.
Frames(logs) ==
  /\ \A p \in DOMAIN logs : p \in 1 .. Len(stream) + 1 /\ logs[p] \in Nat
  /\ \A p \in DOMAIN logs : logs[p] + Waiting("log") <= Given("log")
  /\ 1 \in DOMAIN logs /\ logs[1] = Read("log")
  /\ Len(stream) + 1 \in DOMAIN logs
  /\ logs[Len(stream) + 1] + Waiting("log") = Given("log")
  /\ \A p \in DOMAIN logs : p <= Len(stream) => FrameAt(logs, p)

StreamOK == \E logs : Frames(logs)

ReadOK ==
  /\ \A n \in 1 .. Read("event") : SomeEvent(got["event"][n])
  /\ \A n \in 1 .. Read("log") : LogOf(got["log"][n], given["log"][n])

Inv ==
  /\ ShapeOK
  /\ BatchesOK
  /\ StreamOK
  /\ ReadOK

-----------------------------------------------------------------------------
(***************************************************************************)
(* Sequences of anything.                                                  *)
(***************************************************************************)
LEMMA SeqOf ==
  ASSUME NEW s, IsSeq(s)
  PROVE  Len(s) \in Nat /\ DOMAIN s = 1 .. Len(s)
  BY DEF IsSeq

LEMMA Appended ==
  ASSUME NEW s, IsSeq(s), NEW x
  PROVE  /\ IsSeq(Append(s, x)) /\ Len(Append(s, x)) = Len(s) + 1
         /\ \A n \in 1 .. Len(s) : Append(s, x)[n] = s[n]
         /\ Append(s, x)[Len(s) + 1] = x
  <1>1. PICK S : s \in Seq(S)
    BY DEF IsSeq
  <1>2. s \in Seq(S \union {x})
    BY <1>1
  <1>3. Append(s, x) \in Seq(S \union {x})
    BY <1>2
  <1> QED
    BY <1>2, <1>3 DEF IsSeq

Joins(u, s, t) ==
  /\ IsSeq(u) /\ Len(u) = Len(s) + Len(t)
  /\ \A n \in 1 .. Len(s) : u[n] = s[n]
  /\ \A n \in 1 .. Len(t) : u[Len(s) + n] = t[n]

LEMMA Joined ==
  ASSUME NEW s, IsSeq(s), NEW t, IsSeq(t)
  PROVE  Joins(s \o t, s, t)
  <1>1. PICK S, T : s \in Seq(S) /\ t \in Seq(T)
    BY DEF IsSeq
  <1>2. s \in Seq(S \union T) /\ t \in Seq(S \union T)
    BY <1>1
  <1>3. s \o t \in Seq(S \union T)
    BY <1>2
  <1> QED
    BY <1>2, <1>3 DEF IsSeq, Joins

LEMMA CutFrom ==
  ASSUME NEW s, IsSeq(s), NEW m \in 1 .. Len(s) + 1
  PROVE  /\ IsSeq(SubSeq(s, m, Len(s))) /\ Len(SubSeq(s, m, Len(s))) = Len(s) - m + 1
         /\ \A n \in 1 .. Len(s) - m + 1 : SubSeq(s, m, Len(s))[n] = s[n + m - 1]
  <1>1. PICK S : s \in Seq(S)
    BY DEF IsSeq
  <1>2. SubSeq(s, m, Len(s)) \in Seq(S)
    BY <1>1
  <1> QED
    BY <1>1, <1>2 DEF IsSeq

-----------------------------------------------------------------------------
(***************************************************************************)
(* Properties and items.                                                   *)
(***************************************************************************)
\* What is read of the properties of a call is what was passed.
LEMMA PropertiesArrive ==
  ASSUME NEW c \in Calls
  PROVE  ReadAs(c, DeserializeProperties(SerializeProperties(Combined(c))))
  <1> DEFINE p == Combined(c)
             o == [key \in DOMAIN p |-> Dumped(p[key])]
  <1>1. /\ DOMAIN p = DOMAIN c.own \union DOMAIN c.data
        /\ \A key \in DOMAIN p :
             p[key] = IF key \in DOMAIN c.own THEN c.own[key] ELSE c.data[key]
    BY DEF Combined, Over
  <1>2. o # Null
    BY ObjectAssumption
  <1>3. CASE DOMAIN p = {}
    <2>1. DeserializeProperties(SerializeProperties(p)) = <<>>
      BY <1>3 DEF DeserializeProperties, SerializeProperties, NoProperties
    <2>2. DOMAIN <<>> = {}
      OBVIOUS
    <2> QED
      BY <1>1, <1>3, <2>1, <2>2 DEF ReadAs
  <1>4. CASE DOMAIN p # {}
    <2>1. DeserializeProperties(SerializeProperties(p)) = o
      BY <1>2, <1>4 DEF DeserializeProperties, SerializeProperties
    <2>2. DOMAIN o = DOMAIN p /\ \A key \in DOMAIN p : o[key] = Dumped(p[key])
      OBVIOUS
    <2> HIDE DEF o, p
    <2> QED
      BY <1>1, <2>1, <2>2 DEF ReadAs, Dumped, p
  <1> QED
    BY <1>3, <1>4

\* An item says what its call said.
LEMMA ItemSays ==
  ASSUME NEW c \in Calls, NEW g, g = [call |-> c, at |-> clock]
  PROVE  IF c.kind = "event" THEN EventOf(Item(c), g) ELSE LogOf(Item(c), g)
  <1>1. g.call = c /\ g.at = clock
    OBVIOUS
  <1>2. CASE c.kind = "event"
    <2>1. /\ Item(c).device = c.device /\ Item(c).session = c.session
          /\ Item(c).name = c.name /\ Item(c).time = ItemTime(c)
          /\ Item(c).payload = SerializeProperties(Combined(c))
      BY <1>2 DEF Item
    <2> QED
      BY <1>1, <1>2, <2>1, PropertiesArrive DEF EventOf, TimeOf, ItemTime
  <1>3. CASE c.kind # "event"
    <2>1. /\ Item(c).service = c.service /\ Item(c).level = c.level
          /\ Item(c).payload = SerializeProperties(Combined(c))
      BY <1>3 DEF Item
    <2> QED
      BY <1>1, <1>3, <2>1, PropertiesArrive DEF LogOf
  <1> QED
    BY <1>2, <1>3

-----------------------------------------------------------------------------
(***************************************************************************)
(* One lemma per action.                                                   *)
(***************************************************************************)
\* What the invariant speaks of does not change.
LEMMA SameInv ==
  Inv /\ UNCHANGED <<batch, stream, given, got>> => Inv'
  <1> SUFFICES ASSUME Inv, UNCHANGED <<batch, stream, given, got>> PROVE Inv'
    OBVIOUS
  <1>1. ShapeOK'
    BY DEF Inv, ShapeOK
  <1>2. BatchesOK' /\ ReadOK'
    BY DEF Inv, BatchesOK, ReadOK, SomeEvent, Given, Waiting, Read
  <1>3. StreamOK'
    <2>1. PICK logs : Frames(logs)
      BY DEF Inv, StreamOK
    <2>2. Frames(logs)'
      BY <2>1 DEF Frames, FrameAt, SomeEvent, Given, Waiting, Read
    <2> QED
      BY <2>2 DEF StreamOK
  <1> QED
    BY <1>1, <1>2, <1>3 DEF Inv

\* Calls that were made stay made, in their order.
GivenKept ==
  \A k \in Kinds :
    /\ Given(k)' \in Nat /\ Given(k) \in Nat
    /\ Given(k) <= Given(k)'
    /\ \A n \in 1 .. Given(k) : given'[k][n] = given[k][n]

LEMMA Counts ==
  ASSUME ShapeOK, NEW k \in Kinds
  PROVE  /\ Given(k) \in Nat /\ Waiting(k) \in Nat /\ Read(k) \in Nat
         /\ IsSeq(given[k]) /\ IsSeq(batch[k]) /\ IsSeq(got[k])
  BY SeqOf DEF ShapeOK, Given, Waiting, Read

LEMMA TwoKinds == "event" \in Kinds /\ "log" \in Kinds
  BY DEF Kinds

\* An event stays that of a call.
StillEvent(e) == \E n \in 1 .. Given("event")' : EventOf(e, given'["event"][n])

LEMMA EventStays ==
  ASSUME GivenKept, NEW e, SomeEvent(e)
  PROVE  StillEvent(e)
  <1>1. PICK n \in 1 .. Given("event") : EventOf(e, given["event"][n])
    BY DEF SomeEvent
  <1>2. n \in 1 .. Given("event")' /\ given'["event"][n] = given["event"][n]
    BY TwoKinds DEF GivenKept
  <1>3. EventOf(e, given'["event"][n])
    BY <1>1, <1>2
  <1> QED
    BY <1>2, <1>3 DEF StillEvent

LEMMA Within ==
  ASSUME NEW a \in Nat, NEW r \in Nat, NEW w \in Nat, NEW m \in Nat,
         a + r + w <= m, NEW i \in 1 .. r
  PROVE  a + i \in 1 .. m
  OBVIOUS

\* A frame says the same at another place in the stream.
LEMMA FrameMoves ==
  ASSUME ShapeOK, GivenKept, NEW logs, Frames(logs),
         NEW p \in DOMAIN logs, p <= Len(stream), NEW n, n = stream[p].value,
         NEW more, NEW q \in Nat,
         stream'[q] = stream[p], stream'[q + 1] = stream[p + 1],
         stream'[q + 2] = stream[p + 2],
         q + n + 1 \in DOMAIN more,
         more[q] = logs[p], more[q + n + 1] = logs[p + n + 1]
  PROVE  FrameAt(more, q)'
  <1> DEFINE root == stream[p + 2].root
  <1>1. FrameAt(logs, p) /\ p \in Nat /\ logs[p] \in Nat
    BY DEF Frames
  <1>2. /\ stream[p].what = "length" /\ n \in Nat /\ n >= 2
        /\ p + n + 1 \in DOMAIN logs
        /\ stream[p + 1].what = "head" /\ stream[p + 1].schema \in Kinds
        /\ IsSeq(root)
        /\ stream[p + 1].schema = "event" =>
             /\ logs[p + n + 1] = logs[p]
             /\ \A i \in 1 .. Len(root) : SomeEvent(root[i])
        /\ stream[p + 1].schema = "log" =>
             /\ logs[p + n + 1] = logs[p] + Len(root)
             /\ \A i \in 1 .. Len(root) : LogOf(root[i], given["log"][logs[p] + i])
    BY <1>1 DEF FrameAt
  <1>3. /\ logs[p + n + 1] \in Nat
        /\ logs[p + n + 1] + Waiting("log") <= Given("log")
    BY <1>2 DEF Frames
  <1>4. Waiting("log") \in Nat /\ Given("log") \in Nat
    BY Counts, TwoKinds
  <1>5. /\ stream'[q].what = "length" /\ stream'[q].value = n
        /\ stream'[q + 1].what = "head" /\ stream'[q + 1].schema = stream[p + 1].schema
        /\ stream'[q + 2].root = root
    BY <1>2
  <1>6. Len(root) \in Nat
    BY <1>2, SeqOf
  <1> HIDE DEF root
  <1>7. stream[p + 1].schema = "event" => \A i \in 1 .. Len(root) : StillEvent(root[i])
    BY <1>2, EventStays
  <1>8. ASSUME stream[p + 1].schema = "log", NEW i \in 1 .. Len(root)
        PROVE  LogOf(root[i], given'["log"][more[q] + i])
    <2>1. /\ logs[p + n + 1] = logs[p] + Len(root)
          /\ LogOf(root[i], given["log"][logs[p] + i])
      BY <1>2, <1>8
    <2>2. logs[p] + i \in 1 .. Given("log")
      <3>1. logs[p] + Len(root) + Waiting("log") <= Given("log")
        BY <1>3, <2>1
      <3> QED
        BY <1>1, <1>4, <1>6, <3>1, Within
    <2>3. given'["log"][logs[p] + i] = given["log"][logs[p] + i]
      BY <2>2, TwoKinds DEF GivenKept
    <2> QED
      BY <2>1, <2>3
  <1> QED
    BY <1>2, <1>5, <1>7, <1>8 DEF FrameAt, SomeEvent, StillEvent

\* A call puts one more item behind the others.
LEMMA CallKeeps ==
  ASSUME Inv, NEW c \in Calls, Call(c)
  PROVE  Inv'
  <1> DEFINE k == c.kind
             g == [call |-> c, at |-> clock]
             b == Append(batch[k], Item(c))
             h == Append(given[k], g)
  <1>1. k \in Kinds /\ ShapeOK /\ BatchesOK
    BY WireAssumption DEF Inv
  <1>2. /\ batch' = [batch EXCEPT ![k] = b] /\ given' = [given EXCEPT ![k] = h]
        /\ stream' = stream /\ got' = got
    BY DEF Call
  <1>3. /\ IsSeq(batch[k]) /\ IsSeq(given[k])
        /\ Waiting(k) \in Nat /\ Given(k) \in Nat
        /\ Waiting(k) <= Given(k)
    BY <1>1, Counts DEF BatchesOK
  <1>4. /\ IsSeq(b) /\ Len(b) = Waiting(k) + 1 /\ b[Waiting(k) + 1] = Item(c)
        /\ \A n \in 1 .. Waiting(k) : b[n] = batch[k][n]
    BY <1>3, Appended DEF Waiting
  <1>5. /\ IsSeq(h) /\ Len(h) = Given(k) + 1 /\ h[Given(k) + 1] = g
        /\ \A n \in 1 .. Given(k) : h[n] = given[k][n]
    BY <1>3, Appended DEF Given
  <1>6. /\ batch'[k] = b /\ given'[k] = h
        /\ \A j \in Kinds : j # k => batch'[j] = batch[j] /\ given'[j] = given[j]
        /\ batch' = [j \in Kinds |-> batch'[j]] /\ given' = [j \in Kinds |-> given'[j]]
    BY <1>1, <1>2 DEF ShapeOK
  <1>7. /\ Waiting(k)' = Len(b) /\ Given(k)' = Len(h)
         /\ \A j \in Kinds : j # k => Waiting(j)' = Waiting(j) /\ Given(j)' = Given(j)
    BY <1>6 DEF Waiting, Given
  <1>8. IF k = "event" THEN EventOf(Item(c), g) ELSE LogOf(Item(c), g)
    BY ItemSays
  <1> HIDE DEF k, g, b, h
  <1>9. ShapeOK'
    BY <1>1, <1>2, <1>4, <1>5, <1>6 DEF ShapeOK
  <1>10. BatchesOK'
    <2> SUFFICES ASSUME NEW j \in Kinds
                 PROVE  /\ Waiting(j)' <= Given(j)'
                        /\ \A n \in 1 .. Waiting(j)' :
                             LET f == given'[j][Given(j)' - Waiting(j)' + n]
                             IN  IF j = "event" THEN EventOf(batch'[j][n], f)
                                                ELSE LogOf(batch'[j][n], f)
      BY DEF BatchesOK
    <2>1. CASE j # k
      BY <1>1, <1>6, <1>7, <2>1 DEF BatchesOK
    <2>2. CASE j = k
      <3>1. Len(b) <= Len(h) /\ Len(h) - Len(b) = Given(k) - Waiting(k)
        BY <1>3, <1>4, <1>5
      <3>2. ASSUME NEW n \in 1 .. Len(b)
            PROVE  IF k = "event" THEN EventOf(b[n], h[Len(h) - Len(b) + n])
                                  ELSE LogOf(b[n], h[Len(h) - Len(b) + n])
        <4>1. CASE n = Waiting(k) + 1
          <5>1. b[n] = Item(c) /\ h[Len(h) - Len(b) + n] = g
            BY <1>3, <1>4, <1>5, <3>1, <4>1
          <5> QED
            BY <1>8, <5>1
        <4>2. CASE n # Waiting(k) + 1
          <5>1. n \in 1 .. Waiting(k)
            BY <1>3, <1>4, <4>2
          <5>2. Len(h) - Len(b) + n \in 1 .. Given(k)
            BY <1>3, <3>1, <5>1
          <5>3. /\ b[n] = batch[k][n]
                /\ h[Len(h) - Len(b) + n] = given[k][Given(k) - Waiting(k) + n]
            BY <1>4, <1>5, <3>1, <5>1, <5>2
          <5> QED
            BY <1>1, <5>1, <5>3 DEF BatchesOK
        <4> QED
          BY <4>1, <4>2
      <3> QED
        BY <1>6, <1>7, <2>2, <3>1, <3>2
    <2> QED
      BY <2>1, <2>2
  <1>11. GivenKept
    <2>1. \A j \in Kinds : Given(j) \in Nat
      BY <1>1, Counts
    <2> SUFFICES ASSUME NEW j \in Kinds
                 PROVE  /\ Given(j)' \in Nat /\ Given(j) <= Given(j)'
                        /\ \A n \in 1 .. Given(j) : given'[j][n] = given[j][n]
      BY <2>1 DEF GivenKept
    <2>2. CASE j = k
      BY <1>3, <1>5, <1>6, <1>7, <2>2
    <2>3. CASE j # k
      BY <1>6, <1>7, <2>1, <2>3
    <2> QED
      BY <2>2, <2>3
  <1>12. StreamOK'
    <2>1. PICK logs : Frames(logs)
      BY DEF Inv, StreamOK
    <2>2. /\ Waiting("log")' - Waiting("log") = Given("log")' - Given("log")
          /\ Waiting("log")' \in Nat /\ Waiting("log") \in Nat
          /\ Given("log")' \in Nat /\ Given("log") \in Nat
      <3>1. CASE k = "log"
        BY <1>3, <1>4, <1>5, <1>7, <3>1
      <3>2. CASE k # "log"
        BY <1>1, <1>7, <3>2, Counts, TwoKinds
      <3> QED
        BY <3>1, <3>2
    <2>3. \A p \in DOMAIN logs : p <= Len(stream) => FrameAt(logs, p)'
      <3> SUFFICES ASSUME NEW p \in DOMAIN logs, p <= Len(stream) PROVE FrameAt(logs, p)'
        OBVIOUS
      <3> DEFINE n == stream[p].value
      <3>1. p \in Nat /\ p + n + 1 \in DOMAIN logs
        <4>1. FrameAt(logs, p) /\ p \in Nat
          BY <2>1 DEF Frames
        <4> QED
          BY <4>1 DEF FrameAt
      <3> QED
        BY <1>1, <1>2, <1>11, <2>1, <3>1, FrameMoves
    <2>4. Read("log")' = Read("log")
      BY <1>2 DEF Read
    <2>5. \A p \in DOMAIN logs : logs[p] \in Nat /\ logs[p] + Waiting("log") <= Given("log")
      BY <2>1 DEF Frames
    <2>6. \A p \in DOMAIN logs : logs[p] + Waiting("log")' <= Given("log")'
      BY <2>2, <2>5
    <2>7. logs[Len(stream) + 1] + Waiting("log")' = Given("log")'
      <3>1. /\ Len(stream) + 1 \in DOMAIN logs
            /\ logs[Len(stream) + 1] + Waiting("log") = Given("log")
        BY <2>1 DEF Frames
      <3> QED
        BY <2>2, <2>5, <3>1
    <2>8. Frames(logs)'
      BY <1>2, <2>1, <2>3, <2>4, <2>6, <2>7 DEF Frames
    <2> QED
      BY <2>8 DEF StreamOK
  <1>13. ReadOK'
    <2>1. Read("event")' = Read("event") /\ Read("log")' = Read("log")
      BY <1>2 DEF Read
    <2>2. \A n \in 1 .. Read("event") : StillEvent(got["event"][n])
      BY <1>11, EventStays DEF Inv, ReadOK
    <2>3. Read("log") + Waiting("log") <= Given("log")
      BY DEF Inv, StreamOK, Frames
    <2>4. Read("log") \in Nat /\ Waiting("log") \in Nat /\ Given("log") \in Nat
      BY <1>1, Counts, TwoKinds
    <2>5. \A n \in 1 .. Read("log") : n \in 1 .. Given("log")
      BY <2>3, <2>4
    <2>6. \A n \in 1 .. Read("log") : given'["log"][n] = given["log"][n]
      BY <1>11, <2>5, TwoKinds DEF GivenKept
    <2> QED
      BY <1>2, <2>1, <2>2, <2>6 DEF Inv, ReadOK, SomeEvent, StillEvent
  <1> QED
    BY <1>9, <1>10, <1>12, <1>13 DEF Inv

\* The first cells of a frame, and what the first buffer says.
RootOf(k, items) ==
  IF k = "event" THEN <<EventTable(items[1])>>
  ELSE [n \in DOMAIN items |-> LogTable(items[n])]

LEMMA FrameOf ==
  ASSUME NEW k \in Kinds, NEW items, IsSeq(items), items # <<>>
  PROVE  LET data == Framed(Serialized(k, items))
             n == Len(data) - 1
         IN  /\ IsSeq(data) /\ Len(data) \in Nat /\ Len(data) >= 3
             /\ data[1] = [what |-> "length", value |-> n]
             /\ data[2] = BatchHead(k)
             /\ data[3] = Buffer(RootOf(k, items))
             /\ IsSeq(RootOf(k, items))
             /\ Len(RootOf(k, items)) = IF k = "event" THEN 1 ELSE Len(items)
  <1> DEFINE d == Data(k, items)
             h == <<BatchHead(k)>>
             l == <<[what |-> "length", value |-> Len(h \o d)]>>
             root == RootOf(k, items)
  <1>1. Len(items) \in Nat /\ DOMAIN items = 1 .. Len(items) /\ Len(items) >= 1
    <2>1. PICK S : items \in Seq(S)
      BY DEF IsSeq
    <2> QED
      BY <2>1
  <1>2. IsSeq(root) /\ Len(root) = IF k = "event" THEN 1 ELSE Len(items)
    <2>1. CASE k = "event"
      <3>1. root = <<EventTable(items[1])>>
        BY <2>1 DEF RootOf
      <3>2. root \in Seq({EventTable(items[1])}) /\ Len(root) = 1
        BY <3>1
      <3> QED
        BY <2>1, <3>2 DEF IsSeq
    <2>2. CASE k # "event"
      <3>1. root = [n \in 1 .. Len(items) |-> LogTable(items[n])]
        BY <1>1, <2>2 DEF RootOf
      <3>2. root \in Seq({LogTable(items[n]) : n \in 1 .. Len(items)}) /\ Len(root) = Len(items)
        BY <1>1, <3>1
      <3> QED
        BY <2>2, <3>2 DEF IsSeq
    <2> QED
      BY <2>1, <2>2
  <1>3. IsSeq(d) /\ Len(d) \in Nat /\ Len(d) >= 1 /\ d[1] = Buffer(root)
    <2>1. CASE k = "event"
      <3>1. d = [n \in 1 .. Len(items) |-> Buffer(<<EventTable(items[n])>>)]
        BY <1>1, <2>1 DEF Data
      <3>2. /\ d \in Seq({Buffer(<<EventTable(items[n])>>) : n \in 1 .. Len(items)})
            /\ Len(d) = Len(items)
        BY <1>1, <3>1
      <3>3. d[1] = Buffer(root)
        BY <1>1, <2>1, <3>1 DEF RootOf
      <3> QED
        BY <1>1, <3>2, <3>3 DEF IsSeq
    <2>2. CASE k # "event"
      <3>1. d = <<Buffer(root)>>
        BY <2>2 DEF Data, RootOf
      <3> HIDE DEF d
      <3>2. d \in Seq({Buffer(root)}) /\ Len(d) = 1 /\ d[1] = Buffer(root)
        BY <3>1
      <3> QED
        BY <3>2 DEF IsSeq
    <2> QED
      BY <2>1, <2>2
  <1>4. /\ IsSeq(h) /\ Len(h) = 1 /\ h[1] = BatchHead(k)
        /\ IsSeq(l) /\ Len(l) = 1 /\ l[1] = [what |-> "length", value |-> Len(h \o d)]
    <2>1. h \in Seq({BatchHead(k)}) /\ l \in Seq({[what |-> "length", value |-> Len(h \o d)]})
      OBVIOUS
    <2> QED
      BY <2>1 DEF IsSeq
  <1>5. Framed(Serialized(k, items)) = l \o (h \o d)
    BY DEF Framed, Serialized
  <1> DEFINE b == h \o d
             data == Framed(Serialized(k, items))
  <1>6. Joins(b, h, d) /\ l[1].value = Len(b)
    BY <1>3, <1>4, Joined
  <1>7. IsSeq(b)
    BY <1>6 DEF Joins
  <1>8. Joins(data, l, b)
    BY <1>4, <1>5, <1>7, Joined
  <1> HIDE DEF d, h, l, root, b, data
  <1>9. /\ Len(b) \in Nat /\ Len(b) >= 2
        /\ b[1] = BatchHead(k) /\ b[2] = Buffer(root)
    <2>1. /\ Len(b) = 1 + Len(d)
          /\ \A n \in 1 .. 1 : b[n] = h[n]
          /\ \A n \in 1 .. Len(d) : b[1 + n] = d[n]
      BY <1>4, <1>6 DEF Joins
    <2>2. b[1] = h[1] /\ b[1 + 1] = d[1]
      BY <1>3, <2>1
    <2> QED
      BY <1>3, <1>4, <2>1, <2>2
  <1>10. /\ IsSeq(data) /\ Len(data) \in Nat /\ Len(data) >= 3
         /\ data[1] = [what |-> "length", value |-> Len(data) - 1]
         /\ data[2] = BatchHead(k) /\ data[3] = Buffer(root)
    <2>1. /\ IsSeq(data) /\ Len(data) = 1 + Len(b)
          /\ \A n \in 1 .. 1 : data[n] = l[n]
          /\ \A n \in 1 .. Len(b) : data[1 + n] = b[n]
      BY <1>4, <1>8 DEF Joins
    <2>2. data[1] = l[1] /\ data[1 + 1] = b[1] /\ data[1 + 2] = b[2]
      BY <1>9, <2>1
    <2>3. l[1] = [what |-> "length", value |-> Len(b)]
      BY <1>4 DEF b
    <2> QED
      BY <1>9, <2>1, <2>2, <2>3
  <1> QED
    BY <1>2, <1>10 DEF data, root

\* A sent batch is one frame more, and nothing of it waits.
LEMMA SendBatchKeeps ==
  ASSUME Inv, NEW k \in Kinds, SendBatch(k)
  PROVE  Inv'
  <1> DEFINE items == batch[k]
             data == Framed(Serialized(k, items))
             root == RootOf(k, items)
  <1> PICK L : L = Len(stream)
    OBVIOUS
  <1> PICK D : D = Len(data)
    OBVIOUS
  <1>1. /\ items # <<>> /\ stream' = stream \o data
        /\ batch' = [batch EXCEPT ![k] = <<>>]
        /\ given' = given /\ got' = got
    BY DEF SendBatch
  <1>2. ShapeOK /\ BatchesOK /\ ReadOK
    BY DEF Inv
  <1>3. /\ \A j \in Kinds : Given(j)' = Given(j) /\ Read(j)' = Read(j)
        /\ \A j \in Kinds : j # k => Waiting(j)' = Waiting(j) /\ batch'[j] = batch[j]
        /\ batch'[k] = <<>> /\ batch' = [j \in Kinds |-> batch'[j]]
    BY <1>1, <1>2 DEF Given, Read, Waiting, ShapeOK
  <1>4. Waiting(k)' = 0
    BY <1>3 DEF Waiting
  <1>5. /\ IsSeq(data) /\ D \in Nat /\ D >= 3
        /\ data[1] = [what |-> "length", value |-> D - 1]
        /\ data[2] = BatchHead(k)
        /\ data[3] = Buffer(root)
        /\ IsSeq(root) /\ Len(root) = IF k = "event" THEN 1 ELSE Waiting(k)
    <2>1. IsSeq(items)
      BY <1>2, Counts
    <2> HIDE DEF items
    <2>2. /\ IsSeq(data) /\ D \in Nat /\ D >= 3
          /\ data[1] = [what |-> "length", value |-> D - 1]
          /\ data[2] = BatchHead(k)
          /\ data[3] = Buffer(root)
          /\ IsSeq(root) /\ Len(root) = IF k = "event" THEN 1 ELSE Len(items)
      BY <1>1, <2>1, FrameOf
    <2> QED
      BY <2>2 DEF Waiting, items
  <1>6. IsSeq(stream) /\ L = Len(stream) /\ L \in Nat
    BY <1>2, SeqOf DEF ShapeOK
  <1>7. Joins(stream', stream, data)
    BY <1>1, <1>5, <1>6, Joined
  <1> HIDE DEF data
  <1>8. /\ Len(stream') = L + D /\ IsSeq(stream')
        /\ \A n \in 1 .. L : stream'[n] = stream[n]
        /\ \A n \in 1 .. D : stream'[L + n] = data[n]
    BY <1>6, <1>7 DEF Joins
  <1> HIDE DEF items, root
  <1>9. /\ stream'[L + 1] = [what |-> "length", value |-> D - 1]
        /\ stream'[L + 1 + 1] = BatchHead(k) /\ stream'[L + 1 + 2] = Buffer(root)
    <2>1. /\ stream'[L + 1] = data[1] /\ stream'[L + 2] = data[2]
          /\ stream'[L + 3] = data[3]
      BY <1>5, <1>8
    <2>2. L + 1 + 1 = L + 2 /\ L + 1 + 2 = L + 3
      BY <1>6
    <2> QED
      BY <1>5, <2>1, <2>2
  <1>10. GivenKept
    BY <1>1, <1>2, <1>3, Counts DEF GivenKept
  <1>11. ShapeOK'
    <2>1. IsSeq(<<>>)
      BY DEF IsSeq
    <2> QED
      BY <1>1, <1>2, <1>3, <1>8, <2>1 DEF ShapeOK
  <1>12. BatchesOK'
    <2>1. \A j \in Kinds : j # k =>
            /\ Waiting(j)' <= Given(j)'
            /\ \A n \in 1 .. Waiting(j)' :
                 LET g == given'[j][Given(j)' - Waiting(j)' + n]
                 IN  IF j = "event" THEN EventOf(batch'[j][n], g)
                                    ELSE LogOf(batch'[j][n], g)
      BY <1>1, <1>2, <1>3 DEF BatchesOK
    <2>2. Waiting(k)' <= Given(k)' /\ 1 .. Waiting(k)' = {}
      BY <1>2, <1>3, <1>4, Counts
    <2> QED
      BY <2>1, <2>2 DEF BatchesOK
  <1>13. ReadOK'
    <2>1. \A e : SomeEvent(e) => StillEvent(e)
      BY <1>10, EventStays
    <2> QED
      BY <1>1, <1>2, <1>3, <2>1, TwoKinds DEF ReadOK, SomeEvent, StillEvent
  <1>14. StreamOK'
    <2>1. PICK logs : Frames(logs)
      BY DEF Inv, StreamOK
    <2> PICK w : w = Waiting("log")
      OBVIOUS
    <2> DEFINE end == L + D + 1
               more == [p \in DOMAIN logs \union {end} |->
                          IF p \in DOMAIN logs THEN logs[p]
                          ELSE IF k = "log" THEN logs[L + 1] + w
                          ELSE logs[L + 1]]
    <2>2. /\ \A p \in DOMAIN logs : p \in 1 .. L + 1 /\ logs[p] \in Nat
          /\ \A p \in DOMAIN logs : logs[p] + Waiting("log") <= Given("log")
          /\ 1 \in DOMAIN logs /\ logs[1] = Read("log")
          /\ L + 1 \in DOMAIN logs /\ logs[L + 1] + Waiting("log") = Given("log")
      BY <1>6, <2>1 DEF Frames
    <2>3. /\ Waiting("log") \in Nat /\ Given("log") \in Nat
          /\ Given("log")' = Given("log") /\ Read("log")' = Read("log")
          /\ Waiting("log")' = IF k = "log" THEN 0 ELSE Waiting("log")
      BY <1>2, <1>3, <1>4, Counts, TwoKinds
    <2>4. end \in Nat /\ end \notin DOMAIN logs /\ L + 1 < end
      BY <1>5, <1>6, <2>2
    <2>5. /\ DOMAIN more = DOMAIN logs \union {end}
          /\ \A p \in DOMAIN logs : more[p] = logs[p]
          /\ more[end] = IF k = "log" THEN logs[L + 1] + w ELSE logs[L + 1]
          /\ w = Waiting("log")
      BY <2>4
    <2> HIDE DEF more, end
    <2>6. more[end] \in Nat /\ more[end] + Waiting("log")' = Given("log")'
      BY <2>2, <2>3, <2>5
    <2>7. \A p \in DOMAIN logs : p <= L => FrameAt(more, p)'
      <3> SUFFICES ASSUME NEW p \in DOMAIN logs, p <= L PROVE FrameAt(more, p)'
        OBVIOUS
      <3> DEFINE n == stream[p].value
      <3>1. FrameAt(logs, p) /\ p \in 1 .. L
        BY <1>6, <2>1, <2>2 DEF Frames
      <3>2. n \in Nat /\ n >= 2 /\ p + n + 1 \in DOMAIN logs
        BY <3>1 DEF FrameAt
      <3> HIDE DEF n
      <3>3. p + n + 1 \in 1 .. L + 1
        BY <2>2, <3>2
      <3>4. p \in 1 .. L /\ p + 1 \in 1 .. L /\ p + 2 \in 1 .. L
        BY <1>6, <3>1, <3>2, <3>3
      <3>5. /\ stream'[p] = stream[p] /\ stream'[p + 1] = stream[p + 1]
            /\ stream'[p + 2] = stream[p + 2]
        BY <1>8, <3>4
      <3>6. /\ p + n + 1 \in DOMAIN more /\ more[p] = logs[p]
            /\ more[p + n + 1] = logs[p + n + 1]
        BY <2>5, <3>2
      <3>7. p \in Nat /\ p <= Len(stream) /\ n = stream[p].value
        BY <1>6, <3>1 DEF n
      <3> QED
        BY <1>2, <1>10, <2>1, <3>5, <3>6, <3>7, FrameMoves
    <2>8. FrameAt(more, L + 1)'
      <3>1. /\ L + 1 + (D - 1) + 1 = end
            /\ D - 1 \in Nat /\ D - 1 >= 2
        BY <1>5, <1>6 DEF end
      <3>2. /\ stream'[L + 1].what = "length" /\ stream'[L + 1].value = D - 1
            /\ stream'[L + 1 + 1].what = "head" /\ stream'[L + 1 + 1].schema = k
            /\ stream'[L + 1 + 2].root = root
        BY <1>9 DEF BatchHead, Buffer
      <3>3. L + 1 + (D - 1) + 1 \in DOMAIN more /\ more[L + 1] = logs[L + 1]
        BY <2>2, <2>5, <3>1
      <3>4. ASSUME k = "event"
            PROVE  /\ more[L + 1 + (D - 1) + 1] = more[L + 1]
                   /\ \A i \in 1 .. Len(root) : StillEvent(root[i])
        <4>1. more[L + 1 + (D - 1) + 1] = more[L + 1]
          BY <2>5, <3>1, <3>3, <3>4
        <4>2. Len(root) = 1 /\ root[1] = EventTable(batch["event"][1])
          BY <1>5, <3>4 DEF root, RootOf, items
        <4>3. Waiting("event") \in Nat /\ Waiting("event") >= 1 /\ Given("event") \in Nat
          <5>1. IsSeq(batch["event"]) /\ batch["event"] # <<>>
            BY <1>1, <1>2, <3>4, Counts DEF items
          <5>2. PICK S : batch["event"] \in Seq(S)
            BY <5>1 DEF IsSeq
          <5> DEFINE b == batch["event"]
          <5>3. b \in Seq(S) /\ b # <<>>
            BY <5>1, <5>2
          <5> HIDE DEF b
          <5>4. Len(b) \in Nat /\ Len(b) >= 1
            BY <5>3
          <5> QED
            BY <1>2, <5>4, Counts, TwoKinds DEF Waiting, b
        <4>4. /\ Waiting("event") <= Given("event")
              /\ EventOf(batch["event"][1],
                         given["event"][Given("event") - Waiting("event") + 1])
          BY <1>2, <4>3, TwoKinds DEF BatchesOK
        <4>5. SomeEvent(root[1])
          <5>1. Given("event") - Waiting("event") + 1 \in 1 .. Given("event")
            BY <4>3, <4>4
          <5>2. EventOf(root[1], given["event"][Given("event") - Waiting("event") + 1])
            BY <4>2, <4>4 DEF EventOf, EventTable
          <5> QED
            BY <5>1, <5>2 DEF SomeEvent
        <4> QED
          BY <1>10, <4>1, <4>2, <4>5, EventStays
      <3>5. ASSUME k = "log"
            PROVE  /\ more[L + 1 + (D - 1) + 1] = more[L + 1] + Len(root)
                   /\ \A i \in 1 .. Len(root) : LogOf(root[i], given'["log"][more[L + 1] + i])
        <4>1. Len(root) = Waiting("log")
          BY <1>5, <3>5
        <4>2. logs[L + 1] = Given("log") - Waiting("log")
          BY <2>2, <2>3
        <4>3. ASSUME NEW i \in 1 .. Len(root)
              PROVE  LogOf(root[i], given'["log"][more[L + 1] + i])
          <5>1. LogOf(batch["log"][i], given["log"][Given("log") - Waiting("log") + i])
            BY <1>2, <4>1, <4>3, TwoKinds DEF BatchesOK
          <5>2. root[i] = LogTable(batch["log"][i])
            <6>1. root = [n \in DOMAIN batch["log"] |-> LogTable(batch["log"][n])]
              BY <3>5 DEF root, RootOf, items
            <6>2. DOMAIN batch["log"] = 1 .. Waiting("log")
              BY <1>2, Counts, SeqOf, TwoKinds DEF Waiting
            <6> QED
              BY <4>1, <4>3, <6>1, <6>2
          <5>3. LogOf(root[i], given["log"][logs[L + 1] + i])
            BY <4>2, <5>1, <5>2 DEF LogOf, LogTable
          <5> QED
            BY <1>1, <3>3, <5>3
        <4> QED
          BY <2>5, <3>1, <3>3, <3>5, <4>1, <4>3
      <3> QED
        BY <1>5, <3>1, <3>2, <3>3, <3>4, <3>5 DEF FrameAt, SomeEvent, StillEvent
    <2>9. Frames(more)'
      <3>1. \A p \in DOMAIN more : p \in DOMAIN logs \/ p = end
        BY <2>5
      <3>2. \A p \in DOMAIN more : p <= L + D => p = L + 1 \/ (p \in DOMAIN logs /\ p <= L)
        BY <1>5, <1>6, <2>2, <3>1 DEF end
      <3>3. /\ \A p \in DOMAIN more : p \in 1 .. L + D + 1 /\ more[p] \in Nat
            /\ \A p \in DOMAIN more : more[p] + Waiting("log")' <= Given("log")'
        <4>1. \A p \in DOMAIN logs :
                /\ p \in 1 .. L + D + 1 /\ more[p] \in Nat
                /\ more[p] + Waiting("log")' <= Given("log")'
          <5>1. Waiting("log")' \in Nat /\ Waiting("log")' <= Waiting("log")
            BY <2>3
          <5>2. \A p \in DOMAIN logs : p \in 1 .. L + D + 1
            BY <1>5, <1>6, <2>2
          <5> SUFFICES ASSUME NEW p \in DOMAIN logs
                       PROVE  more[p] \in Nat /\ more[p] + Waiting("log")' <= Given("log")'
            BY <5>2
          <5> DEFINE m == logs[p]
          <5>3. m \in Nat /\ m + Waiting("log") <= Given("log") /\ more[p] = m
            BY <2>2, <2>5
          <5> HIDE DEF m
          <5> QED
            BY <2>3, <5>1, <5>3
        <4>2. end \in 1 .. L + D + 1
          BY <1>5, <1>6 DEF end
        <4> QED
          BY <2>3, <2>6, <3>1, <4>1, <4>2
      <3>4. end \in DOMAIN more /\ end = L + D + 1 /\ 1 \in DOMAIN more /\ more[1] = Read("log")'
        BY <2>2, <2>3, <2>5 DEF end
      <3> QED
        BY <1>8, <2>6, <2>7, <2>8, <3>2, <3>3, <3>4 DEF Frames
    <2> QED
      BY <2>9 DEF StreamOK
  <1> QED
    BY <1>11, <1>12, <1>13, <1>14 DEF Inv

\* What the collector takes off the stream is its first frame.
LEMMA FirstFrame ==
  ASSUME Inv, stream # <<>>
  PROVE  /\ IsSeq(stream) /\ Len(stream) \in Nat
         /\ \A logs : Frames(logs) => FrameAt(logs, 1)
         /\ FrameArrived /\ stream[1].value \in Nat /\ stream[1].value >= 2
         /\ stream[1].value + 2 <= Len(stream) + 1
         /\ Head(stream) = stream[1] /\ stream[2].what = "head"
  <1>1. PICK S : stream \in Seq(S)
    BY DEF Inv, ShapeOK, IsSeq
  <1>2. /\ Len(stream) \in Nat /\ 1 <= Len(stream) /\ Head(stream) = stream[1]
        /\ IsSeq(stream)
    BY <1>1 DEF IsSeq
  <1>3. \A logs : Frames(logs) => FrameAt(logs, 1)
    BY <1>2 DEF Frames
  <1>4. PICK logs : Frames(logs)
    BY DEF Inv, StreamOK
  <1>5. FrameAt(logs, 1)
    BY <1>3, <1>4
  <1> DEFINE n == stream[1].value
  <1>6. /\ stream[1].what = "length" /\ n \in Nat /\ n >= 2
        /\ 1 + n + 1 \in DOMAIN logs
        /\ stream[1 + 1].what = "head"
    BY <1>5 DEF FrameAt
  <1>7. 1 + n + 1 \in 1 .. Len(stream) + 1
    BY <1>4, <1>6 DEF Frames
  <1> HIDE DEF n
  <1>8. n + 2 <= Len(stream) + 1 /\ Len(stream) > n
    BY <1>2, <1>6, <1>7
  <1>9. FrameArrived
    BY <1>2, <1>6, <1>8 DEF FrameArrived, n
  <1> QED
    BY <1>2, <1>3, <1>6, <1>8, <1>9 DEF n

\* The second and the third cell are the head and the first buffer.
LEMMA FrameCells ==
  ASSUME NEW s, IsSeq(s), NEW n \in Nat, n >= 2, n < Len(s)
  PROVE  /\ Head(SubSeq(s, 2, n + 1)) = s[2]
         /\ Root(Tail(SubSeq(s, 2, n + 1))) = s[3].root
  <1>1. PICK S : s \in Seq(S)
    BY DEF IsSeq
  <1> DEFINE f == SubSeq(s, 2, n + 1)
  <1>2. f \in Seq(S) /\ Len(f) = n /\ f[1] = s[2] /\ f[2] = s[3]
    BY <1>1
  <1> HIDE DEF f
  <1>3. Head(f) = f[1] /\ Head(Tail(f)) = f[2]
    BY <1>2
  <1> QED
    BY <1>2, <1>3 DEF Root, f

\* A frame of m cells at p of what is left was at q, and ends where it ended.
Shift(L, n, m, p, q) ==
  /\ p \in 1 .. L - (n + 2) + 1 /\ p + 1 \in 1 .. L - (n + 2) + 1
  /\ p + 2 \in 1 .. L - (n + 2) + 1
  /\ p + (n + 2) - 1 = q /\ p + 1 + (n + 2) - 1 = q + 1
  /\ p + 2 + (n + 2) - 1 = q + 2
  /\ p + m + 1 \in 1 .. L - n /\ q + m + 1 = p + m + 1 + (n + 1)

LEMMA Shifted ==
  ASSUME NEW L \in Nat, NEW n \in Nat, NEW m \in Nat, NEW p \in Nat, NEW q \in Nat,
         q = p + (n + 1), p >= 1, m >= 2, q + m + 1 <= L + 1
  PROVE  Shift(L, n, m, p, q)
  BY DEF Shift

\* What is read is the first frame, whose logs come next.
LEMMA CollectKeeps ==
  ASSUME Inv, Collect
  PROVE  Inv'
  <1>1. stream # <<>> /\ ShapeOK /\ BatchesOK /\ ReadOK
    BY DEF Inv, Collect, FrameArrived
  <1>2. /\ IsSeq(stream) /\ Len(stream) \in Nat
        /\ \A logs : Frames(logs) => FrameAt(logs, 1)
        /\ stream[1].value \in Nat /\ stream[1].value >= 2
        /\ stream[1].value + 2 <= Len(stream) + 1
        /\ Head(stream) = stream[1]
    BY <1>1, FirstFrame
  <1> PICK n : n = stream[1].value
    OBVIOUS
  <1> PICK k : k = stream[2].schema
    OBVIOUS
  <1> PICK root : root = stream[3].root
    OBVIOUS
  <1> PICK L : L = Len(stream)
    OBVIOUS
  <1> DEFINE cut == SubSeq(stream, n + 2, L)
  <1>3. L \in Nat /\ L = Len(stream) /\ n \in Nat /\ n >= 2 /\ n < L /\ n + 2 \in 1 .. L + 1
    BY <1>2
  <1>4. /\ Head(SubSeq(stream, 2, n + 1)) = stream[2]
        /\ Root(Tail(SubSeq(stream, 2, n + 1))) = root
    BY <1>2, <1>3, FrameCells
  <1>5. /\ got' = [got EXCEPT ![k] = @ \o root] /\ stream' = cut
        /\ batch' = batch /\ given' = given
    BY <1>2, <1>4 DEF Collect
  <1>6. PICK logs : Frames(logs)
    BY DEF Inv, StreamOK
  <1>7. /\ n + 2 \in DOMAIN logs /\ k \in Kinds /\ IsSeq(root)
        /\ k = "event" => /\ logs[n + 2] = logs[1]
                          /\ \A i \in 1 .. Len(root) : SomeEvent(root[i])
        /\ k = "log" => /\ logs[n + 2] = logs[1] + Len(root)
                        /\ \A i \in 1 .. Len(root) : LogOf(root[i], given["log"][logs[1] + i])
    <2>1. FrameAt(logs, 1) /\ 1 + n + 1 = n + 2 /\ 1 + 1 = 2 /\ 1 + 2 = 3
      BY <1>2, <1>3, <1>6
    <2> QED
      BY <2>1 DEF FrameAt
  <1>8. /\ \A p \in DOMAIN logs : p \in 1 .. L + 1 /\ logs[p] \in Nat
        /\ \A p \in DOMAIN logs : logs[p] + Waiting("log") <= Given("log")
        /\ 1 \in DOMAIN logs /\ logs[1] = Read("log")
        /\ L + 1 \in DOMAIN logs /\ logs[L + 1] + Waiting("log") = Given("log")
    BY <1>3, <1>6 DEF Frames
  <1>9. /\ IsSeq(cut) /\ Len(cut) = L - (n + 2) + 1
        /\ \A i \in 1 .. L - (n + 2) + 1 : cut[i] = stream[i + (n + 2) - 1]
    BY <1>2, <1>3, CutFrom
  <1>10. Joins(got[k] \o root, got[k], root)
    BY <1>1, <1>7, Counts, Joined
  <1>11. /\ got'[k] = got[k] \o root /\ got' = [j \in Kinds |-> got'[j]]
         /\ \A j \in Kinds : j # k => got'[j] = got[j]
    BY <1>1, <1>5, <1>7 DEF ShapeOK
  <1>12. /\ \A j \in Kinds : Given(j)' = Given(j) /\ Waiting(j)' = Waiting(j)
         /\ \A j \in Kinds : j # k => Read(j)' = Read(j)
         /\ Read(k)' = Read(k) + Len(root)
         /\ \A i \in 1 .. Read(k) : got'[k][i] = got[k][i]
         /\ \A i \in 1 .. Len(root) : got'[k][Read(k) + i] = root[i]
         /\ IsSeq(got'[k])
    <2>1. Joins(got'[k], got[k], root)
      BY <1>10, <1>11
    <2> QED
      BY <1>5, <1>11, <2>1 DEF Given, Waiting, Read, Joins
  <1> HIDE DEF cut
  <1>13. GivenKept
    BY <1>1, <1>5, <1>12, Counts DEF GivenKept
  <1>14. ShapeOK'
    BY <1>1, <1>5, <1>9, <1>11, <1>12 DEF ShapeOK
  <1>15. BatchesOK'
    BY <1>1, <1>5, <1>12 DEF BatchesOK
  <1>16. Read(k) \in Nat /\ Len(root) \in Nat
    BY <1>1, <1>7, Counts, SeqOf
  <1>17. \A i \in 1 .. Read(k)' :
           \/ i \in 1 .. Read(k) /\ got'[k][i] = got[k][i]
           \/ \E j \in 1 .. Len(root) : i = Read(k) + j /\ got'[k][i] = root[j]
    <2> SUFFICES ASSUME NEW i \in 1 .. Read(k) + Len(root), i \notin 1 .. Read(k)
                 PROVE  \E j \in 1 .. Len(root) : i = Read(k) + j /\ got'[k][i] = root[j]
      BY <1>12
    <2>1. i - Read(k) \in 1 .. Len(root) /\ i = Read(k) + (i - Read(k))
      BY <1>16
    <2> QED
      BY <1>12, <2>1
  <1>18. ReadOK'
    <2>1. \A i \in 1 .. Read("event")' : SomeEvent(got'["event"][i])
      <3>1. CASE k = "event"
        BY <1>1, <1>7, <1>17, <3>1 DEF ReadOK
      <3>2. CASE k # "event"
        BY <1>1, <1>11, <1>12, <3>2, TwoKinds DEF ReadOK
      <3> QED
        BY <3>1, <3>2
    <2>2. \A i \in 1 .. Read("log")' : LogOf(got'["log"][i], given["log"][i])
      <3>1. CASE k = "log"
        BY <1>1, <1>7, <1>8, <1>17, <3>1 DEF ReadOK
      <3>2. CASE k # "log"
        BY <1>1, <1>11, <1>12, <3>2, TwoKinds DEF ReadOK
      <3> QED
        BY <3>1, <3>2
    <2>3. \A i \in 1 .. Read("event")' : StillEvent(got'["event"][i])
      BY <1>13, <2>1, EventStays
    <2> QED
      BY <1>5, <2>2, <2>3 DEF ReadOK, SomeEvent, StillEvent
  <1>19. StreamOK'
    <2> DEFINE P == {p \in 1 .. L - n : p + (n + 1) \in DOMAIN logs}
               more == [p \in P |-> logs[p + (n + 1)]]
    <2>1. Len(stream') = L - (n + 1) /\ Len(stream') + 1 = L - n
      BY <1>3, <1>5, <1>9
    <2>2. /\ \A p \in P : p \in 1 .. L - n /\ p + (n + 1) \in DOMAIN logs
                          /\ more[p] = logs[p + (n + 1)]
          /\ DOMAIN more = P
      OBVIOUS
    <2>3. 1 \in P /\ L - n \in P
      <3>1. 1 \in 1 .. L - n /\ L - n \in 1 .. L - n
        BY <1>3
      <3>2. 1 + (n + 1) = n + 2 /\ L - n + (n + 1) = L + 1
        BY <1>3
      <3> QED
        BY <1>7, <1>8, <3>1, <3>2
    <2>4. more[1] = logs[n + 2] /\ more[L - n] = logs[L + 1]
      <3>1. 1 + (n + 1) = n + 2 /\ L - n + (n + 1) = L + 1
        BY <1>3
      <3> QED
        BY <2>2, <2>3, <3>1
    <2>5. \A p \in 1 .. L - n : \A q \in DOMAIN logs : q = p + (n + 1) => p \in P
      OBVIOUS
    <2> HIDE DEF P, more
    <2>6. Read("log")' = more[1]
      <3>1. CASE k = "event"
        BY <1>7, <1>8, <1>12, <2>4, <3>1, TwoKinds
      <3>2. CASE k # "event"
        <4>1. k = "log"
          BY <1>7, <3>2 DEF Kinds
        <4> QED
          BY <1>7, <1>8, <1>12, <2>4, <4>1
      <3> QED
        BY <3>1, <3>2
    <2>7. \A p \in P : p <= L - (n + 1) => FrameAt(more, p)'
      <3> SUFFICES ASSUME NEW p \in P, p <= L - (n + 1) PROVE FrameAt(more, p)'
        OBVIOUS
      <3> PICK q : q = p + (n + 1)
        OBVIOUS
      <3> PICK m : m = stream[q].value
        OBVIOUS
      <3>1. p \in Nat /\ p >= 1 /\ q \in DOMAIN logs /\ q \in Nat /\ q <= L
            /\ q = p + (n + 1)
        BY <1>3, <2>2
      <3>2. FrameAt(logs, q)
        BY <1>3, <1>6, <3>1 DEF Frames
      <3>3. m \in Nat /\ m >= 2 /\ q + m + 1 \in DOMAIN logs
        BY <3>2 DEF FrameAt
      <3>4. q + m + 1 \in 1 .. L + 1
        BY <1>8, <3>3
      <3>5. Shift(L, n, m, p, q)
        <4>1. q + m + 1 <= L + 1
          BY <1>3, <3>1, <3>3, <3>4
        <4> QED
          BY <1>3, <3>1, <3>3, <4>1, Shifted
      <3>6. /\ stream'[p] = stream[q] /\ stream'[p + 1] = stream[q + 1]
            /\ stream'[p + 2] = stream[q + 2]
        BY <1>5, <1>9, <3>5 DEF Shift
      <3>7. p + m + 1 \in 1 .. L - n /\ q + m + 1 = p + m + 1 + (n + 1)
        BY <3>5 DEF Shift
      <3>8. p + m + 1 \in P /\ more[p] = logs[q] /\ more[p + m + 1] = logs[q + m + 1]
        BY <2>2, <2>5, <3>1, <3>3, <3>7
      <3>9. q <= Len(stream) /\ m = stream[q].value /\ p + m + 1 \in DOMAIN more
        BY <1>3, <2>2, <3>1, <3>8
      <3> QED
        BY <1>1, <1>6, <1>13, <3>1, <3>6, <3>8, <3>9, FrameMoves
    <2>8. Frames(more)'
      <3>1. /\ Waiting("log")' = Waiting("log") /\ Given("log")' = Given("log")
        BY <1>12, TwoKinds
      <3>2. \A p \in P : p \in 1 .. Len(stream') + 1 /\ more[p] \in Nat
                         /\ more[p] + Waiting("log")' <= Given("log")'
        BY <1>8, <2>1, <2>2, <3>1
      <3>3. more[Len(stream') + 1] + Waiting("log")' = Given("log")'
        BY <1>8, <2>1, <2>4, <3>1
      <3>4. \A p \in P : p <= Len(stream') => FrameAt(more, p)'
        BY <2>1, <2>7
      <3> QED
        BY <2>1, <2>2, <2>3, <2>6, <3>2, <3>3, <3>4 DEF Frames
    <2> QED
      BY <2>8 DEF StreamOK
  <1> QED
    BY <1>14, <1>15, <1>18, <1>19 DEF Inv

-----------------------------------------------------------------------------
(***************************************************************************)
(* The theorems.                                                           *)
(***************************************************************************)
LEMMA InitInv == Init => Inv
  <1> SUFFICES ASSUME Init PROVE Inv
    OBVIOUS
  <1>1. IsSeq(<<>>) /\ Len(<<>>) = 0
    BY DEF IsSeq
  <1>2. /\ \A k \in Kinds : batch[k] = <<>> /\ given[k] = <<>> /\ got[k] = <<>>
        /\ stream = <<>>
    BY DEF Init
  <1>3. ShapeOK
    BY <1>1, <1>2 DEF Init, ShapeOK
  <1>4. \A k \in Kinds : Given(k) = 0 /\ Waiting(k) = 0 /\ Read(k) = 0
    BY <1>1, <1>2 DEF Given, Waiting, Read
  <1>5. BatchesOK /\ ReadOK
    <2>1. 1 .. 0 = {}
      OBVIOUS
    <2> QED
      BY <1>4, <2>1, TwoKinds DEF BatchesOK, ReadOK
  <1>6. Frames([p \in {1} |-> 0])
    BY <1>1, <1>2, <1>4, TwoKinds DEF Frames
  <1> QED
    BY <1>3, <1>5, <1>6 DEF Inv, StreamOK

\* The invariant holds however the steps of the two sides come together.
THEOREM WireInvariant == Spec => []Inv
  <1>1. Inv /\ [Next]_vars => Inv'
    <2> SUFFICES ASSUME Inv, [Next]_vars PROVE Inv'
      OBVIOUS
    <2>1. CASE Tick \/ UNCHANGED vars \/ \E c \in Calls : CallFails(c)
      BY <2>1, SameInv DEF Tick, CallFails, vars
    <2> QED
      BY <2>1, CallKeeps, SendBatchKeeps, CollectKeeps DEF Next
  <1> QED
    BY <1>1, InitInv, PTL DEF Spec

\* The reader always stands at the start of a frame that is there as a whole.
THEOREM ReaderInStep == Spec => []StreamInStep
  <1>1. Inv => StreamInStep
    BY FirstFrame DEF StreamInStep, FrameArrived
  <1> QED
    BY <1>1, WireInvariant, PTL

\* Every event that arrives is one that was tracked, with its own time, device
\* and properties.
THEOREM EventsArriveUnchanged == Spec => []EventsUnchanged
  <1>1. Inv => EventsUnchanged
    <2> SUFFICES ASSUME Inv PROVE EventsUnchanged
      OBVIOUS
    <2>1. ShapeOK /\ ReadOK
      BY DEF Inv
    <2>2. DOMAIN got["event"] = 1 .. Read("event") /\ DOMAIN given["event"] = 1 .. Given("event")
      BY <2>1, Counts, SeqOf, TwoKinds DEF Read, Given
    <2> QED
      BY <2>1, <2>2 DEF ReadOK, SomeEvent, EventOf, EventsUnchanged
  <1> QED
    BY <1>1, WireInvariant, PTL

\* The logs that were read are the first that were written, in their order.
THEOREM LogsArriveInOrder == Spec => []LogsInOrder
  <1>1. Inv => LogsInOrder
    <2> SUFFICES ASSUME Inv PROVE LogsInOrder
      OBVIOUS
    <2>1. ShapeOK /\ ReadOK
      BY DEF Inv
    <2>2. DOMAIN got["log"] = 1 .. Read("log")
      BY <2>1, Counts, SeqOf, TwoKinds DEF Read
    <2>3. Read("log") + Waiting("log") <= Given("log")
      BY DEF Inv, StreamOK, Frames
    <2>4. Read("log") <= Given("log")
      BY <2>1, <2>3, Counts, TwoKinds
    <2>5. Len(got["log"]) <= Len(given["log"])
      BY <2>4 DEF Read, Given
    <2> QED
      BY <2>1, <2>2, <2>5 DEF ReadOK, LogOf, LogsInOrder
  <1> QED
    BY <1>1, WireInvariant, PTL

=============================================================================
