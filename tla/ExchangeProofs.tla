---------------------------- MODULE ExchangeProofs ----------------------------
(***************************************************************************)
(* Theorems about Exchange, for any number of connections and of fetches   *)
(* on each, any requests and any sizes, and any way to cut the streams.    *)
(***************************************************************************)
EXTENDS Exchange, SumsProofs, SequenceTheorems, TLAPS

-----------------------------------------------------------------------------
(* Sequences *)

\* t begins with s.
Begins(s, t) == Len(s) <= Len(t) /\ \A i \in 1..Len(s) : s[i] = t[i]

\* A part of a sequence is a sequence.
LEMMA PartOfSeq ==
  ASSUME NEW S, NEW s \in Seq(S), NEW m \in Nat \ {0}, NEW n \in Nat, n <= Len(s)
  PROVE  /\ SubSeq(s, m, n) \in Seq(S)
         /\ Len(SubSeq(s, m, n)) = IF m <= n THEN n - m + 1 ELSE 0
         /\ \A i \in 1..(n - m + 1) : SubSeq(s, m, n)[i] = s[m + i - 1]
<1>1. Len(s) \in Nat
  BY LenProperties
<1>2. \A i \in m..n : s[i] \in S
  <2>1. \A i \in m..n : i \in 1..Len(s)
    BY <1>1
  <2> QED
    BY <2>1, ElementOfSeq
<1> QED
  BY <1>2, SubSeqProperties

\* The grouping of a concatenation does not matter.
Regrouped(a, b, d) == (a \o b) \o d = a \o (b \o d)

LEMMA Regroup ==
  \A S : \A a, b, d \in Seq(S) : Regrouped(a, b, d)
BY ConcatAssociative DEF Regrouped

\* recv only moves the boundary between the buffer and the stream.
LEMMA RecvKeeps ==
  ASSUME NEW S, NEW buf \in Seq(S), NEW s \in Seq(S), NEW n \in 1..Len(s)
  PROVE  /\ Received(buf, s, n) \in Seq(S) /\ Take(s, n) \in Seq(S)
         /\ Received(buf, s, n) \o Take(s, n) = buf \o s
<1> DEFINE x == SubSeq(s, 1, n)
           y == SubSeq(s, n + 1, Len(s))
<1>1. Len(s) \in Nat /\ n \in Nat /\ n <= Len(s) /\ n >= 1
  BY LenProperties
<1>2. x \in Seq(S) /\ y \in Seq(S)
  BY <1>1, PartOfSeq
<1>3. x \o y = s
  <2>1. SubSeq(s, 1, n) \o SubSeq(s, n + 1, Len(s)) = SubSeq(s, 1, Len(s))
    <3>1. /\ 1 \in 1..Len(s) + 1 /\ n \in (1 - 1)..Len(s) /\ Len(s) \in n..Len(s)
      BY <1>1
    <3> QED
      BY <3>1, ConcatAdjacentSubSeq
  <2> QED
    BY <2>1, SubSeqFull
<1> HIDE DEF x, y
<1>4. buf \o x \in Seq(S)
  BY <1>2, ConcatProperties
<1>5. (buf \o x) \o y = buf \o s
  <2>1. Regrouped(buf, x, y)
    BY <1>2, Regroup, Zenon
  <2> QED
    BY <1>3, <2>1, Zenon DEF Regrouped
<1> QED
  BY <1>2, <1>4, <1>5, Zenon DEF Received, Take, x, y

\* What is left of a stream when its first n units have been read from the buffer.
Remains(buf, s, n) ==
  /\ Len(Take(buf, n) \o s) = Len(buf \o s) - n
  /\ \A i \in 1..(Len(buf \o s) - n) : (Take(buf, n) \o s)[i] = (buf \o s)[n + i]

LEMMA TakeKeeps ==
  ASSUME NEW S, NEW buf \in Seq(S), NEW s \in Seq(S), NEW n \in Nat, n <= Len(buf)
  PROVE  Take(buf, n) \in Seq(S) /\ Remains(buf, s, n)
<1> DEFINE y == SubSeq(buf, n + 1, Len(buf))
           k == Len(buf)
<1>1. k \in Nat /\ Len(s) \in Nat /\ n <= k
  BY LenProperties
<1>2. /\ y \in Seq(S) /\ Len(y) = k - n
      /\ \A i \in 1..(k - n) : y[i] = buf[n + i]
  <2>1. /\ y \in Seq(S)
        /\ Len(y) = IF n + 1 <= k THEN k - (n + 1) + 1 ELSE 0
        /\ \A i \in 1..(k - (n + 1) + 1) : y[i] = buf[(n + 1) + i - 1]
    BY <1>1, PartOfSeq
  <2> HIDE DEF y, k
  <2>2. Len(y) = k - n
    BY <1>1, <2>1
  <2>3. ASSUME NEW i \in 1..(k - n) PROVE y[i] = buf[n + i]
    <3>1. i \in 1..(k - (n + 1) + 1) /\ (n + 1) + i - 1 = n + i
      BY <1>1
    <3> QED
      BY <2>1, <3>1
  <2> QED
    BY <2>1, <2>2, <2>3
<1>3. /\ Len(y \o s) = Len(y) + Len(s)
      /\ \A i \in 1..(Len(y) + Len(s)) :
           (y \o s)[i] = IF i <= Len(y) THEN y[i] ELSE s[i - Len(y)]
  BY <1>2, ConcatProperties
<1>4. /\ Len(buf \o s) = k + Len(s)
      /\ \A i \in 1..(k + Len(s)) :
           (buf \o s)[i] = IF i <= k THEN buf[i] ELSE s[i - k]
  BY ConcatProperties
<1> HIDE DEF y, k
<1>5. Len(y \o s) = Len(buf \o s) - n
  BY <1>1, <1>2, <1>3, <1>4
<1>6. ASSUME NEW i \in 1..(Len(buf \o s) - n)
      PROVE  (y \o s)[i] = (buf \o s)[n + i]
  <2>1. /\ i \in Nat /\ i >= 1 /\ i \in 1..(Len(y) + Len(s))
        /\ n + i \in 1..(k + Len(s))
    BY <1>1, <1>2, <1>4
  <2>2. CASE i <= k - n
    BY <1>1, <1>2, <1>3, <1>4, <2>1, <2>2
  <2>3. CASE ~(i <= k - n)
    <3>1. (y \o s)[i] = s[i - (k - n)] /\ (buf \o s)[n + i] = s[n + i - k]
      BY <1>1, <1>2, <1>3, <1>4, <2>1, <2>3
    <3>2. i - (k - n) = n + i - k
      BY <1>1, <2>1
    <3> QED
      BY <3>1, <3>2
  <2> QED
    BY <2>2, <2>3
<1> QED
  BY <1>2, <1>5, <1>6 DEF Remains, Take, y, k

-----------------------------------------------------------------------------
(* Messages *)

Header(r) == HeaderOf(Status(r), r)
Response(r) == Header(r) \o Body(r)

LEMMA UnitParts ==
  ASSUME NEW kind, NEW r, NEW n
  PROVE  /\ Unit(kind, r, n).kind = kind /\ Unit(kind, r, n).request = r
         /\ Unit(kind, r, n).n = n
BY DEF Unit

LEMMA RequestUnits ==
  ASSUME NEW r \in Requests
  PROVE  /\ RequestOf(r) \in Seq(Units) /\ Len(RequestOf(r)) = 2
         /\ RequestOf(r)[1] = Unit("text", r, 0) /\ RequestOf(r)[2] = Unit("newline", r, 0)
<1>1. Unit("text", r, 0) \in Units /\ Unit("newline", r, 0) \in Units
  BY DEF Unit, Units
<1> HIDE DEF Unit, Units
<1> QED
  BY <1>1 DEF RequestOf

LEMMA BodyUnits ==
  ASSUME NEW r \in Requests
  PROVE  /\ Body(r) \in Seq(Units)
         /\ r \in Stored => Len(Body(r)) = Size[r] /\ Size[r] \in Nat \ {0}
         /\ r \notin Stored => Len(Body(r)) = 0
         /\ \A i \in 1..Len(Body(r)) : Body(r)[i].kind = "byte"
<1>1. CASE r \in Stored
  <2> DEFINE n == Size[r]
  <2>1. n \in Nat \ {0}
    BY <1>1, ExchangeAssumption
  <2> HIDE DEF n
  <2>2. \A i \in 1..n : Unit("byte", r, i) \in Units
    BY <2>1 DEF Unit, Units
  <2> DEFINE p == [i \in 1..n |-> Unit("byte", r, i)]
  <2>3. p \in [1..n -> Units]
    BY <2>2
  <2>4. p \in Seq(Units)
    BY <2>1, <2>3, SeqDef
  <2>5. Len(p) = n
    BY <2>1, <2>4, LenProperties
  <2>6. \A i \in 1..n : p[i].kind = "byte"
    BY DEF Unit
  <2>7. Body(r) = p
    BY <1>1 DEF Body, Payload, n
  <2> HIDE DEF p
  <2> QED
    BY <1>1, <2>1, <2>4, <2>5, <2>6, <2>7 DEF n
<1>2. CASE r \notin Stored
  BY <1>2, EmptySeq DEF Body
<1> QED
  BY <1>1, <1>2

LEMMA HeaderUnits ==
  ASSUME NEW r \in Requests
  PROVE  /\ Header(r) \in Seq(Units) /\ Len(Header(r)) = 2
         /\ Header(r)[1] = Unit(Status(r), r, Len(Body(r)))
         /\ Header(r)[2] = Unit("DATA", r, 0)
<1> DEFINE a == Unit(Status(r), r, Len(Body(r)))
           b == Unit("DATA", r, 0)
<1>1. Header(r) = << a, b >>
  BY BodyUnits DEF Header, HeaderOf, Status
<1>2. a \in Units /\ b \in Units
  <2>1. Len(Body(r)) \in Nat
    BY BodyUnits, LenProperties
  <2> QED
    BY <2>1 DEF Unit, Units, Status
<1> HIDE DEF a, b
<1>3. << a, b >> \in Seq(Units)
  BY <1>2
<1> QED
  BY <1>1, <1>3 DEF a, b

LEMMA ResponseUnits ==
  ASSUME NEW r \in Requests
  PROVE  /\ Response(r) \in Seq(Units)
         /\ Len(Response(r)) = 2 + Len(Body(r)) /\ Len(Body(r)) \in Nat
         /\ Response(r)[1] = Unit(Status(r), r, Len(Body(r)))
         /\ Response(r)[2] = Unit("DATA", r, 0)
         /\ \A i \in 1..Len(Body(r)) : Response(r)[2 + i] = Body(r)[i]
<1> DEFINE h == Header(r)
           b == Body(r)
<1>1. h \in Seq(Units) /\ b \in Seq(Units) /\ Len(h) = 2 /\ Len(b) \in Nat
  BY HeaderUnits, BodyUnits, LenProperties
<1> HIDE DEF h, b
<1>2. /\ h \o b \in Seq(Units)
      /\ Len(h \o b) = 2 + Len(b)
      /\ \A i \in 1..(2 + Len(b)) : (h \o b)[i] = IF i <= 2 THEN h[i] ELSE b[i - 2]
  <2>1. /\ h \o b \in Seq(Units)
        /\ Len(h \o b) = Len(h) + Len(b)
        /\ \A i \in 1..(Len(h) + Len(b)) :
             (h \o b)[i] = IF i <= Len(h) THEN h[i] ELSE b[i - Len(h)]
    BY <1>1, ConcatProperties
  <2> QED
    BY <1>1, <2>1
<1>3. (h \o b)[1] = h[1] /\ (h \o b)[2] = h[2]
  BY <1>1, <1>2
<1>4. ASSUME NEW i \in 1..Len(b) PROVE (h \o b)[2 + i] = b[i]
  <2>1. 2 + i \in 1..(2 + Len(b)) /\ ~(2 + i <= 2) /\ (2 + i) - 2 = i
    BY <1>1
  <2> QED
    BY <1>2, <2>1
<1>5. Response(r) = h \o b
  BY DEF Response, h, b
<1> QED
  BY <1>1, <1>2, <1>3, <1>4, <1>5, HeaderUnits DEF h, b

\* A line that has its newline is a whole request, with nothing after it.
LEMMA LineIsRequest ==
  ASSUME NEW r \in Requests, NEW buf \in Seq(Units), NEW s \in Seq(Units),
         buf \o s = RequestOf(r), Has(buf, "newline")
  PROVE  Len(buf) = 2 /\ s = << >> /\ buf[1] = Unit("text", r, 0)
<1>1. Len(buf) \in Nat /\ Len(s) \in Nat
  BY LenProperties
<1>2. /\ Len(buf) + Len(s) = 2
      /\ \A i \in 1..2 : i <= Len(buf) => buf[i] = RequestOf(r)[i]
  <2>1. /\ Len(buf \o s) = Len(buf) + Len(s)
        /\ \A i \in 1..(Len(buf) + Len(s)) :
             (buf \o s)[i] = IF i <= Len(buf) THEN buf[i] ELSE s[i - Len(buf)]
    BY ConcatProperties
  <2>2. Len(buf) + Len(s) = 2
    BY <2>1, RequestUnits
  <2> QED
    BY <1>1, <2>1, <2>2
<1>3. PICK i \in 1..Len(buf) : buf[i].kind = "newline"
  BY DEF Has
<1>4. i # 1
  <2>1. RequestOf(r)[1].kind # "newline"
    <3>1. RequestOf(r)[1].kind = "text"
      BY RequestUnits, UnitParts
    <3> QED
      BY <3>1
  <2>2. i = 1 => buf[i] = RequestOf(r)[1]
    BY <1>1, <1>2
  <2> QED
    BY <1>3, <2>1, <2>2
<1>5. Len(buf) = 2 /\ Len(s) = 0
  <2>1. Len(buf) + Len(s) = 2
    BY <1>2
  <2>2. Len(buf) >= 2
    BY <1>1, <1>3, <1>4
  <2> DEFINE m == Len(buf)
             k == Len(s)
  <2>3. m \in Nat /\ k \in Nat /\ m + k = 2 /\ m >= 2
    BY <1>1, <2>1, <2>2
  <2> HIDE DEF m, k
  <2>4. m = 2 /\ k = 0
    BY <2>3
  <2> QED
    BY <2>4 DEF m, k
<1>6. s = << >>
  BY <1>5, EmptySeq
<1> QED
  BY <1>2, <1>5, <1>6, RequestUnits

\* A buffer that begins as the response does and has a DATA line has its header.
LEMMA HeaderFound ==
  ASSUME NEW r \in Requests, NEW buf \in Seq(Units),
         Begins(buf, Response(r)), Has(buf, "DATA")
  PROVE  /\ Len(buf) >= 2 /\ Through(buf, "DATA") = 2
         /\ buf[1] = Unit(Status(r), r, Len(Body(r)))
<1>1. Len(buf) \in Nat
  BY LenProperties
<1>2. /\ Len(buf) <= 2 + Len(Body(r)) /\ Len(Body(r)) \in Nat
      /\ \A i \in 1..Len(buf) : buf[i] = Response(r)[i]
  BY ResponseUnits DEF Begins
<1>3. ASSUME NEW i \in 1..Len(buf), buf[i].kind = "DATA" PROVE i = 2
  <2>1. i # 1
    <3>1. Response(r)[1].kind # "DATA"
      <4>1. Response(r)[1].kind = Status(r)
        BY ResponseUnits, UnitParts
      <4> QED
        BY <4>1 DEF Status
    <3>2. buf[i] = Response(r)[i]
      BY <1>2
    <3> QED
      BY <1>3, <3>1, <3>2
  <2>2. CASE i > 2
    <3>1. PICK j \in 1..Len(Body(r)) : i = 2 + j
      <4>1. i - 2 \in 1..Len(Body(r)) /\ i = 2 + (i - 2)
        BY <1>1, <1>2, <2>2
      <4> QED
        BY <4>1
    <3>2. buf[i] = Body(r)[j]
      BY <1>2, <3>1, ResponseUnits
    <3> QED
      BY <1>3, <3>2, BodyUnits
  <2> QED
    BY <2>1, <2>2
<1>4. PICK i \in 1..Len(buf) : buf[i].kind = "DATA"
  BY DEF Has
<1>5. i = 2 /\ 2 \in 1..Len(buf) /\ buf[2].kind = "DATA"
  BY <1>3, <1>4
<1>6. {k \in 1..Len(buf) : buf[k].kind = "DATA"} = {2}
  BY <1>3, <1>5
<1>7. Through(buf, "DATA") = 2
  <2>1. Min({2}) = 2
    BY DEF Min
  <2> QED
    BY <1>6, <2>1 DEF Through, SelectInSeq
<1> QED
  BY <1>1, <1>2, <1>5, <1>7, ResponseUnits

-----------------------------------------------------------------------------
(* Types *)

Results == [asked : Requests, header : Units, body : Seq(Units)]

\* Every variable but the statistics has a value for each connection ...
IsMap(f) == f = [d \in Clients |-> f[d]]

Maps ==
  /\ IsMap(clientPc) /\ IsMap(asked) /\ IsMap(header) /\ IsMap(clientBuf)
  /\ IsMap(results) /\ IsMap(handlerPc) /\ IsMap(request) /\ IsMap(lineBuf)
  /\ IsMap(seen) /\ IsMap(up) /\ IsMap(down)

\* Where a handler has a segment to count.
Counting == {"count", "counting"}

\* ... of its type.  A fetch has its request, a handler that sends or counts a
\* segment has one.
Local(c) ==
  /\ clientPc[c] \in {"idle", "header", "body", "closed", "raised"}
  /\ asked[c] \in Requests \cup {None}
  /\ header[c] \in Units \cup {NoHeader}
  /\ clientBuf[c] \in Seq(Units) /\ lineBuf[c] \in Seq(Units)
  /\ up[c] \in Seq(Units) /\ down[c] \in Seq(Units)
  /\ results[c] \in Seq(Results) /\ Len(results[c]) <= MaxFetches[c]
  /\ handlerPc[c] \in {"reading", "parsed", "payload", "count", "counting", "closed"}
  /\ seen[c] \in Statistics
  /\ request[c] \in Requests \cup {None}
  /\ clientPc[c] \in {"header", "body"} =>
       asked[c] \in Requests /\ Len(results[c]) < MaxFetches[c]
  /\ clientPc[c] = "body" => header[c] \in Units
  /\ handlerPc[c] = "parsed" => request[c] \in Requests
  /\ handlerPc[c] \in {"payload"} \cup Counting => request[c] \in Stored

Types ==
  /\ Maps
  /\ \A c \in Clients : Local(c)
  /\ stats \in Statistics

\* A step of the connection c.
Step(c) ==
  \/ \E r \in Requests : Fetch(c, r)
  \/ ClientStep(c) \/ ClientTimeout(c) \/ ClientClose(c)
  \/ HandlerStep(c) \/ HandlerTimeout(c) \/ SendFails(c)

\* Nothing of the connection d changes.
Same(d) ==
  /\ clientPc'[d] = clientPc[d] /\ asked'[d] = asked[d] /\ header'[d] = header[d]
  /\ clientBuf'[d] = clientBuf[d] /\ results'[d] = results[d]
  /\ handlerPc'[d] = handlerPc[d] /\ request'[d] = request[d]
  /\ lineBuf'[d] = lineBuf[d] /\ seen'[d] = seen[d]
  /\ up'[d] = up[d] /\ down'[d] = down[d]

LEMMA StepOrNot ==
  ASSUME [Next]_vars
  PROVE  (\E c \in Clients : Step(c)) \/ UNCHANGED vars
BY DEF Next, Step

\* What is sent is made of units.
LEMMA ReplyUnits ==
  ASSUME NEW status \in {"200", "404", "400"}, NEW r \in Requests,
         status = "200" => r \in Stored
  PROVE  /\ HeaderOf(status, r) \in Seq(Units) /\ Len(HeaderOf(status, r)) = 2
         /\ r \in Stored => Payload(r) \in Seq(Units)
<1> DEFINE n == IF status = "200" THEN Size[r] ELSE 0
<1>1. n \in Nat
  BY ExchangeAssumption
<1> HIDE DEF n
<1>2. Unit(status, r, n) \in Units /\ Unit("DATA", r, 0) \in Units
  BY <1>1 DEF Unit, Units
<1>3. HeaderOf(status, r) = << Unit(status, r, n), Unit("DATA", r, 0) >>
  BY DEF HeaderOf, n
<1>4. HeaderOf(status, r) \in Seq(Units) /\ Len(HeaderOf(status, r)) = 2
  BY <1>2, <1>3
<1>5. r \in Stored => Payload(r) \in Seq(Units)
  BY BodyUnits DEF Body
<1> QED
  BY <1>4, <1>5

\* A step of one connection leaves the others alone.
LEMMA OnlyOne ==
  ASSUME Maps, NEW c \in Clients, Step(c)
  PROVE  Maps' /\ \A d \in Clients \ {c} : Same(d)
<1> USE DEF Maps, IsMap, Same, clientVars, handlerVars
<1>1. ASSUME NEW r \in Requests, Fetch(c, r)
      PROVE  Maps' /\ \A d \in Clients \ {c} : Same(d)
  BY <1>1 DEF Fetch
<1>2. CASE ClientRecv(c)
  BY <1>2 DEF ClientRecv
<1>3. CASE ClientEof(c) \/ ClientTimeout(c) \/ ClientClose(c)
  BY <1>3 DEF ClientEof, ClientTimeout, ClientClose
<1>4. CASE ReadHeader(c)
  BY <1>4 DEF ReadHeader
<1>5. CASE ReadBody(c)
  BY <1>5 DEF ReadBody
<1>6. CASE HandlerRecv(c)
  BY <1>6 DEF HandlerRecv
<1>7. CASE ReadLine(c)
  BY <1>7 DEF ReadLine
<1>8. CASE HandlerEof(c) \/ HandlerTimeout(c) \/ LockStats(c) \/ UpdateStats(c)
  BY <1>8 DEF HandlerEof, HandlerTimeout, LockStats, UpdateStats
<1>9. ASSUME NEW units, NEW next, Reply(c, units, next)
      PROVE  Maps' /\ \A d \in Clients \ {c} : Same(d)
  BY <1>9 DEF Reply
<1>10. CASE ReplyBadRequest(c) \/ ReplyNotFound(c) \/ SendHeader(c) \/ SendPayload(c)
  BY <1>9, <1>10 DEF ReplyBadRequest, ReplyNotFound, SendHeader, SendPayload
<1>11. CASE SendFails(c)
  BY <1>9, <1>11 DEF SendFails
<1> HIDE DEF Maps, IsMap, Same, clientVars, handlerVars
<1> QED
  BY <1>1, <1>2, <1>3, <1>4, <1>5, <1>6, <1>7, <1>8, <1>10, <1>11
     DEF Step, ClientStep, HandlerStep

\* A reply that fails has sent the first units of its header or of its payload.
LEMMA FailedReply ==
  ASSUME NEW c \in Clients, SendFails(c), Local(c)
  PROVE  \E units \in Seq(Units) : Reply(c, units, "closed")
<1>1. CASE handlerPc[c] = "parsed"
  <2>1. PICK status \in {"200", "404", "400"}, n \in 0..1 :
          /\ request[c] \in IF status = "200" THEN Stored
                            ELSE IF status = "404" THEN Missing ELSE Malformed
          /\ Reply(c, SubSeq(HeaderOf(status, request[c]), 1, n), "closed")
    BY <1>1 DEF SendFails
  <2>2. /\ HeaderOf(status, request[c]) \in Seq(Units)
        /\ Len(HeaderOf(status, request[c])) = 2
    BY <2>1, ReplyUnits DEF Requests
  <2>3. SubSeq(HeaderOf(status, request[c]), 1, n) \in Seq(Units)
    BY <2>2, PartOfSeq
  <2> QED
    BY <2>1, <2>3
<1>2. CASE handlerPc[c] = "payload"
  <2> DEFINE p == Payload(request[c])
  <2>1. PICK n \in 0..(Size[request[c]] - 1) : Reply(c, SubSeq(p, 1, n), "closed")
    BY <1>2 DEF SendFails
  <2>2. request[c] \in Stored
    BY <1>2 DEF Local
  <2>3. p \in Seq(Units) /\ Len(p) = Size[request[c]] /\ Size[request[c]] \in Nat
    BY <2>2, BodyUnits DEF Requests, Body
  <2> HIDE DEF p
  <2>4. SubSeq(p, 1, n) \in Seq(Units)
    BY <2>1, <2>3, PartOfSeq
  <2> QED
    BY <2>1, <2>4
<1> QED
  BY <1>1, <1>2 DEF SendFails

StatsType == stats \in Statistics

LEMMA LocalKept ==
  ASSUME Types, NEW c \in Clients, Step(c),
         clientPc[c] = "header" => Begins(clientBuf[c], Response(asked[c]))
  PROVE  Local(c)' /\ StatsType'
<1>0. /\ Maps /\ Local(c) /\ StatsType
      /\ DOMAIN clientPc = Clients /\ DOMAIN asked = Clients /\ DOMAIN header = Clients
      /\ DOMAIN clientBuf = Clients /\ DOMAIN results = Clients
      /\ DOMAIN handlerPc = Clients /\ DOMAIN request = Clients
      /\ DOMAIN lineBuf = Clients /\ DOMAIN seen = Clients
      /\ DOMAIN up = Clients /\ DOMAIN down = Clients
  BY DEF Types, StatsType, Maps, IsMap
<1> HIDE DEF Types
<1>1. ASSUME NEW r \in Requests, Fetch(c, r) PROVE Local(c)' /\ StatsType'
  <2>1. /\ clientPc[c] = "idle" /\ Len(results[c]) < MaxFetches[c]
        /\ clientPc'[c] \in {"header", "raised"} /\ asked'[c] = r
        /\ up'[c] = up[c] \/ up'[c] = up[c] \o RequestOf(r)
        /\ UNCHANGED <<header, clientBuf, results, handlerVars, down>>
    BY <1>0, <1>1 DEF Fetch
  <2>2. up'[c] \in Seq(Units)
    <3>1. RequestOf(r) \in Seq(Units) /\ up[c] \in Seq(Units)
      BY <1>0, RequestUnits DEF Local
    <3>2. up[c] \o RequestOf(r) \in Seq(Units)
      BY <3>1, ConcatProperties
    <3> QED
      BY <2>1, <3>1, <3>2
  <2> QED
    BY <1>0, <2>1, <2>2 DEF Local, StatsType, handlerVars
<1>2. CASE ClientRecv(c)
  <2>1. PICK n \in 1..Len(down[c]) :
          /\ clientBuf'[c] = Received(clientBuf[c], down[c], n)
          /\ down'[c] = Take(down[c], n)
    BY <1>0, <1>2 DEF ClientRecv
  <2>2. UNCHANGED <<clientPc, asked, header, results, handlerVars, up>>
    BY <1>2 DEF ClientRecv
  <2>3. clientBuf'[c] \in Seq(Units) /\ down'[c] \in Seq(Units)
    BY <1>0, <2>1, RecvKeeps DEF Local
  <2> QED
    BY <1>0, <2>2, <2>3 DEF Local, StatsType, handlerVars
<1>3. CASE ClientEof(c) \/ ClientTimeout(c) \/ ClientClose(c)
  <2>1. /\ clientPc'[c] \in {"raised", "closed"}
        /\ UNCHANGED <<asked, header, clientBuf, results, handlerVars, up, down>>
    BY <1>0, <1>3 DEF ClientEof, ClientTimeout, ClientClose
  <2> QED
    BY <1>0, <2>1 DEF Local, StatsType, handlerVars
<1>4. CASE ReadHeader(c)
  <2>1. /\ clientPc[c] = "header" /\ clientPc'[c] = "body"
        /\ header'[c] = clientBuf[c][1]
        /\ clientBuf'[c] = Take(clientBuf[c], Through(clientBuf[c], "DATA"))
        /\ UNCHANGED <<asked, results, handlerVars, up, down>>
        /\ Has(clientBuf[c], "DATA")
    BY <1>0, <1>4 DEF ReadHeader, HeaderComplete
  <2>2. Len(clientBuf[c]) \in Nat /\ Len(clientBuf[c]) >= 1
    BY <1>0, <2>1, LenProperties DEF Has, Local
  <2>3. header'[c] \in Units
    BY <1>0, <2>1, <2>2, ElementOfSeq DEF Local
  <2>4. clientBuf'[c] \in Seq(Units)
    <3>1. asked[c] \in Requests /\ clientBuf[c] \in Seq(Units)
      BY <1>0, <2>1 DEF Local
    <3>2. Through(clientBuf[c], "DATA") = 2 /\ Len(clientBuf[c]) >= 2
      BY <2>1, <3>1, HeaderFound
    <3> QED
      BY <2>1, <3>1, <3>2, TakeKeeps
  <2> QED
    BY <1>0, <2>1, <2>3, <2>4 DEF Local, StatsType, handlerVars
<1>5. CASE ReadBody(c)
  <2> DEFINE buf == clientBuf[c]
             n == header[c].n
             res == [asked |-> asked[c], header |-> header[c], body |-> SubSeq(buf, 1, n)]
  <2>1. /\ clientPc[c] = "body" /\ clientPc'[c] = "idle" /\ Len(buf) >= n
        /\ results'[c] = Append(results[c], res)
        /\ clientBuf'[c] = Take(buf, n)
        /\ header'[c] = NoHeader
        /\ UNCHANGED <<asked, handlerVars, up, down>>
    BY <1>0, <1>5 DEF ReadBody, BodyComplete
  <2>2. /\ header[c] \in Units /\ asked[c] \in Requests /\ buf \in Seq(Units)
        /\ results[c] \in Seq(Results) /\ Len(results[c]) < MaxFetches[c]
    BY <1>0, <2>1 DEF Local
  <2>3. n \in Nat /\ Len(buf) \in Nat
    BY <2>2, LenProperties DEF Units
  <2>4. SubSeq(buf, 1, n) \in Seq(Units) /\ clientBuf'[c] \in Seq(Units)
    BY <2>1, <2>2, <2>3, PartOfSeq, TakeKeeps
  <2>5. res \in Results
    BY <2>2, <2>4 DEF Results
  <2> HIDE DEF res
  <2>6. results'[c] \in Seq(Results) /\ Len(results'[c]) <= MaxFetches[c]
    <3>1. results'[c] \in Seq(Results) /\ Len(results'[c]) = Len(results[c]) + 1
      BY <2>1, <2>2, <2>5, AppendProperties
    <3>2. Len(results[c]) \in Nat /\ MaxFetches[c] \in Nat
      BY <2>2, LenProperties, ExchangeAssumption
    <3> QED
      BY <2>2, <3>1, <3>2
  <2> QED
    BY <1>0, <2>1, <2>4, <2>6 DEF Local, StatsType, handlerVars
<1>6. CASE HandlerRecv(c)
  <2>1. PICK n \in 1..Len(up[c]) :
          /\ lineBuf'[c] = Received(lineBuf[c], up[c], n)
          /\ up'[c] = Take(up[c], n)
    BY <1>0, <1>6 DEF HandlerRecv
  <2>2. UNCHANGED <<handlerPc, request, stats, seen, clientVars, down>>
    BY <1>6 DEF HandlerRecv
  <2>3. lineBuf'[c] \in Seq(Units) /\ up'[c] \in Seq(Units)
    BY <1>0, <2>1, RecvKeeps DEF Local
  <2> QED
    BY <1>0, <2>2, <2>3 DEF Local, StatsType, clientVars
<1>7. CASE ReadLine(c)
  <2>1. /\ handlerPc'[c] = "parsed" /\ lineBuf'[c] = << >>
        /\ request'[c] = lineBuf[c][1].request
        /\ Has(lineBuf[c], "newline")
        /\ UNCHANGED <<stats, seen, clientVars, up, down>>
    BY <1>0, <1>7 DEF ReadLine
  <2>2. Len(lineBuf[c]) \in Nat /\ Len(lineBuf[c]) >= 1
    BY <1>0, <2>1, LenProperties DEF Has, Local
  <2>3. lineBuf[c][1] \in Units
    BY <1>0, <2>2, ElementOfSeq DEF Local
  <2>4. request'[c] \in Requests /\ lineBuf'[c] \in Seq(Units)
    BY <2>1, <2>3, EmptySeq DEF Units
  <2> QED
    BY <1>0, <2>1, <2>4 DEF Local, StatsType, Counting, clientVars
<1>8. CASE HandlerEof(c) \/ HandlerTimeout(c)
  <2>1. /\ handlerPc'[c] = "closed"
        /\ UNCHANGED <<request, lineBuf, stats, seen, clientVars, up, down>>
    BY <1>0, <1>8 DEF HandlerEof, HandlerTimeout
  <2> QED
    BY <1>0, <2>1 DEF Local, StatsType, Counting, clientVars
<1>9. CASE UpdateStats(c)
  <2>1. /\ handlerPc[c] = "counting" /\ handlerPc'[c] = "reading" /\ stats' = Count(c)
        /\ seen'[c] = NoStats /\ UNCHANGED <<request, lineBuf, clientVars, up, down>>
    BY <1>0, <1>9 DEF UpdateStats
  <2>2. Size[request[c]] \in Nat /\ seen[c] \in Statistics /\ NoStats \in Statistics
    BY <1>0, <2>1, ExchangeAssumption DEF Local, Counting, NoStats, Statistics
  <2>3. StatsType'
    BY <1>0, <2>1, <2>2 DEF StatsType, Count, Statistics
  <2> QED
    BY <1>0, <2>1, <2>2, <2>3 DEF Local, Counting, clientVars
<1>14. CASE LockStats(c)
  <2>1. /\ handlerPc[c] = "count" /\ handlerPc'[c] = "counting" /\ seen'[c] = stats
        /\ UNCHANGED <<request, lineBuf, stats, clientVars, up, down>>
    BY <1>0, <1>14 DEF LockStats
  <2> QED
    BY <1>0, <2>1 DEF Local, StatsType, Counting, clientVars
<1>10. ASSUME NEW units \in Seq(Units), NEW next \in {"closed", "reading", "payload", "count"},
              next \in {"payload", "count"} => request[c] \in Stored,
              Reply(c, units, next)
       PROVE  Local(c)' /\ StatsType'
  <2>1. /\ handlerPc'[c] = next /\ down'[c] = down[c] \o units
        /\ UNCHANGED <<request, lineBuf, stats, seen, clientVars, up>>
    BY <1>0, <1>10 DEF Reply
  <2>2. down'[c] \in Seq(Units)
    BY <1>0, <2>1, ConcatProperties DEF Local
  <2> QED
    BY <1>0, <1>10, <2>1, <2>2 DEF Local, StatsType, Counting, clientVars
<1>11. CASE ReplyBadRequest(c) \/ ReplyNotFound(c) \/ SendHeader(c)
  <2>1. handlerPc[c] = "parsed" /\ request[c] \in Requests
    BY <1>0, <1>11 DEF ReplyBadRequest, ReplyNotFound, SendHeader, Local
  <2>2. /\ HeaderOf("400", request[c]) \in Seq(Units)
        /\ HeaderOf("404", request[c]) \in Seq(Units)
        /\ request[c] \in Stored => HeaderOf("200", request[c]) \in Seq(Units)
    BY <2>1, ReplyUnits
  <2> QED
    BY <1>10, <1>11, <2>2 DEF ReplyBadRequest, ReplyNotFound, SendHeader
<1>12. CASE SendPayload(c)
  <2>1. request[c] \in Stored /\ Reply(c, Payload(request[c]), "count")
    BY <1>0, <1>12 DEF SendPayload, Local
  <2>2. Payload(request[c]) \in Seq(Units)
    BY <2>1, ReplyUnits DEF Requests
  <2> QED
    BY <1>10, <2>1, <2>2
<1>13. CASE SendFails(c)
  <2>1. PICK units \in Seq(Units) : Reply(c, units, "closed")
    BY <1>0, <1>13, FailedReply DEF Local
  <2> QED
    BY <1>10, <2>1
<1> QED
  BY <1>1, <1>2, <1>3, <1>4, <1>5, <1>6, <1>7, <1>8, <1>9, <1>11, <1>12, <1>13, <1>14
     DEF Step, ClientStep, HandlerStep

-----------------------------------------------------------------------------
(* The protocol *)

\* What is on the wire and in the buffer of its reader.
Upward(c)   == lineBuf[c] \o up[c]
Downward(c) == clientBuf[c] \o down[c]

Matches(res) ==
  /\ res.header.request = res.asked
  /\ res.header.kind = Status(res.asked)
  /\ res.body = Body(res.asked)

\* A request is on its way, or it is with the handler, or its response, whole or
\* cut off, is all that there is; and that is as far as the client has not read it.
Conn(c) ==
  LET r == asked[c] IN
  /\ Upward(c) # << >> => /\ Upward(c) = RequestOf(r)
                          /\ r \in Requests
                          /\ clientPc[c] \in {"header", "raised"}
                          /\ handlerPc[c] \in {"reading", "closed"} \cup Counting
  /\ handlerPc[c] \in {"parsed", "payload"} =>
       request[c] = r /\ clientPc[c] \in {"header", "body", "raised"}
  /\ handlerPc[c] = "parsed" => clientPc[c] # "body"
  /\ clientPc[c] \in {"idle", "closed"} => Downward(c) = << >>
  /\ clientPc[c] = "header" =>
       /\ Begins(Downward(c), Response(r))
       /\ Upward(c) # << >> \/ handlerPc[c] = "parsed" => Downward(c) = << >>
       /\ handlerPc[c] = "payload" => Downward(c) = Header(r)
  /\ clientPc[c] = "body" =>
       /\ header[c] = Unit(Status(r), r, Len(Body(r)))
       /\ Begins(Downward(c), Body(r))
       /\ handlerPc[c] = "payload" => Downward(c) = << >>
  /\ \A i \in 1..Len(results[c]) : Matches(results[c][i])

\* Nothing happens to the others.
LEMMA SameLocal ==
  ASSUME NEW d \in Clients, Same(d), Local(d)
  PROVE  Local(d)'
BY DEF Same, Local

LEMMA SameConn ==
  ASSUME NEW d \in Clients, Same(d), Conn(d)
  PROVE  Conn(d)'
BY DEF Same, Conn, Upward, Downward

\* The buffer holds the beginning of what the stream and it hold.
LEMMA BufferBegins ==
  ASSUME NEW buf \in Seq(Units), NEW s \in Seq(Units),
         NEW t \in Seq(Units), Begins(buf \o s, t)
  PROVE  Begins(buf, t)
<1>1. Len(buf) \in Nat /\ Len(s) \in Nat /\ Len(t) \in Nat
  BY LenProperties
<1>2. /\ Len(buf \o s) = Len(buf) + Len(s)
      /\ \A i \in 1..Len(buf) : (buf \o s)[i] = buf[i]
  <2>1. /\ Len(buf \o s) = Len(buf) + Len(s)
        /\ \A i \in 1..(Len(buf) + Len(s)) :
             (buf \o s)[i] = IF i <= Len(buf) THEN buf[i] ELSE s[i - Len(buf)]
    BY ConcatProperties
  <2> QED
    BY <1>1, <2>1
<1>3. Len(buf) + Len(s) <= Len(t) /\ \A i \in 1..(Len(buf) + Len(s)) : (buf \o s)[i] = t[i]
  BY <1>2 DEF Begins
<1>4. Len(buf) <= Len(t)
  BY <1>1, <1>3
<1>5. \A i \in 1..Len(buf) : buf[i] = t[i]
  BY <1>1, <1>2, <1>3
<1> QED
  BY <1>4, <1>5 DEF Begins

LEMMA PartBegins ==
  ASSUME NEW t \in Seq(Units), NEW n \in Nat, n <= Len(t)
  PROVE  SubSeq(t, 1, n) \in Seq(Units) /\ Begins(SubSeq(t, 1, n), t)
<1> DEFINE u == SubSeq(t, 1, n)
<1>1. /\ u \in Seq(Units) /\ Len(u) = IF 1 <= n THEN n - 1 + 1 ELSE 0
      /\ \A i \in 1..(n - 1 + 1) : u[i] = t[1 + i - 1]
  BY PartOfSeq
<1> HIDE DEF u
<1>2. Len(u) = n
  BY <1>1
<1>3. ASSUME NEW i \in 1..n PROVE u[i] = t[i]
  <2>1. i \in 1..(n - 1 + 1) /\ 1 + i - 1 = i
    OBVIOUS
  <2> QED
    BY <1>1, <2>1
<1> QED
  BY <1>1, <1>2, <1>3 DEF Begins, u

LEMMA BeginsConcat ==
  ASSUME NEW a \in Seq(Units), NEW b \in Seq(Units), NEW u \in Seq(Units)
  PROVE  /\ Begins(u, a) => Begins(u, a \o b)
         /\ Begins(u, b) => Begins(a \o u, a \o b)
<1>1. Len(a) \in Nat /\ Len(b) \in Nat /\ Len(u) \in Nat
  BY LenProperties
<1>2. /\ Len(a \o b) = Len(a) + Len(b)
      /\ \A i \in 1..(Len(a) + Len(b)) :
           (a \o b)[i] = IF i <= Len(a) THEN a[i] ELSE b[i - Len(a)]
  BY ConcatProperties
<1>3. /\ Len(a \o u) = Len(a) + Len(u)
      /\ \A i \in 1..(Len(a) + Len(u)) :
           (a \o u)[i] = IF i <= Len(a) THEN a[i] ELSE u[i - Len(a)]
  BY ConcatProperties
<1>4. ASSUME Begins(u, a) PROVE Begins(u, a \o b)
  <2>1. Len(u) <= Len(a) /\ \A i \in 1..Len(u) : u[i] = a[i]
    BY <1>4 DEF Begins
  <2>2. ASSUME NEW i \in 1..Len(u) PROVE u[i] = (a \o b)[i]
    BY <1>1, <1>2, <2>1
  <2>3. Len(u) <= Len(a \o b)
    BY <1>1, <1>2, <2>1
  <2> QED
    BY <2>2, <2>3 DEF Begins
<1>5. ASSUME Begins(u, b) PROVE Begins(a \o u, a \o b)
  <2>1. Len(u) <= Len(b) /\ \A i \in 1..Len(u) : u[i] = b[i]
    BY <1>5 DEF Begins
  <2>2. Len(a \o u) <= Len(a \o b)
    BY <1>1, <1>2, <1>3, <2>1
  <2>3. ASSUME NEW i \in 1..(Len(a) + Len(u)) PROVE (a \o u)[i] = (a \o b)[i]
    <3>1. i \in 1..(Len(a) + Len(b))
      BY <1>1, <2>1
    <3>2. CASE i <= Len(a)
      BY <1>2, <1>3, <3>1, <3>2
    <3>3. CASE ~(i <= Len(a))
      <4>1. i - Len(a) \in 1..Len(u)
        BY <1>1, <3>3
      <4> QED
        BY <1>2, <1>3, <2>1, <3>1, <3>3, <4>1
    <3> QED
      BY <3>2, <3>3
  <2> QED
    BY <1>3, <2>2, <2>3 DEF Begins
<1> QED
  BY <1>4, <1>5

LEMMA EmptyBegins ==
  ASSUME NEW t \in Seq(Units)
  PROVE  Begins(<< >>, t)
BY EmptySeq, LenProperties DEF Begins

\* A handler sends the beginning of the response that is due.
LEMMA ReplyKeeps ==
  ASSUME NEW c \in Clients, NEW units \in Seq(Units),
         NEW next \in {"closed", "reading", "payload", "count"},
         Maps, Local(c), Conn(c), Reply(c, units, next),
         handlerPc[c] \in {"parsed", "payload"},
         handlerPc[c] = "parsed" => Begins(units, Header(asked[c])),
         handlerPc[c] = "payload" => Begins(units, Body(asked[c])),
         next = "payload" => handlerPc[c] = "parsed" /\ units = Header(asked[c])
  PROVE  Conn(c)'
<1> DEFINE r == asked[c]
<1>1. /\ handlerPc'[c] = next /\ down'[c] = down[c] \o units
      /\ UNCHANGED <<request, lineBuf, clientVars, up>>
  BY DEF Reply, Maps, IsMap
<1>2. /\ clientBuf[c] \in Seq(Units) /\ down[c] \in Seq(Units)
      /\ lineBuf[c] \in Seq(Units) /\ up[c] \in Seq(Units)
      /\ request[c] = r /\ r \in Requests
      /\ clientPc[c] \in {"header", "body", "raised"}
  BY DEF Local, Conn, Requests
<1>3. Upward(c) = << >> /\ Upward(c)' = << >>
  BY <1>1 DEF Conn, Upward, Counting
<1>4. Downward(c)' = Downward(c) \o units
  <2>1. Downward(c)' = clientBuf[c] \o (down[c] \o units)
    BY <1>1 DEF Downward, clientVars
  <2>2. Regrouped(clientBuf[c], down[c], units)
    BY <1>2, Regroup, Zenon
  <2> QED
    BY <2>1, <2>2, Zenon DEF Regrouped, Downward
<1>5. Downward(c) = << >> => Downward(c)' = units
  BY <1>4, ConcatEmptySeq
<1>6. /\ Header(r) \in Seq(Units) /\ Body(r) \in Seq(Units)
      /\ Response(r) = Header(r) \o Body(r)
  BY <1>2, HeaderUnits, BodyUnits DEF Response
<1>7. ASSUME clientPc[c] = "header"
      PROVE  Begins(Downward(c)', Response(r)) /\ (next = "payload" => Downward(c)' = Header(r))
  <2>1. CASE handlerPc[c] = "parsed"
    <3>1. Downward(c)' = units
      BY <1>5, <1>7, <2>1 DEF Conn
    <3>2. Begins(units, Response(r))
      BY <1>6, <2>1, BeginsConcat
    <3> QED
      BY <3>1, <3>2
  <2>2. CASE handlerPc[c] = "payload"
    <3>1. Downward(c)' = Header(r) \o units
      BY <1>4, <1>7, <2>2 DEF Conn
    <3>2. Begins(Header(r) \o units, Response(r))
      BY <1>6, <2>2, BeginsConcat
    <3> QED
      BY <2>2, <3>1, <3>2
  <2> QED
    BY <2>1, <2>2
<1>8. ASSUME clientPc[c] = "body"
      PROVE  Begins(Downward(c)', Body(r)) /\ next # "payload"
  BY <1>5, <1>8 DEF Conn
<1>9. asked'[c] = r /\ request'[c] = r /\ clientPc' = clientPc /\ header' = header /\ results' = results
  BY <1>1, <1>2 DEF clientVars
<1>10. clientPc[c] = "body" => header[c] = Unit(Status(r), r, Len(Body(r)))
  BY DEF Conn
<1>11. \A i \in 1..Len(results[c]) : Matches(results[c][i])
  BY DEF Conn
<1>12. /\ handlerPc'[c] # "parsed" /\ clientPc'[c] \in {"header", "body", "raised"}
       /\ handlerPc'[c] = "payload" => next = "payload"
  BY <1>1, <1>2, <1>9
<1> HIDE DEF r
<1> QED
  BY <1>3, <1>7, <1>8, <1>9, <1>10, <1>11, <1>12 DEF Conn

\* The client has received part of a response.
LEMMA ReadHeaderKeeps ==
  ASSUME NEW c \in Clients, Maps, Local(c), Conn(c), ReadHeader(c)
  PROVE  Conn(c)'
<1> DEFINE r == asked[c]
           buf == clientBuf[c]
           n == Len(Body(r))
<1>1. /\ clientPc[c] = "header" /\ Has(buf, "DATA") /\ r \in Requests
      /\ buf \in Seq(Units) /\ down[c] \in Seq(Units)
      /\ clientPc'[c] = "body" /\ header'[c] = buf[1]
      /\ clientBuf'[c] = Take(buf, Through(buf, "DATA"))
      /\ UNCHANGED <<asked, results, handlerVars, up, down>>
  BY DEF ReadHeader, HeaderComplete, Maps, IsMap, Local
<1>2. Begins(Downward(c), Response(r))
  BY <1>1 DEF Conn
<1>3. Response(r) \in Seq(Units) /\ Len(Response(r)) = 2 + n /\ n \in Nat
  BY <1>1, ResponseUnits
<1>4. Begins(buf, Response(r))
  BY <1>1, <1>2, <1>3, BufferBegins DEF Downward
<1>5. /\ Len(buf) >= 2 /\ Through(buf, "DATA") = 2
      /\ buf[1] = Unit(Status(r), r, n)
  BY <1>1, <1>4, HeaderFound
<1>6. /\ Len(Downward(c)') = Len(Downward(c)) - 2
      /\ \A i \in 1..(Len(Downward(c)) - 2) : Downward(c)'[i] = Downward(c)[2 + i]
      /\ Downward(c)' \in Seq(Units) /\ Downward(c) \in Seq(Units)
  <2>1. /\ Take(buf, 2) \in Seq(Units)
        /\ Len(Take(buf, 2) \o down[c]) = Len(buf \o down[c]) - 2
        /\ \A i \in 1..(Len(buf \o down[c]) - 2) :
             (Take(buf, 2) \o down[c])[i] = (buf \o down[c])[2 + i]
    <3>1. buf \in Seq(Units) /\ down[c] \in Seq(Units) /\ 2 \in Nat /\ 2 <= Len(buf)
      BY <1>1, <1>5
    <3>2. Take(buf, 2) \in Seq(Units) /\ Remains(buf, down[c], 2)
      BY <3>1, TakeKeeps, Zenon
    <3> QED
      BY <3>2 DEF Remains
  <2>2. Take(buf, 2) \o down[c] \in Seq(Units) /\ buf \o down[c] \in Seq(Units)
    BY <1>1, <2>1, ConcatProperties
  <2>3. Downward(c) = buf \o down[c] /\ Downward(c)' = Take(buf, 2) \o down[c]
    BY <1>1, <1>5 DEF Downward
  <2> QED
    BY <2>1, <2>2, <2>3
<1>7. Len(Downward(c)) \in Nat /\ Len(Downward(c)) >= 2
  <2>1. Len(Downward(c)) = Len(buf) + Len(down[c]) /\ Len(buf) \in Nat /\ Len(down[c]) \in Nat
    BY <1>1, ConcatProperties, LenProperties DEF Downward
  <2> DEFINE b == Len(buf)
             d == Len(down[c])
             k == Len(Downward(c))
  <2>2. k = b + d /\ b \in Nat /\ d \in Nat /\ b >= 2
    BY <1>5, <2>1
  <2> HIDE DEF b, d, k
  <2>3. k \in Nat /\ k >= 2
    BY <2>2
  <2> QED
    BY <2>3 DEF k
<1>8. Downward(c) # << >>
  BY <1>7, EmptySeq
<1>9. Upward(c) = << >> /\ Upward(c)' = << >> /\ handlerPc[c] # "parsed"
  BY <1>1, <1>8 DEF Conn, Upward, handlerVars
<1>10. Begins(Downward(c)', Body(r))
  <2>1. Len(Downward(c)) <= 2 + n /\ \A i \in 1..Len(Downward(c)) : Downward(c)[i] = Response(r)[i]
    BY <1>2, <1>3 DEF Begins
  <2>2. Len(Downward(c)') <= n
    BY <1>3, <1>6, <1>7, <2>1
  <2>3. ASSUME NEW i \in 1..Len(Downward(c)') PROVE Downward(c)'[i] = Body(r)[i]
    <3> DEFINE k == Len(Downward(c))
    <3>1. i \in 1..(k - 2) /\ k \in Nat /\ k <= 2 + n /\ n \in Nat
      BY <1>3, <1>6, <1>7, <2>1
    <3>2. Downward(c)'[i] = Downward(c)[2 + i]
      BY <1>6, <3>1
    <3>3. 2 + i \in 1..k => Downward(c)[2 + i] = Response(r)[2 + i]
      BY <2>1
    <3>4. i \in 1..n => Response(r)[2 + i] = Body(r)[i]
      BY <1>1, ResponseUnits
    <3> HIDE DEF k, n
    <3>5. 2 + i \in 1..k /\ i \in 1..n
      BY <3>1
    <3> QED
      BY <3>2, <3>3, <3>4, <3>5
  <2> QED
    BY <2>2, <2>3 DEF Begins
<1>11. handlerPc[c] = "payload" => Downward(c)' = << >>
  <2>1. handlerPc[c] = "payload" => Len(Downward(c)) = 2
    BY <1>1, HeaderUnits DEF Conn
  <2> DEFINE k == Len(Downward(c))
             m == Len(Downward(c)')
  <2>2. m = k - 2
    BY <1>6
  <2>3. m = 0 => Downward(c)' = << >>
    BY <1>6, EmptySeq
  <2> HIDE DEF k, m
  <2>4. k = 2 => m = 0
    BY <2>2
  <2> QED
    BY <2>1, <2>3, <2>4 DEF k
<1>12. /\ handlerPc'[c] = handlerPc[c] /\ request'[c] = request[c] /\ asked'[c] = r
       /\ results' = results
  BY <1>1 DEF handlerVars
<1>13. /\ handlerPc[c] = "payload" => request[c] = r
       /\ \A i \in 1..Len(results[c]) : Matches(results[c][i])
  BY DEF Conn
<1>14. header'[c] = Unit(Status(r), r, Len(Body(r)))
  BY <1>1, <1>5
<1> HIDE DEF r
<1> QED
  BY <1>1, <1>9, <1>10, <1>11, <1>12, <1>13, <1>14 DEF Conn

\* The client has received the whole response.
LEMMA BodyIsWhole ==
  ASSUME NEW c \in Clients, Maps, Local(c), Conn(c), ReadBody(c)
  PROVE  /\ header[c] = Unit(Status(asked[c]), asked[c], Len(Body(asked[c])))
         /\ header[c].n = Len(Body(asked[c])) /\ Len(clientBuf[c]) = header[c].n
         /\ SubSeq(clientBuf[c], 1, header[c].n) = Body(asked[c])
         /\ Len(down[c]) = 0 /\ Len(Downward(c)) = Len(Body(asked[c]))
         /\ results'[c] = Append(results[c], AnswerOf(asked[c]))
<1> DEFINE r == asked[c]
           buf == clientBuf[c]
           n == Len(Body(r))
<1>1. /\ clientPc[c] = "body" /\ Len(buf) >= header[c].n /\ r \in Requests
      /\ buf \in Seq(Units) /\ down[c] \in Seq(Units) /\ results[c] \in Seq(Results)
      /\ header[c] \in Units
      /\ results'[c] = Append(results[c], [asked |-> asked[c], header |-> header[c],
                                           body  |-> SubSeq(buf, 1, header[c].n)])
  BY DEF ReadBody, BodyComplete, Maps, IsMap, Local
<1>2. header[c] = Unit(Status(r), r, n) /\ Begins(Downward(c), Body(r))
  BY <1>1 DEF Conn
<1>3. header[c].n = n /\ header[c].kind = Status(r) /\ header[c].request = r
  BY <1>2, UnitParts
<1>4. Body(r) \in Seq(Units) /\ n \in Nat
  BY <1>1, BodyUnits, LenProperties
<1>5. Len(buf) \in Nat /\ Len(down[c]) \in Nat /\ Len(Downward(c)) = Len(buf) + Len(down[c])
  BY <1>1, ConcatProperties, LenProperties DEF Downward
<1>6. Len(Downward(c)) <= n
  BY <1>2 DEF Begins
<1>7. Len(buf) = n /\ Len(down[c]) = 0 /\ Len(Downward(c)) = n
  <2> DEFINE b == Len(buf)
             d == Len(down[c])
  <2>1. b \in Nat /\ d \in Nat /\ n \in Nat /\ b + d <= n /\ b >= n
    BY <1>1, <1>3, <1>4, <1>5, <1>6
  <2> HIDE DEF b, d, n
  <2>2. b = n /\ d = 0
    BY <2>1
  <2> QED
    BY <1>5, <2>1, <2>2 DEF b, d
<1>8. buf = Body(r)
  <2>1. Begins(buf, Body(r))
    BY <1>1, <1>2, <1>4, BufferBegins DEF Downward
  <2> QED
    BY <1>1, <1>4, <1>7, <2>1, SeqEqual DEF Begins
<1>9. SubSeq(buf, 1, n) = Body(r)
  BY <1>1, <1>7, <1>8, SubSeqFull
<1>10. results'[c] = Append(results[c], AnswerOf(r))
  BY <1>1, <1>2, <1>3, <1>9 DEF AnswerOf
<1> QED
  BY <1>2, <1>3, <1>7, <1>9, <1>10

\* Then nothing is on its way, and the result is the answer.
LEMMA ReadBodyKeeps ==
  ASSUME NEW c \in Clients, Maps, Local(c), Conn(c), ReadBody(c)
  PROVE  Conn(c)'
<1> DEFINE r == asked[c]
           buf == clientBuf[c]
           n == Len(Body(r))
           res == AnswerOf(r)
<1>1. /\ clientPc[c] = "body" /\ r \in Requests
      /\ buf \in Seq(Units) /\ down[c] \in Seq(Units) /\ results[c] \in Seq(Results)
      /\ header[c] \in Units
      /\ clientPc'[c] = "idle"
      /\ clientBuf'[c] = Take(buf, header[c].n)
      /\ UNCHANGED <<asked, handlerVars, up, down>>
  BY DEF ReadBody, BodyComplete, Maps, IsMap, Local
<1>2. /\ header[c] = Unit(Status(r), r, n) /\ header[c].n = n
      /\ Len(buf) = n /\ Len(down[c]) = 0 /\ Len(Downward(c)) = n
      /\ results'[c] = Append(results[c], res)
  BY BodyIsWhole
<1>3. header[c].kind = Status(r) /\ header[c].request = r
  BY <1>2, UnitParts
<1>4. Body(r) \in Seq(Units) /\ n \in Nat
  BY <1>1, BodyUnits, LenProperties
<1>5. Downward(c)' = << >>
  <2>1. Take(buf, n) = << >>
    BY <1>2, <1>4, SubSeqEmpty DEF Take
  <2>2. down[c] = << >>
    BY <1>1, <1>2, EmptySeq
  <2>3. Downward(c)' = << >> \o << >>
    BY <1>1, <1>2, <2>1, <2>2 DEF Downward
  <2> QED
    BY <2>3, EmptySeq, ConcatEmptySeq
<1>6. Upward(c) = << >> /\ Upward(c)' = << >>
  BY <1>1 DEF Conn, Upward, handlerVars
<1>7. handlerPc[c] \notin {"parsed", "payload"}
  <2>1. handlerPc[c] # "parsed"
    BY <1>1 DEF Conn
  <2>2. ASSUME handlerPc[c] = "payload" PROVE FALSE
    <3>1. r \in Stored /\ Downward(c) = << >>
      BY <1>1, <2>2 DEF Conn, Local
    <3>2. Len(Downward(c)) = 0
      BY <3>1, EmptySeq
    <3>3. n \in Nat \ {0}
      BY <1>1, <3>1, BodyUnits
    <3> QED
      BY <1>2, <3>2, <3>3
  <2> QED
    BY <2>1, <2>2
<1>8. Matches(res)
  <2>1. res.asked = r /\ res.header = header[c] /\ res.body = Body(r)
    BY <1>2 DEF AnswerOf
  <2> HIDE DEF res, n
  <2> QED
    BY <1>3, <2>1 DEF Matches
<1>9. \A i \in 1..Len(results'[c]) : Matches(results'[c][i])
  <2>1. res \in Results
    BY <1>1, <1>2, <1>4 DEF AnswerOf, Results
  <2>2. \A i \in 1..Len(results[c]) : Matches(results[c][i])
    BY DEF Conn
  <2> HIDE DEF res
  <2>3. /\ Len(results'[c]) = Len(results[c]) + 1 /\ Len(results[c]) \in Nat
        /\ \A i \in 1..Len(results[c]) : results'[c][i] = results[c][i]
        /\ results'[c][Len(results[c]) + 1] = res
    BY <1>1, <1>2, <2>1, AppendProperties, LenProperties
  <2>4. ASSUME NEW i \in 1..Len(results'[c])
        PROVE  i \in 1..Len(results[c]) \/ i = Len(results[c]) + 1
    BY <2>3
  <2> QED
    BY <1>8, <2>2, <2>3, <2>4
<1>10. handlerPc'[c] = handlerPc[c]
  BY <1>1 DEF handlerVars
<1> QED
  BY <1>1, <1>5, <1>6, <1>7, <1>9, <1>10 DEF Conn

\* A fetch starts with nothing on the wire, and sends its request or nothing.
LEMMA FetchKeeps ==
  ASSUME NEW c \in Clients, Maps, Local(c), Conn(c), NEW r \in Requests, Fetch(c, r)
  PROVE  Conn(c)'
<1>1. /\ clientPc[c] = "idle" /\ asked'[c] = r
      /\ UNCHANGED <<header, clientBuf, results, handlerVars, down>>
      /\ \/ clientPc'[c] = "header" /\ up'[c] = up[c] \o RequestOf(r)
         \/ clientPc'[c] = "raised" /\ up'[c] = up[c]
  BY DEF Fetch, Maps, IsMap
<1>2. /\ Upward(c) = << >> /\ Downward(c) = << >>
      /\ handlerPc[c] \in {"reading", "closed"} \cup Counting
      /\ \A i \in 1..Len(results[c]) : Matches(results[c][i])
  BY <1>1 DEF Conn, Local, Counting
<1>3. handlerPc'[c] = handlerPc[c] /\ results'[c] = results[c]
  BY <1>1 DEF handlerVars
<1>4. Downward(c)' = << >>
  BY <1>1, <1>2 DEF Downward
<1>5. CASE clientPc'[c] = "header" /\ up'[c] = up[c] \o RequestOf(r)
  <2>1. lineBuf[c] \in Seq(Units) /\ up[c] \in Seq(Units) /\ RequestOf(r) \in Seq(Units)
    BY RequestUnits DEF Local
  <2>2. Upward(c)' = lineBuf[c] \o (up[c] \o RequestOf(r))
    BY <1>1, <1>5 DEF Upward, handlerVars
  <2>3. Regrouped(lineBuf[c], up[c], RequestOf(r))
    BY <2>1, Regroup, Zenon
  <2>4. << >> \o RequestOf(r) = RequestOf(r)
    BY <2>1, ConcatEmptySeq
  <2>5. Upward(c)' = RequestOf(r)
    BY <1>2, <2>2, <2>3, <2>4, Zenon DEF Regrouped, Upward
  <2>6. Begins(<< >>, Response(r))
    BY ResponseUnits, EmptyBegins
  <2> QED
    BY <1>1, <1>2, <1>3, <1>4, <1>5, <2>5, <2>6 DEF Conn
<1>6. CASE clientPc'[c] = "raised" /\ up'[c] = up[c]
  <2>1. Upward(c)' = << >>
    BY <1>1, <1>2, <1>6 DEF Upward, handlerVars
  <2> QED
    BY <1>1, <1>2, <1>3, <1>6, <2>1 DEF Conn
<1> QED
  BY <1>1, <1>5, <1>6

\* The client has received some more.
LEMMA ClientRecvKeeps ==
  ASSUME NEW c \in Clients, Maps, Local(c), Conn(c), ClientRecv(c)
  PROVE  Conn(c)'
<1>1. PICK n \in 1..Len(down[c]) :
        clientBuf'[c] = Received(clientBuf[c], down[c], n) /\ down'[c] = Take(down[c], n)
  BY DEF ClientRecv, Maps, IsMap
<1>2. Downward(c)' = Downward(c)
  <2>1. clientBuf[c] \in Seq(Units) /\ down[c] \in Seq(Units)
    BY DEF Local
  <2>2. Received(clientBuf[c], down[c], n) \o Take(down[c], n) = clientBuf[c] \o down[c]
    BY <2>1, RecvKeeps
  <2> QED
    BY <1>1, <2>2 DEF Downward
<1>3. UNCHANGED <<clientPc, asked, header, results, handlerVars, up>>
  BY DEF ClientRecv
<1>4. Upward(c)' = Upward(c)
  BY <1>3 DEF Upward, handlerVars
<1> QED
  BY <1>2, <1>3, <1>4 DEF Conn, handlerVars

\* The client has given up, or is done.
LEMMA ClientEndKeeps ==
  ASSUME NEW c \in Clients, Maps, Local(c), Conn(c),
         ClientEof(c) \/ ClientTimeout(c) \/ ClientClose(c)
  PROVE  Conn(c)'
<1>1. /\ UNCHANGED <<asked, header, clientBuf, results, handlerVars, up, down>>
      /\ \/ clientPc[c] \in {"header", "body"} /\ clientPc'[c] = "raised"
         \/ clientPc[c] = "idle" /\ clientPc'[c] = "closed"
  BY DEF ClientEof, ClientTimeout, ClientClose, Incomplete, Maps, IsMap
<1>2. Upward(c)' = Upward(c) /\ Downward(c)' = Downward(c)
  BY <1>1 DEF Upward, Downward, handlerVars
<1>3. handlerPc' = handlerPc /\ request' = request
  BY <1>1 DEF handlerVars
<1> QED
  BY <1>1, <1>2, <1>3 DEF Conn

\* The handler has received some more.
LEMMA HandlerRecvKeeps ==
  ASSUME NEW c \in Clients, Maps, Local(c), Conn(c), HandlerRecv(c)
  PROVE  Conn(c)'
<1>1. PICK n \in 1..Len(up[c]) :
        lineBuf'[c] = Received(lineBuf[c], up[c], n) /\ up'[c] = Take(up[c], n)
  BY DEF HandlerRecv, Maps, IsMap
<1>2. Upward(c)' = Upward(c)
  <2>1. lineBuf[c] \in Seq(Units) /\ up[c] \in Seq(Units)
    BY DEF Local
  <2>2. Received(lineBuf[c], up[c], n) \o Take(up[c], n) = lineBuf[c] \o up[c]
    BY <2>1, RecvKeeps
  <2> QED
    BY <1>1, <2>2 DEF Upward
<1>3. UNCHANGED <<handlerPc, request, stats, seen, clientVars, down>>
  BY DEF HandlerRecv
<1>4. Downward(c)' = Downward(c)
  BY <1>3 DEF Downward, clientVars
<1> QED
  BY <1>2, <1>3, <1>4 DEF Conn, clientVars

\* The line in the buffer is the whole of the request that was asked.
LEMMA LineRead ==
  ASSUME NEW c \in Clients, Local(c), Conn(c), Has(lineBuf[c], "newline")
  PROVE  /\ Upward(c) # << >> /\ asked[c] \in Requests
         /\ Len(lineBuf[c]) = 2 /\ up[c] = << >>
         /\ lineBuf[c][1].request = asked[c]
<1>1. lineBuf[c] \in Seq(Units) /\ up[c] \in Seq(Units)
  BY DEF Local
<1>2. Len(lineBuf[c]) # 0
  BY <1>1, LenProperties DEF Has
<1>3. Upward(c) # << >>
  BY <1>1, <1>2, ConcatEmptySeq, ConcatProperties, EmptySeq, LenProperties DEF Upward
<1>4. lineBuf[c] \o up[c] = RequestOf(asked[c]) /\ asked[c] \in Requests
  BY <1>3 DEF Conn, Upward
<1>5. /\ Len(lineBuf[c]) = 2 /\ up[c] = << >>
      /\ lineBuf[c][1] = Unit("text", asked[c], 0)
  BY <1>1, <1>4, LineIsRequest
<1> QED
  BY <1>3, <1>4, <1>5, UnitParts

LEMMA ReadLineKeeps ==
  ASSUME NEW c \in Clients, Maps, Local(c), Conn(c), ReadLine(c)
  PROVE  Conn(c)'
<1>1. /\ Has(lineBuf[c], "newline")
      /\ request'[c] = lineBuf[c][1].request /\ lineBuf'[c] = << >>
      /\ handlerPc'[c] = "parsed"
      /\ UNCHANGED <<stats, seen, clientVars, up, down>>
  BY DEF ReadLine, Maps, IsMap
<1>2. Upward(c) # << >> /\ up[c] = << >> /\ request'[c] = asked[c]
  BY <1>1, LineRead
<1>3. Upward(c)' = << >>
  <2>1. Upward(c)' = << >> \o << >>
    BY <1>1, <1>2 DEF Upward
  <2> QED
    BY <2>1, EmptySeq, ConcatEmptySeq
<1>4. Downward(c)' = Downward(c)
  BY <1>1 DEF Downward, clientVars
<1>5. clientPc[c] \in {"header", "raised"} /\ (clientPc[c] = "header" => Downward(c) = << >>)
  BY <1>2 DEF Conn
<1> QED
  BY <1>1, <1>2, <1>3, <1>4, <1>5 DEF Conn, clientVars

\* The handler has closed the connection, or counts.
LEMMA HandlerEndKeeps ==
  ASSUME NEW c \in Clients, Maps, Local(c), Conn(c),
         HandlerEof(c) \/ HandlerTimeout(c) \/ LockStats(c) \/ UpdateStats(c)
  PROVE  Conn(c)'
<1>1. /\ handlerPc[c] \in {"reading"} \cup Counting
      /\ handlerPc'[c] \in {"reading", "counting", "closed"}
      /\ UNCHANGED <<request, lineBuf, clientVars, up, down>>
  BY DEF HandlerEof, HandlerTimeout, LockStats, UpdateStats, Counting, Maps, IsMap
<1>2. Upward(c)' = Upward(c) /\ Downward(c)' = Downward(c)
  BY <1>1 DEF Upward, Downward, clientVars
<1> QED
  BY <1>1, <1>2 DEF Conn, Counting, clientVars

\* What is sent for a request begins its header, then its payload.
LEMMA ReplyStepKeeps ==
  ASSUME NEW c \in Clients, Maps, Local(c), Conn(c),
         \/ ReplyBadRequest(c) \/ ReplyNotFound(c) \/ SendHeader(c)
         \/ SendPayload(c) \/ SendFails(c)
  PROVE  Conn(c)'
<1> DEFINE r == asked[c]
<1>0. /\ handlerPc[c] \in {"parsed", "payload"} /\ request[c] = r /\ r \in Requests
      /\ handlerPc[c] = "payload" => r \in Stored
  BY DEF ReplyBadRequest, ReplyNotFound, SendHeader, SendPayload, SendFails, Conn, Local, Requests
<1>1. Header(r) \in Seq(Units) /\ Body(r) \in Seq(Units) /\ Len(Header(r)) = 2
  BY <1>0, HeaderUnits, BodyUnits
<1>2. \A t \in Seq(Units) : Begins(t, t)
  BY DEF Begins
<1>3. ASSUME NEW status \in {"200", "404", "400"},
             r \in IF status = "200" THEN Stored
                   ELSE IF status = "404" THEN Missing ELSE Malformed
      PROVE  HeaderOf(status, r) = Header(r)
  BY <1>3, ExchangeAssumption DEF Header, Status
<1>4. ASSUME NEW units \in Seq(Units), NEW next \in {"closed", "reading", "payload", "count"},
             Reply(c, units, next),
             handlerPc[c] = "parsed" => Begins(units, Header(r)),
             handlerPc[c] = "payload" => Begins(units, Body(r)),
             next = "payload" => handlerPc[c] = "parsed" /\ units = Header(r)
      PROVE  Conn(c)'
  BY <1>0, <1>4, ReplyKeeps
<1>5. CASE ReplyBadRequest(c)
  <2>1. handlerPc[c] = "parsed" /\ r \in Malformed /\ Reply(c, HeaderOf("400", r), "closed")
    BY <1>0, <1>5 DEF ReplyBadRequest
  <2>2. HeaderOf("400", r) = Header(r)
    BY <1>3, <2>1
  <2> QED
    BY <1>1, <1>2, <1>4, <2>1, <2>2
<1>6. CASE ReplyNotFound(c)
  <2>1. handlerPc[c] = "parsed" /\ r \in Missing /\ Reply(c, HeaderOf("404", r), "reading")
    BY <1>0, <1>6 DEF ReplyNotFound
  <2>2. HeaderOf("404", r) = Header(r)
    BY <1>3, <2>1
  <2> QED
    BY <1>1, <1>2, <1>4, <2>1, <2>2
<1>7. CASE SendHeader(c)
  <2>1. handlerPc[c] = "parsed" /\ r \in Stored /\ Reply(c, HeaderOf("200", r), "payload")
    BY <1>0, <1>7 DEF SendHeader
  <2>2. HeaderOf("200", r) = Header(r)
    BY <1>3, <2>1
  <2> QED
    BY <1>1, <1>2, <1>4, <2>1, <2>2
<1>8. CASE SendPayload(c)
  <2>1. handlerPc[c] = "payload" /\ r \in Stored /\ Reply(c, Payload(r), "count")
    BY <1>0, <1>8 DEF SendPayload
  <2>2. Payload(r) = Body(r)
    BY <2>1 DEF Body
  <2> QED
    BY <1>1, <1>2, <1>4, <2>1, <2>2
<1>9. CASE SendFails(c) /\ handlerPc[c] = "parsed"
  <2>1. PICK status \in {"200", "404", "400"}, n \in 0..1 :
          /\ r \in IF status = "200" THEN Stored
                   ELSE IF status = "404" THEN Missing ELSE Malformed
          /\ Reply(c, SubSeq(HeaderOf(status, r), 1, n), "closed")
    BY <1>0, <1>9 DEF SendFails
  <2>2. HeaderOf(status, r) = Header(r)
    BY <1>3, <2>1
  <2>3. /\ SubSeq(Header(r), 1, n) \in Seq(Units)
        /\ Begins(SubSeq(Header(r), 1, n), Header(r))
    BY <1>1, PartBegins
  <2> QED
    BY <1>4, <1>9, <2>1, <2>2, <2>3
<1>10. CASE SendFails(c) /\ handlerPc[c] = "payload"
  <2>1. PICK n \in 0..(Size[r] - 1) : Reply(c, SubSeq(Payload(r), 1, n), "closed")
    BY <1>0, <1>10 DEF SendFails
  <2>2. Payload(r) = Body(r) /\ Len(Body(r)) = Size[r] /\ Size[r] \in Nat
    BY <1>0, <1>10, BodyUnits DEF Body
  <2>3. n \in Nat /\ n <= Len(Body(r))
    BY <2>1, <2>2
  <2>4. /\ SubSeq(Body(r), 1, n) \in Seq(Units)
        /\ Begins(SubSeq(Body(r), 1, n), Body(r))
    BY <1>1, <2>3, PartBegins
  <2> QED
    BY <1>4, <1>10, <2>1, <2>2, <2>4
<1> QED
  BY <1>0, <1>5, <1>6, <1>7, <1>8, <1>9, <1>10

LEMMA ConnKept ==
  ASSUME NEW c \in Clients, Maps, Local(c), Conn(c), Step(c)
  PROVE  Conn(c)'
BY FetchKeeps, ClientRecvKeeps, ClientEndKeeps, ReadHeaderKeeps, ReadBodyKeeps,
   HandlerRecvKeeps, ReadLineKeeps, HandlerEndKeeps, ReplyStepKeeps
   DEF Step, ClientStep, HandlerStep

-----------------------------------------------------------------------------
(* Theorems *)

Inv == Types /\ \A c \in Clients : Conn(c)

LEMMA Initially ==
  ASSUME Init
  PROVE  Inv
<1>1. << >> \o << >> = << >>
  BY EmptySeq, ConcatEmptySeq
<1>2. Maps
  BY DEF Init, Maps, IsMap
<1>3. ASSUME NEW c \in Clients PROVE Local(c)
  <2>1. /\ << >> \in Seq(Units) /\ << >> \in Seq(Results) /\ Len(<< >>) = 0
        /\ MaxFetches[c] \in Nat
    BY EmptySeq, ExchangeAssumption
  <2> QED
    BY <2>1 DEF Init, Local, Counting, NoStats, Statistics
<1>4. ASSUME NEW c \in Clients PROVE Conn(c)
  <2>1. Upward(c) = << >> /\ Downward(c) = << >>
    BY <1>1 DEF Init, Upward, Downward
  <2>2. clientPc[c] = "idle" /\ handlerPc[c] = "reading" /\ Len(results[c]) = 0
    BY EmptySeq DEF Init
  <2> QED
    BY <2>1, <2>2 DEF Conn
<1>5. stats \in Statistics
  BY DEF Init, NoStats, Statistics
<1> QED
  BY <1>2, <1>3, <1>4, <1>5 DEF Inv, Types

LEMMA Inductive ==
  ASSUME Inv, [Next]_vars
  PROVE  Inv'
<1>1. CASE UNCHANGED vars
  BY <1>1 DEF Inv, Types, Maps, IsMap, Local, Conn, Upward, Downward, vars,
              clientVars, handlerVars
<1>2. ASSUME NEW c \in Clients, Step(c) PROVE Inv'
  <2>1. Types /\ Maps /\ (\A d \in Clients : Local(d)) /\ (\A d \in Clients : Conn(d))
    BY DEF Inv, Types
  <2>2. Maps' /\ \A d \in Clients \ {c} : Same(d)
    BY <1>2, <2>1, OnlyOne
  <2>3. clientPc[c] = "header" => Begins(clientBuf[c], Response(asked[c]))
    <3>1. SUFFICES ASSUME clientPc[c] = "header"
                   PROVE  Begins(clientBuf[c], Response(asked[c]))
      OBVIOUS
    <3>2. /\ clientBuf[c] \in Seq(Units) /\ down[c] \in Seq(Units)
          /\ Response(asked[c]) \in Seq(Units)
      BY <2>1, <3>1, ResponseUnits DEF Local
    <3>3. Begins(clientBuf[c] \o down[c], Response(asked[c]))
      BY <2>1, <3>1 DEF Conn, Downward
    <3> QED
      BY <3>2, <3>3, BufferBegins
  <2>4. Local(c)' /\ StatsType'
    BY <1>2, <2>1, <2>3, LocalKept
  <2>5. Conn(c)'
    BY <1>2, <2>1, ConnKept
  <2>6. ASSUME NEW d \in Clients PROVE Local(d)' /\ Conn(d)'
    BY <2>1, <2>2, <2>4, <2>5, SameLocal, SameConn
  <2> QED
    BY <2>2, <2>4, <2>6 DEF Inv, Types, StatsType
<1> QED
  BY <1>1, <1>2, StepOrNot

LEMMA Invariance == Spec => []Inv
<1>1. Init => Inv
  BY Initially
<1>2. Inv /\ [Next]_vars => Inv'
  BY Inductive
<1> QED
  BY <1>1, <1>2, PTL DEF Spec

\* Every buffer and stream holds whole units of the protocol, every handler has a
\* request when it needs one, and no client goes past its fetches
\* (socket_client.py:52-88; connection_handler.py:44-81).
THEOREM TypeCorrect == Spec => []TypeOK
<1>1. Inv => TypeOK
  <2> SUFFICES ASSUME Inv PROVE TypeOK
    OBVIOUS
  <2>1. Maps /\ (\A c \in Clients : Local(c)) /\ stats \in Statistics
    BY DEF Inv, Types
  <2>2. clientPc \in [Clients -> {"idle", "header", "body", "closed", "raised"}]
    BY <2>1 DEF Maps, IsMap, Local
  <2>3. /\ asked \in [Clients -> Requests \cup {None}]
        /\ header \in [Clients -> Units \cup {NoHeader}]
        /\ request \in [Clients -> Requests \cup {None}]
    BY <2>1 DEF Maps, IsMap, Local
  <2>4. /\ handlerPc \in [Clients -> {"reading", "parsed", "payload", "count", "counting",
                                      "closed"}]
        /\ seen \in [Clients -> Statistics]
    BY <2>1 DEF Maps, IsMap, Local
  <2>5. \A c \in Clients : /\ clientBuf[c] \in Seq(Units) /\ lineBuf[c] \in Seq(Units)
                           /\ up[c] \in Seq(Units) /\ down[c] \in Seq(Units)
                           /\ Len(results[c]) <= MaxFetches[c]
    BY <2>1 DEF Local
  <2> QED
    BY <2>1, <2>2, <2>3, <2>4, <2>5 DEF TypeOK
<1> QED
  BY <1>1, Invariance, PTL

\* A fetch returns the complete response to its own request, in whatever parts
\* the streams arrive and whatever fails (socket_client.py:52-56, 67-88;
\* connection_handler.py:44-75).
THEOREM ResponsesMatch == Spec => []ResponseMatches
<1>1. Inv => ResponseMatches
  BY DEF Inv, Conn, Matches, Status, Body, ResponseMatches
<1> QED
  BY <1>1, Invariance, PTL

\* What the caller sees of a step of the connection c.
Unseen == UNCHANGED <<[d \in Clients |-> Phase(d)], asked, results>>

LEMMA PhaseOf ==
  ASSUME NEW c \in Clients, NEW next, IsMap(clientPc), clientPc' = [clientPc EXCEPT ![c] = next]
  PROVE  [d \in Clients |-> Phase(d)]' =
           [[d \in Clients |-> Phase(d)] EXCEPT
              ![c] = IF next \in {"header", "body"} THEN "calling"
                     ELSE IF next \in {"closed", "raised"} THEN "ended" ELSE "idle"]
<1>1. /\ clientPc'[c] = next
      /\ \A d \in Clients \ {c} : clientPc'[d] = clientPc[d]
  BY DEF IsMap
<1>2. /\ Phase(c)' = IF next \in {"header", "body"} THEN "calling"
                     ELSE IF next \in {"closed", "raised"} THEN "ended" ELSE "idle"
      /\ \A d \in Clients \ {c} : Phase(d)' = Phase(d)
  BY <1>1 DEF Phase, ClientGone
<1> QED
  BY <1>2

LEMMA StepOfCall ==
  ASSUME NEW c \in Clients, Maps, Local(c), Conn(c), Step(c)
  PROVE  \/ Calls!Return(c) \/ Calls!End(c) \/ \E r \in Requests : Calls!Call(c, r)
         \/ Unseen
<1> DEFINE phase == [d \in Clients |-> Phase(d)]
<1>0. phase[c] = Phase(c) /\ IsMap(clientPc) /\ IsMap(results) /\ IsMap(asked)
  BY DEF Maps
<1>1. ASSUME NEW r \in Requests, Fetch(c, r) PROVE Calls!Call(c, r)
  <2>1. /\ clientPc[c] = "idle" /\ asked' = [asked EXCEPT ![c] = r] /\ results' = results
        /\ \/ clientPc' = [clientPc EXCEPT ![c] = "header"]
           \/ clientPc' = [clientPc EXCEPT ![c] = "raised"]
    BY <1>1 DEF Fetch
  <2>2. \E next \in {"calling", "ended"} : phase' = [phase EXCEPT ![c] = next]
    BY <1>0, <2>1, PhaseOf
  <2>3. phase[c] = "idle"
    BY <1>0, <2>1 DEF Phase, ClientGone
  <2> HIDE DEF phase
  <2> QED
    BY <2>1, <2>2, <2>3 DEF Calls!Call, phase
<1>2. CASE ReadBody(c)
  <2>1. /\ clientPc[c] = "body" /\ clientPc' = [clientPc EXCEPT ![c] = "idle"]
        /\ asked' = asked /\ asked[c] \in Requests
        /\ results' = [results EXCEPT ![c] = results'[c]]
    BY <1>0, <1>2 DEF ReadBody, Local, IsMap
  <2>2. results'[c] = Append(results[c], AnswerOf(asked[c]))
    BY <1>2, BodyIsWhole
  <2>3. results' = [results EXCEPT ![c] = Append(@, [r \in Requests |-> AnswerOf(r)][asked[c]])]
    BY <2>1, <2>2
  <2>4. phase' = [phase EXCEPT ![c] = "idle"] /\ phase[c] = "calling"
    BY <1>0, <2>1, PhaseOf DEF Phase
  <2> HIDE DEF phase
  <2> QED
    BY <2>1, <2>3, <2>4 DEF Calls!Return, phase
<1>3. CASE ReadHeader(c)
  <2>1. /\ clientPc[c] = "header" /\ clientPc' = [clientPc EXCEPT ![c] = "body"]
        /\ asked' = asked /\ results' = results
    BY <1>3 DEF ReadHeader
  <2>2. phase' = [phase EXCEPT ![c] = "calling"] /\ phase[c] = "calling"
    BY <1>0, <2>1, PhaseOf DEF Phase
  <2>3. phase' = phase
    BY <2>2
  <2> HIDE DEF phase
  <2> QED
    BY <2>1, <2>3 DEF Unseen, phase
<1>4. CASE ClientEof(c) \/ ClientTimeout(c) \/ ClientClose(c)
  <2>1. /\ clientPc[c] \in {"header", "body", "idle"} /\ asked' = asked /\ results' = results
        /\ \/ clientPc' = [clientPc EXCEPT ![c] = "raised"]
           \/ clientPc' = [clientPc EXCEPT ![c] = "closed"]
    BY <1>4 DEF ClientEof, ClientTimeout, ClientClose, Incomplete
  <2>2. phase' = [phase EXCEPT ![c] = "ended"] /\ phase[c] # "ended"
    BY <1>0, <2>1, PhaseOf DEF Phase, ClientGone
  <2> HIDE DEF phase
  <2> QED
    BY <2>1, <2>2 DEF Calls!End, phase
<1>5. CASE ClientRecv(c)
  BY <1>5 DEF ClientRecv, Unseen, Phase, ClientGone
<1>6. CASE HandlerStep(c) \/ HandlerTimeout(c) \/ SendFails(c)
  <2>1. UNCHANGED clientVars
    BY <1>6 DEF HandlerStep, HandlerRecv, ReadLine, HandlerEof, ReplyBadRequest, ReplyNotFound,
       SendHeader, SendPayload, LockStats, UpdateStats, HandlerTimeout, SendFails, Reply
  <2> QED
    BY <2>1 DEF clientVars, Unseen, Phase, ClientGone
<1> QED
  BY <1>1, <1>2, <1>3, <1>4, <1>5, <1>6 DEF Step, ClientStep

\* Every step on a connection is a call, a return or an end, or nothing the caller
\* sees: only ReadBody returns, and what it returns is the answer of the request
\* (socket_client.py:44-65).
THEOREM CallsImplemented == Spec => ImplementsCalls
<1>1. Init => Calls!Init
  BY DEF Init, Calls!Init, Phase, ClientGone
<1>2. Inv /\ [Next]_vars => [Calls!Next]_<<[c \in Clients |-> Phase(c)], asked, results>>
  <2> SUFFICES ASSUME Inv, [Next]_vars
               PROVE  [Calls!Next]_<<[c \in Clients |-> Phase(c)], asked, results>>
    OBVIOUS
  <2>1. Maps /\ \A d \in Clients : Local(d) /\ Conn(d)
    BY DEF Inv, Types
  <2>2. CASE UNCHANGED vars
    BY <2>2 DEF vars, clientVars, Phase, ClientGone
  <2>3. ASSUME NEW c \in Clients, Step(c)
        PROVE  [Calls!Next]_<<[d \in Clients |-> Phase(d)], asked, results>>
    BY <2>1, <2>3, StepOfCall DEF Calls!Next, Unseen
  <2> QED
    BY <2>2, <2>3, StepOrNot
<1> QED
  BY <1>1, <1>2, Invariance, PTL DEF Spec, ImplementsCalls, Calls!Spec

-----------------------------------------------------------------------------
(* What is on its way *)

\* The units of a response that the client has not read.
OnItsWay(c) == Len(clientBuf[c]) + Len(down[c])

\* What is on its way is what the protocol's invariant speaks of.
LEMMA OnItsWayIs ==
  ASSUME NEW c \in Clients, Local(c)
  PROVE  /\ OnItsWay(c) = Len(Downward(c)) /\ OnItsWay(c) \in Nat
         /\ Len(clientBuf[c]) \in Nat /\ Len(down[c]) \in Nat /\ Len(results[c]) \in Nat
<1>1. clientBuf[c] \in Seq(Units) /\ down[c] \in Seq(Units) /\ results[c] \in Seq(Results)
  BY DEF Local
<1>2. Len(clientBuf[c]) \in Nat /\ Len(down[c]) \in Nat /\ Len(results[c]) \in Nat
  BY <1>1, LenProperties
<1>3. Len(clientBuf[c] \o down[c]) = Len(clientBuf[c]) + Len(down[c])
  BY <1>1, ConcatProperties
<1>4. OnItsWay(c) = Len(Downward(c))
  BY <1>3, Zenon DEF OnItsWay, Downward
<1>5. OnItsWay(c) \in Nat
  <2> DEFINE a == Len(clientBuf[c])
             b == Len(down[c])
  <2>1. a \in Nat /\ b \in Nat /\ OnItsWay(c) = a + b
    BY <1>2 DEF OnItsWay
  <2> HIDE DEF a, b
  <2> QED
    BY <2>1
<1> QED
  BY <1>2, <1>4, <1>5

\* recv takes nothing away from it ...
LEMMA RecvMoves ==
  ASSUME NEW c \in Clients, Maps, Local(c), ClientRecv(c)
  PROVE  OnItsWay(c)' = OnItsWay(c)
<1>1. PICK n \in 1..Len(down[c]) :
        clientBuf'[c] = Received(clientBuf[c], down[c], n) /\ down'[c] = Take(down[c], n)
  BY DEF ClientRecv, Maps, IsMap
<1>2. /\ clientBuf'[c] \in Seq(Units) /\ down'[c] \in Seq(Units)
      /\ clientBuf'[c] \o down'[c] = clientBuf[c] \o down[c]
  <2>1. clientBuf[c] \in Seq(Units) /\ down[c] \in Seq(Units)
    BY DEF Local
  <2>2. /\ Received(clientBuf[c], down[c], n) \in Seq(Units)
        /\ Take(down[c], n) \in Seq(Units)
        /\ Received(clientBuf[c], down[c], n) \o Take(down[c], n) = clientBuf[c] \o down[c]
    BY <2>1, RecvKeeps
  <2> QED
    BY <1>1, <2>2
<1>3. Len(clientBuf'[c] \o down'[c]) = Len(clientBuf'[c]) + Len(down'[c])
  BY <1>2, ConcatProperties
<1> QED
  BY <1>2, <1>3, OnItsWayIs DEF OnItsWay, Downward

\* ... the header takes two units of it ...
LEMMA HeaderTakes ==
  ASSUME NEW c \in Clients, Maps, Local(c), Conn(c), ReadHeader(c)
  PROVE  /\ OnItsWay(c)' = OnItsWay(c) - 2 /\ OnItsWay(c) \in Nat
         /\ asked[c] \in Requests /\ clientPc'[c] = "body"
<1> DEFINE r == asked[c]
           buf == clientBuf[c]
<1>1. /\ clientPc[c] = "header" /\ Has(buf, "DATA") /\ r \in Requests
      /\ buf \in Seq(Units) /\ down[c] \in Seq(Units)
      /\ clientPc'[c] = "body" /\ clientBuf'[c] = Take(buf, Through(buf, "DATA"))
      /\ UNCHANGED <<asked, results, down>>
  BY DEF ReadHeader, HeaderComplete, Maps, IsMap, Local
<1>2. Begins(buf, Response(r))
  BY <1>1, BufferBegins, ResponseUnits DEF Conn, Downward
<1>3. Len(buf) >= 2 /\ Through(buf, "DATA") = 2
  BY <1>1, <1>2, HeaderFound
<1>4. Len(Take(buf, 2)) = Len(buf) - 2
  <2>1. Len(buf) \in Nat /\ Len(buf) <= Len(buf)
    BY OnItsWayIs
  <2>2. Len(SubSeq(buf, 3, Len(buf))) = IF 3 <= Len(buf) THEN Len(buf) - 3 + 1 ELSE 0
    BY <1>1, <2>1, PartOfSeq
  <2> QED
    BY <1>3, <2>1, <2>2 DEF Take
<1>5. OnItsWay(c)' = OnItsWay(c) - 2
  <2>1. Len(clientBuf'[c]) = Len(buf) - 2 /\ Len(down'[c]) = Len(down[c])
    BY <1>1, <1>3, <1>4
  <2>2. Len(buf) \in Nat /\ Len(down[c]) \in Nat
    BY OnItsWayIs
  <2>3. OnItsWay(c)' = Len(clientBuf'[c]) + Len(down'[c])
    BY DEF OnItsWay
  <2> HIDE DEF buf
  <2>4. OnItsWay(c)' = (Len(buf) - 2) + Len(down[c])
    BY <2>1, <2>3
  <2>5. (Len(buf) - 2) + Len(down[c]) = (Len(buf) + Len(down[c])) - 2
    BY <2>2
  <2> QED
    BY <2>4, <2>5 DEF OnItsWay, buf
<1> QED
  BY <1>1, <1>5, OnItsWayIs

\* ... and a reply adds its own.
LEMMA ReplyAdds ==
  ASSUME NEW c \in Clients, Maps, Local(c), NEW units \in Seq(Units), NEW next,
         Reply(c, units, next)
  PROVE  /\ OnItsWay(c) \in Nat /\ Len(units) \in Nat
         /\ OnItsWay(c)' = OnItsWay(c) + Len(units)
<1> DEFINE m == OnItsWay(c)
           u == Len(units)
<1>1. UNCHANGED clientVars /\ down'[c] = down[c] \o units
  BY DEF Reply, Maps, IsMap
<1>2. m \in Nat /\ u \in Nat /\ OnItsWay(c)' = m + u
  <2> DEFINE a == Len(clientBuf[c])
             b == Len(down[c])
  <2>1. Len(down'[c]) = b + u
    BY <1>1, ConcatProperties DEF Local
  <2>2. a \in Nat /\ b \in Nat /\ u \in Nat /\ m = a + b
    BY OnItsWayIs, LenProperties DEF OnItsWay
  <2>3. OnItsWay(c)' = a + (b + u)
    BY <1>1, <2>1 DEF OnItsWay, clientVars
  <2> HIDE DEF u, a, b, m
  <2> QED
    BY <2>2, <2>3
<1> QED
  BY <1>2

\* A fetch waits for what is on its way or is going to be sent: its request has not
\* been read, or the handler is serving it or has closed the connection, or else
\* the response is on its way as a whole, but for what has been read.
Coming(c) ==
  \/ clientPc[c] \notin {"header", "body"}
  \/ Upward(c) # << >>
  \/ handlerPc[c] \in {"parsed", "payload", "closed"}
  \/ OnItsWay(c) = Len(Body(asked[c])) + (IF clientPc[c] = "header" THEN 2 ELSE 0)

LEMMA SameComing ==
  ASSUME NEW d \in Clients, Same(d), Coming(d)
  PROVE  Coming(d)'
BY DEF Same, Coming, Upward, OnItsWay

\* A complete reply is the whole response.
LEMMA ReplyComing ==
  ASSUME NEW c \in Clients, Maps, Local(c), Conn(c),
         ReplyNotFound(c) \/ SendPayload(c)
  PROVE  Coming(c)'
<1> DEFINE r == asked[c]
           units == IF handlerPc[c] = "parsed" THEN HeaderOf("404", r) ELSE Payload(r)
<1>1. /\ handlerPc[c] \in {"parsed", "payload"} /\ request[c] = r /\ r \in Requests
      /\ handlerPc[c] = "parsed" => r \in Missing
      /\ handlerPc[c] = "payload" => r \in Stored
      /\ \E next : Reply(c, units, next)
  BY DEF ReplyNotFound, SendPayload, Conn, Local, Requests
<1>2. /\ units \in Seq(Units)
      /\ handlerPc[c] = "parsed" => Len(units) = 2 /\ Len(Body(r)) = 0
      /\ handlerPc[c] = "payload" => Len(units) = Len(Body(r))
      /\ Len(Body(r)) \in Nat
  <2>1. /\ HeaderOf("404", r) \in Seq(Units) /\ Len(HeaderOf("404", r)) = 2
        /\ r \in Stored => Payload(r) \in Seq(Units)
    BY <1>1, ReplyUnits
  <2>2. r \in Missing => r \notin Stored
    BY ExchangeAssumption
  <2>3. Len(Body(r)) \in Nat /\ Len(<< >>) = 0
    BY <1>1, ResponseUnits, EmptySeq
  <2> QED
    BY <1>1, <2>1, <2>2, <2>3 DEF Body
<1> HIDE DEF units
<1>3. PICK next : Reply(c, units, next)
  BY <1>1
<1>4. /\ OnItsWay(c) \in Nat /\ Len(units) \in Nat
      /\ OnItsWay(c)' = OnItsWay(c) + Len(units)
      /\ clientPc' = clientPc /\ asked' = asked
  BY <1>2, <1>3, ReplyAdds DEF Reply, clientVars
<1>5. clientPc[c] = "header" =>
        OnItsWay(c) = IF handlerPc[c] = "parsed" THEN 0 ELSE 2
  <2>1. clientPc[c] = "header" =>
          /\ handlerPc[c] = "parsed" => Downward(c) = << >>
          /\ handlerPc[c] = "payload" => Downward(c) = Header(r)
    BY DEF Conn
  <2> QED
    BY <1>1, <2>1, OnItsWayIs, EmptySeq, HeaderUnits
<1>6. clientPc[c] = "body" => handlerPc[c] = "payload" /\ OnItsWay(c) = 0
  <2>1. clientPc[c] = "body" => handlerPc[c] = "payload" /\ Downward(c) = << >>
    BY <1>1 DEF Conn
  <2> QED
    BY <2>1, OnItsWayIs, EmptySeq
<1> HIDE DEF r
<1>7. clientPc[c] \in {"header", "body"} =>
        OnItsWay(c)' = Len(Body(r)) + (IF clientPc[c] = "header" THEN 2 ELSE 0)
  <2> DEFINE m == OnItsWay(c)
             u == Len(units)
             n == Len(Body(r))
  <2>1. m \in Nat /\ u \in Nat /\ n \in Nat /\ OnItsWay(c)' = m + u
    BY <1>2, <1>4
  <2>2. /\ handlerPc[c] = "parsed" => u = 2 /\ n = 0
        /\ handlerPc[c] = "payload" => u = n
    BY <1>2
  <2>3. /\ clientPc[c] = "header" => m = IF handlerPc[c] = "parsed" THEN 0 ELSE 2
        /\ clientPc[c] = "body" => handlerPc[c] = "payload" /\ m = 0
    BY <1>5, <1>6
  <2>4. handlerPc[c] \in {"parsed", "payload"}
    BY <1>1
  <2> HIDE DEF m, u, n
  <2>5. clientPc[c] = "header" => m + u = n + 2
    BY <2>1, <2>2, <2>3, <2>4
  <2>6. clientPc[c] = "body" => m + u = n + 0
    BY <2>1, <2>2, <2>3
  <2> QED
    BY <2>1, <2>5, <2>6 DEF n
<1> QED
  BY <1>4, <1>7 DEF Coming, r

LEMMA ComingKept ==
  ASSUME NEW c \in Clients, Maps, Local(c), Conn(c), Coming(c), Step(c)
  PROVE  Coming(c)'
<1>1. ASSUME NEW r \in Requests, Fetch(c, r) PROVE Coming(c)'
  <2>1. CASE clientPc'[c] = "raised"
    BY <2>1 DEF Coming
  <2>2. CASE clientPc'[c] # "raised"
    <3>1. up'[c] = up[c] \o RequestOf(r) /\ lineBuf'[c] = lineBuf[c]
      BY <1>1, <2>2 DEF Fetch, Maps, IsMap, handlerVars
    <3>2. /\ up[c] \in Seq(Units) /\ lineBuf[c] \in Seq(Units)
          /\ RequestOf(r) \in Seq(Units) /\ Len(RequestOf(r)) = 2
      BY RequestUnits DEF Local
    <3>3. \A a, b \in Seq(Units) : a \o b \in Seq(Units) /\ (a \o b = << >> => b = << >>)
      BY ConcatEmptySeq, ConcatProperties, EmptySeq, LenProperties
    <3>4. up'[c] \in Seq(Units) /\ up'[c] # << >>
      <4>1. RequestOf(r) # << >>
        BY <3>2, EmptySeq
      <4>2. up[c] \o RequestOf(r) \in Seq(Units) /\ up[c] \o RequestOf(r) # << >>
        BY <3>2, <3>3, <4>1, Zenon
      <4> QED
        BY <3>1, <4>2, Zenon
    <3>5. Upward(c)' # << >>
      BY <3>1, <3>2, <3>3, <3>4 DEF Upward
    <3> QED
      BY <3>5 DEF Coming
  <2> QED
    BY <2>1, <2>2
<1>2. CASE ClientRecv(c)
  BY <1>2, RecvMoves DEF ClientRecv, Coming, Upward, handlerVars
<1>3. CASE ClientEof(c) \/ ClientTimeout(c) \/ ClientClose(c) \/ ReadBody(c)
  BY <1>3 DEF ClientEof, ClientTimeout, ClientClose, ReadBody, Coming, Maps, IsMap
<1>4. CASE ReadHeader(c)
  <2>1. /\ OnItsWay(c)' = OnItsWay(c) - 2 /\ OnItsWay(c) \in Nat
        /\ asked[c] \in Requests /\ clientPc'[c] = "body" /\ clientPc[c] = "header"
        /\ UNCHANGED <<asked, handlerVars, up>>
    BY <1>4, HeaderTakes DEF ReadHeader
  <2>2. Len(Body(asked[c])) \in Nat
    BY <2>1, ResponseUnits
  <2>3. OnItsWay(c) = Len(Body(asked[c])) + 2 => OnItsWay(c)' = Len(Body(asked[c])) + 0
    BY <2>1, <2>2
  <2> QED
    BY <2>1, <2>3 DEF Coming, Upward, handlerVars
<1>5. CASE HandlerRecv(c)
  <2>1. PICK n \in 1..Len(up[c]) :
          lineBuf'[c] = Received(lineBuf[c], up[c], n) /\ up'[c] = Take(up[c], n)
    BY <1>5 DEF HandlerRecv, Maps, IsMap
  <2>2. Upward(c)' = Upward(c)
    <3>1. lineBuf[c] \in Seq(Units) /\ up[c] \in Seq(Units)
      BY DEF Local
    <3>2. Received(lineBuf[c], up[c], n) \o Take(up[c], n) = lineBuf[c] \o up[c]
      BY <3>1, RecvKeeps
    <3> QED
      BY <2>1, <3>2 DEF Upward
  <2> QED
    BY <1>5, <2>2 DEF HandlerRecv, Coming, clientVars, OnItsWay
<1>6. CASE ReadLine(c) \/ HandlerEof(c) \/ HandlerTimeout(c)
  BY <1>6 DEF ReadLine, HandlerEof, HandlerTimeout, Coming, Maps, IsMap
<1>7. CASE LockStats(c) \/ UpdateStats(c)
  <2>1. handlerPc[c] \in Counting /\ UNCHANGED <<request, lineBuf, clientVars, up, down>>
    BY <1>7 DEF LockStats, UpdateStats, Counting
  <2> QED
    BY <2>1 DEF Coming, Upward, OnItsWay, Counting, clientVars
<1>8. CASE ReplyBadRequest(c) \/ SendHeader(c) \/ SendFails(c)
  BY <1>8, FailedReply DEF ReplyBadRequest, SendHeader, Reply, Coming, Maps, IsMap
<1> QED
  BY <1>1, <1>2, <1>3, <1>4, <1>5, <1>6, <1>7, <1>8, ReplyComing
     DEF Step, ClientStep, HandlerStep

ComingInv == Inv /\ \A c \in Clients : Coming(c)

LEMMA ComingAlways == Spec => []ComingInv
<1>1. Init => \A c \in Clients : Coming(c)
  BY DEF Init, Coming
<1>2. Inv /\ (\A c \in Clients : Coming(c)) /\ [Next]_vars => (\A c \in Clients : Coming(c))'
  <2> SUFFICES ASSUME Inv, \A c \in Clients : Coming(c), [Next]_vars, NEW d \in Clients
               PROVE  Coming(d)'
    OBVIOUS
  <2>1. Maps /\ \A c \in Clients : Local(c) /\ Conn(c)
    BY DEF Inv, Types
  <2>2. CASE UNCHANGED vars
    BY <2>2 DEF vars, clientVars, handlerVars, Coming, Upward, OnItsWay
  <2>3. ASSUME NEW c \in Clients, Step(c) PROVE Coming(d)'
    BY <2>1, <2>3, OnlyOne, SameComing, ComingKept
  <2> QED
    BY <2>2, <2>3, StepOrNot
<1> QED
  BY <1>1, <1>2, Invariance, PTL DEF Spec, ComingInv

\* When nothing is left to receive, a fetch that still waits is not the last to move.
LEMMA IsDue ==
  ASSUME NEW c \in Clients, Local(c), Conn(c), Coming(c), Incomplete(c), down[c] = << >>
  PROVE  AnswerIsDue(c)
<1> DEFINE r == asked[c]
           buf == clientBuf[c]
<1>1. /\ clientPc[c] \in {"header", "body"} /\ r \in Requests
      /\ buf \in Seq(Units) /\ lineBuf[c] \in Seq(Units)
  BY DEF Incomplete, Local
<1>2. OnItsWay(c) = Len(buf) /\ Downward(c) = buf /\ Len(buf) \in Nat
  BY <1>1, OnItsWayIs, EmptySeq, ConcatEmptySeq DEF OnItsWay, Downward
<1>3. ASSUME clientPc[c] = "header", OnItsWay(c) = Len(Body(r)) + 2 PROVE FALSE
  <2>1. Begins(buf, Response(r)) /\ Len(buf) = Len(Body(r)) + 2
    BY <1>2, <1>3 DEF Conn
  <2>2. Response(r)[2] = Unit("DATA", r, 0) /\ Len(Body(r)) \in Nat
    BY <1>1, ResponseUnits
  <2>3. 2 \in 1..Len(buf) /\ buf[2].kind = "DATA"
    BY <2>1, <2>2, UnitParts DEF Begins
  <2> QED
    BY <1>3, <2>3 DEF Incomplete, HeaderComplete, Has
<1>4. ASSUME clientPc[c] = "body", OnItsWay(c) = Len(Body(r)) + 0 PROVE FALSE
  <2>1. header[c].n = Len(Body(r)) /\ Len(Body(r)) \in Nat
    BY <1>1, <1>4, UnitParts, ResponseUnits DEF Conn
  <2> QED
    BY <1>2, <1>4, <2>1 DEF Incomplete, BodyComplete
<1>5. ASSUME Upward(c) # << >>, up[c] = << >> PROVE Has(lineBuf[c], "newline")
  <2>1. lineBuf[c] = RequestOf(r)
    BY <1>1, <1>5, ConcatEmptySeq DEF Conn, Upward
  <2> QED
    <3>1. 2 \in 1..Len(lineBuf[c]) /\ lineBuf[c][2] = Unit("newline", r, 0)
      BY <1>1, <2>1, RequestUnits
    <3> QED
      BY <3>1, UnitParts DEF Has
<1> QED
  BY <1>1, <1>3, <1>4, <1>5 DEF Coming, AnswerIsDue

\* No unit is left over between fetches, a line is read together with nothing that
\* comes after it, and during a fetch the two ends never wait for each other
\* (request_parser.py:43; socket_client.py:61-62, 70, 87).
THEOREM StaysInStep == Spec => []InStep
<1>1. ComingInv => InStep
  <2> SUFFICES ASSUME ComingInv, NEW c \in Clients
               PROVE  /\ clientPc[c] = "idle" =>
                           /\ down[c] = << >> /\ clientBuf[c] = << >>
                           /\ up[c] = << >> /\ lineBuf[c] = << >>
                      /\ Has(lineBuf[c], "newline") => Len(lineBuf[c]) = 2
                      /\ Incomplete(c) /\ down[c] = << >> => AnswerIsDue(c)
    BY DEF InStep
  <2>1. Local(c) /\ Conn(c) /\ Coming(c)
    BY DEF ComingInv, Inv, Types
  <2>2. /\ clientBuf[c] \in Seq(Units) /\ lineBuf[c] \in Seq(Units)
        /\ up[c] \in Seq(Units) /\ down[c] \in Seq(Units)
    BY <2>1 DEF Local
  <2>3. clientPc[c] = "idle" => Downward(c) = << >> /\ Upward(c) = << >>
    BY <2>1 DEF Conn
  <2>4. \A a, b \in Seq(Units) : a \o b = << >> => a = << >> /\ b = << >>
    BY ConcatEmptySeq, ConcatProperties, EmptySeq, LenProperties
  <2>5. Has(lineBuf[c], "newline") => Len(lineBuf[c]) = 2
    BY <2>1, LineRead
  <2>6. Incomplete(c) /\ down[c] = << >> => AnswerIsDue(c)
    BY <2>1, IsDue
  <2> QED
    BY <2>2, <2>3, <2>4, <2>5, <2>6 DEF Upward, Downward
<1> QED
  BY <1>1, ComingAlways, PTL

-----------------------------------------------------------------------------
(* The statistics *)

\* All of a segment is on its way to a client that waits for it.
Due(c) ==
  /\ asked[c] \in Stored
  /\ \/ clientPc[c] = "header" /\ OnItsWay(c) = 2 + Size[asked[c]]
     \/ clientPc[c] = "body" /\ OnItsWay(c) = Size[asked[c]]

\* The segments the client has received or is sure to receive, unless it gives up,
\* by their place among its results.
Shares(c) ==
  {i \in 1..Len(results[c]) : results[c][i].header.kind = "200"}
    \cup {i \in {Len(results[c]) + 1} : Due(c)}

AskedFor(c, i) == IF i <= Len(results[c]) THEN results[c][i].asked ELSE asked[c]

Owed      == {p \in Clients \X Nat : p[2] \in Shares(p[1])}
Uncounted == {c \in Clients : handlerPc[c] \in Counting}

\* What a segment adds to a counter: 1 to segments_sent, its size to bytes_sent.
Each == [r \in Stored |-> 1]

OwedWeights(weight)      == [p \in Clients \X Nat |-> weight[AskedFor(p[1], p[2])]]
UncountedWeights(weight) == [c \in Clients |-> weight[request[c]]]

\* A counter and what is to be added to it cover what is owed ...
Covers(total, O, o, U, u) ==
  /\ Summable(O, o) /\ Summable(U, u)
  /\ total + SumOver(U, u) >= SumOver(O, o)

\* ... and nothing more.
Equals(total, O, o, U, u) == total + SumOver(U, u) = SumOver(O, o)

NoneRaised == \A c \in Clients : clientPc[c] # "raised"

Accounts(total, weight) ==
  /\ Covers(total, Owed, OwedWeights(weight), Uncounted, UncountedWeights(weight))
  /\ NoneRaised =>
       Equals(total, Owed, OwedWeights(weight), Uncounted, UncountedWeights(weight))

Accounted == Accounts(stats.segments_sent, Each) /\ Accounts(stats.bytes_sent, Size)

\* Nothing owed is new, nothing is counted.
LEMMA CoversStill ==
  ASSUME NEW total \in Nat, NEW O, NEW o, NEW U, NEW u, NEW P, NEW p, NEW v,
         Covers(total, O, o, U, u), P \subseteq O,
         \A x \in P : p[x] = o[x], \A x \in U : v[x] = u[x]
  PROVE  /\ Covers(total, P, p, U, v)
         /\ P = O /\ Equals(total, O, o, U, u) => Equals(total, P, p, U, v)
<1>1. /\ Summable(O, o) /\ Summable(U, u)
      /\ total + SumOver(U, u) >= SumOver(O, o)
  BY DEF Covers
<1>2. Summable(P, p) /\ SumOver(P, p) <= SumOver(O, o)
  BY <1>1, SumOfFewer
<1>3. Summable(U, v) /\ SumOver(U, v) = SumOver(U, u)
  BY <1>1, SumOfFewer, SumExtensional
<1>4. P = O => SumOver(P, p) = SumOver(O, o)
  BY SumExtensional
<1>5. SumOver(O, o) \in Nat /\ SumOver(P, p) \in Nat /\ SumOver(U, u) \in Nat
  BY <1>1, <1>2, SumIsNat
<1> QED
  BY <1>1, <1>2, <1>3, <1>4, <1>5 DEF Covers, Equals

\* A segment is sent: it is to be counted, and owed if anyone waits for it.
LEMMA CoversSent ==
  ASSUME NEW total \in Nat, NEW O, NEW o, NEW U, NEW u, NEW P, NEW p, NEW v,
         NEW k, NEW c, NEW V, Covers(total, O, o, U, u),
         IsAdded(U, u, c, V, v),
         \/ P = O /\ \A x \in O : p[x] = o[x]
         \/ IsAdded(O, o, k, P, p) /\ p[k] = v[c]
  PROVE  /\ Covers(total, P, p, V, v)
         /\ P # O /\ Equals(total, O, o, U, u) => Equals(total, P, p, V, v)
<1>1. /\ Summable(O, o) /\ Summable(U, u)
      /\ total + SumOver(U, u) >= SumOver(O, o)
  BY DEF Covers
<1>2. Summable(V, v) /\ SumOver(V, v) = SumOver(U, u) + v[c]
  BY <1>1, SumOfOneMore
<1>3. SumOver(O, o) \in Nat /\ SumOver(U, u) \in Nat /\ v[c] \in Nat
  BY <1>1, SumIsNat DEF IsAdded
<1>4. CASE P = O /\ \A x \in O : p[x] = o[x]
  <2>1. Summable(P, p) /\ SumOver(P, p) = SumOver(O, o)
    BY <1>1, <1>4, SumOfFewer, SumExtensional
  <2> QED
    BY <1>1, <1>2, <1>3, <1>4, <2>1 DEF Covers
<1>5. CASE IsAdded(O, o, k, P, p) /\ p[k] = v[c]
  <2>1. Summable(P, p) /\ SumOver(P, p) = SumOver(O, o) + p[k]
    BY <1>1, <1>5, SumOfOneMore
  <2> QED
    BY <1>1, <1>2, <1>3, <1>5, <2>1 DEF Covers, Equals
<1> QED
  BY <1>4, <1>5

\* A segment that was to be counted is counted.
LEMMA CoversCounted ==
  ASSUME NEW total \in Nat, NEW O, NEW o, NEW U, NEW u, NEW p, NEW v, NEW c \in U,
         NEW T, T = U \ {c}, Covers(total, O, o, U, u), u[c] \in Nat,
         \A x \in O : p[x] = o[x], \A x \in U : v[x] = u[x]
  PROVE  /\ Covers(total + u[c], O, p, T, v)
         /\ Equals(total, O, o, U, u) => Equals(total + u[c], O, p, T, v)
<1>1. /\ Summable(O, o) /\ Summable(U, u)
      /\ total + SumOver(U, u) >= SumOver(O, o)
  BY DEF Covers
<1>2. Summable(T, v)
  BY <1>1, SumOfFewer
<1>3. SumOver(U, u) = SumOver(T, v) + u[c]
  <2>1. IsAdded(T, v, c, U, u)
    BY DEF IsAdded
  <2> QED
    BY <1>2, <2>1, SumOfOneMore
<1>4. Summable(O, p) /\ SumOver(O, p) = SumOver(O, o)
  BY <1>1, SumOfFewer, SumExtensional
<1>5. SumOver(O, o) \in Nat /\ SumOver(T, v) \in Nat
  BY <1>1, <1>2, SumIsNat
<1>6. Covers(total + u[c], O, p, T, v)
  BY <1>1, <1>2, <1>3, <1>4, <1>5 DEF Covers
<1>7. Equals(total, O, o, U, u) => Equals(total + u[c], O, p, T, v)
  BY <1>3, <1>4, <1>5 DEF Equals
<1> QED
  BY <1>6, <1>7

LEMMA SameShares ==
  ASSUME NEW d \in Clients, Same(d)
  PROVE  Shares(d)' = Shares(d) /\ \A i : AskedFor(d, i)' = AskedFor(d, i)
BY DEF Same, Shares, Due, OnItsWay, AskedFor

\* Nothing becomes due, and what was stays so unless the client has given up.
Settled(c) ==
  /\ Shares(c)' \subseteq Shares(c)
  /\ \A i \in Shares(c)' : AskedFor(c, i)' = AskedFor(c, i)
  /\ clientPc'[c] # "raised" => Shares(c)' = Shares(c)

\* It is so when the results stay, and what is due.
LEMMA SettledIf ==
  ASSUME NEW c \in Clients, Local(c), results'[c] = results[c],
         Due(c)' => Due(c) /\ asked'[c] = asked[c],
         Due(c) /\ clientPc'[c] # "raised" => Due(c)'
  PROVE  Settled(c)
<1> DEFINE k == Len(results[c])
           R == {i \in 1..k : results[c][i].header.kind = "200"}
<1>1. k \in Nat
  BY OnItsWayIs
<1>2. Shares(c) = R \cup {i \in {k + 1} : Due(c)}
  BY DEF Shares
<1>3. Shares(c)' = R \cup {i \in {k + 1} : Due(c)'}
  BY DEF Shares
<1>4. ASSUME NEW i \in Shares(c)' PROVE AskedFor(c, i)' = AskedFor(c, i)
  <2>1. CASE i \in R
    BY <2>1 DEF AskedFor
  <2>2. CASE Due(c)'
    BY <2>2 DEF AskedFor
  <2> QED
    BY <1>3, <1>4, <2>1, <2>2
<1> HIDE DEF k, R
<1>5. Shares(c)' \subseteq Shares(c)
  BY <1>2, <1>3
<1>6. clientPc'[c] # "raised" => Shares(c)' = Shares(c)
  BY <1>2, <1>3
<1> QED
  BY <1>4, <1>5, <1>6 DEF Settled

LEMMA FetchSettled ==
  ASSUME NEW c \in Clients, Maps, Local(c), Conn(c), NEW r \in Requests, Fetch(c, r)
  PROVE  Settled(c)
<1>1. /\ clientPc[c] = "idle" /\ clientPc'[c] \in {"header", "raised"} /\ asked'[c] = r
      /\ clientBuf'[c] = clientBuf[c] /\ down'[c] = down[c] /\ results'[c] = results[c]
  BY DEF Fetch, Maps, IsMap
<1>2. OnItsWay(c)' = 0
  <2>1. Downward(c) = << >>
    BY <1>1 DEF Conn
  <2>2. OnItsWay(c) = 0
    BY <2>1, OnItsWayIs, EmptySeq
  <2> QED
    BY <1>1, <2>2 DEF OnItsWay
<1>3. ~Due(c)
  BY <1>1 DEF Due
<1>4. ~Due(c)'
  <2>1. r \in Stored => Size[r] \in Nat \ {0}
    BY ExchangeAssumption
  <2> QED
    BY <1>1, <1>2, <2>1 DEF Due
<1> QED
  BY <1>1, <1>3, <1>4, SettledIf

LEMMA ClientRecvSettled ==
  ASSUME NEW c \in Clients, Maps, Local(c), ClientRecv(c)
  PROVE  Settled(c)
<1>1. OnItsWay(c)' = OnItsWay(c) /\ UNCHANGED <<clientPc, asked, header, results>>
  BY RecvMoves DEF ClientRecv
<1> QED
  BY <1>1, SettledIf DEF Due

LEMMA ClientEndSettled ==
  ASSUME NEW c \in Clients, Maps, Local(c),
         ClientEof(c) \/ ClientTimeout(c) \/ ClientClose(c)
  PROVE  Settled(c)
<1>1. /\ results' = results
      /\ \/ clientPc'[c] = "raised"
         \/ clientPc[c] = "idle" /\ clientPc'[c] = "closed"
  BY DEF ClientEof, ClientTimeout, ClientClose, Maps, IsMap
<1> QED
  BY <1>1, SettledIf DEF Due

\* The header is read: what is left of the response is its payload.
LEMMA ReadHeaderSettled ==
  ASSUME NEW c \in Clients, Maps, Local(c), Conn(c), ReadHeader(c)
  PROVE  Settled(c)
<1> DEFINE r == asked[c]
<1>1. /\ clientPc[c] = "header" /\ clientPc'[c] = "body"
      /\ UNCHANGED <<asked, results>>
  BY HeaderTakes DEF ReadHeader
<1>2. OnItsWay(c)' = OnItsWay(c) - 2
  BY HeaderTakes
<1>3. r \in Stored => Size[r] \in Nat
  BY ExchangeAssumption
<1>4. Due(c)' <=> Due(c)
  <2>1. Due(c) <=> r \in Stored /\ OnItsWay(c) = 2 + Size[r]
    BY <1>1 DEF Due
  <2>2. Due(c)' <=> r \in Stored /\ OnItsWay(c)' = Size[r]
    BY <1>1 DEF Due
  <2> QED
    BY <1>2, <1>3, <2>1, <2>2, OnItsWayIs
<1> QED
  BY <1>1, <1>4, SettledIf

\* The body is read: what was due is a result now.
LEMMA ReadBodySettled ==
  ASSUME NEW c \in Clients, Maps, Local(c), Conn(c), ReadBody(c)
  PROVE  Settled(c)
<1> DEFINE r == asked[c]
           k == Len(results[c])
           n == Len(Body(r))
           res == [asked |-> asked[c], header |-> header[c],
                   body |-> SubSeq(clientBuf[c], 1, header[c].n)]
<1>1. /\ clientPc[c] = "body" /\ Len(clientBuf[c]) >= header[c].n /\ r \in Requests
      /\ results[c] \in Seq(Results) /\ header[c] \in Units /\ clientBuf[c] \in Seq(Units)
      /\ clientPc'[c] = "idle" /\ results'[c] = Append(results[c], res)
  BY DEF ReadBody, BodyComplete, Maps, IsMap, Local
<1>2. header[c] = Unit(Status(r), r, n) /\ Len(Downward(c)) <= Len(Body(r))
  BY <1>1 DEF Conn, Begins
<1>3. header[c].n = n /\ header[c].kind = Status(r)
  BY <1>2, UnitParts
<1>4. /\ n \in Nat /\ k \in Nat
      /\ r \in Stored => Size[r] = n
  BY <1>1, BodyUnits, ResponseUnits, OnItsWayIs
<1>5. OnItsWay(c) = n
  <2> DEFINE a == Len(clientBuf[c])
             b == Len(down[c])
  <2>1. OnItsWay(c) <= n /\ a >= n /\ OnItsWay(c) = a + b /\ a \in Nat /\ b \in Nat
    BY <1>1, <1>2, <1>3, OnItsWayIs DEF OnItsWay
  <2> HIDE DEF n, a, b
  <2> QED
    BY <1>4, <2>1
<1>6. Due(c) <=> r \in Stored
  BY <1>1, <1>4, <1>5 DEF Due
<1>7. ~Due(c)'
  BY <1>1 DEF Due
<1>8. /\ Len(results'[c]) = k + 1 /\ results'[c][k + 1] = res
      /\ \A i \in 1..k : results'[c][i] = results[c][i]
  <2>1. res \in Results
    <3>1. SubSeq(clientBuf[c], 1, header[c].n) \in Seq(Units)
      BY <1>1, <1>3, <1>4, OnItsWayIs, PartOfSeq
    <3> QED
      BY <1>1, <3>1 DEF Results
  <2> HIDE DEF res
  <2> QED
    BY <1>1, <2>1, AppendProperties
<1>9. res.asked = r /\ res.header.kind = Status(r)
  BY <1>3
<1> HIDE DEF res, n
<1>10. Status(r) = "200" <=> r \in Stored
  BY DEF Status
<1>11. Shares(c) = {i \in 1..k : results[c][i].header.kind = "200"}
                     \cup {i \in {k + 1} : r \in Stored}
  BY <1>6 DEF Shares
<1>12. Shares(c)' = {i \in 1..(k + 1) : results'[c][i].header.kind = "200"}
  BY <1>7, <1>8 DEF Shares
<1>13. \A i \in 1..(k + 1) : i \in 1..k \/ i = k + 1
  BY <1>4
<1>14. Shares(c)' = Shares(c)
  <2>1. ASSUME NEW i \in 1..k
        PROVE  results'[c][i].header.kind = "200" <=> results[c][i].header.kind = "200"
    BY <1>8
  <2>2. results'[c][k + 1].header.kind = "200" <=> r \in Stored
    BY <1>8, <1>9, <1>10
  <2>3. /\ 1..k \subseteq 1..(k + 1) /\ k + 1 \in 1..(k + 1) /\ k + 1 \notin 1..k
    BY <1>4
  <2> HIDE DEF k, r
  <2> QED
    BY <1>11, <1>12, <1>13, <2>1, <2>2, <2>3
<1>15. ASSUME NEW i \in 1..(k + 1) PROVE AskedFor(c, i)' = AskedFor(c, i)
  <2>1. AskedFor(c, i)' = results'[c][i].asked
    BY <1>8, <1>4, <1>15 DEF AskedFor
  <2>2. CASE i \in 1..k
    <3>1. i <= k /\ results'[c][i] = results[c][i]
      BY <1>8, <2>2
    <3> QED
      BY <2>1, <3>1 DEF AskedFor
  <2>3. CASE i = k + 1
    <3>1. ~(i <= k)
      BY <1>4, <2>3
    <3>2. AskedFor(c, i) = r
      BY <3>1 DEF AskedFor
    <3> QED
      BY <1>8, <1>9, <2>1, <2>3, <3>2
  <2> QED
    BY <1>13, <2>2, <2>3
<1> QED
  BY <1>12, <1>14, <1>15 DEF Settled

\* A handler that sends nothing changes nothing of it.
LEMMA HandlerSettled ==
  ASSUME NEW c \in Clients, Maps, Local(c),
         \/ HandlerRecv(c) \/ ReadLine(c) \/ HandlerEof(c) \/ HandlerTimeout(c)
         \/ LockStats(c) \/ UpdateStats(c)
  PROVE  Settled(c)
<1>1. UNCHANGED <<clientVars, down>>
  BY DEF HandlerRecv, ReadLine, HandlerEof, HandlerTimeout, LockStats, UpdateStats
<1> QED
  BY <1>1, SettledIf DEF Due, OnItsWay, clientVars

\* A reply other than a payload, or than all of it, makes nothing due.
LEMMA ReplySettled ==
  ASSUME NEW c \in Clients, Maps, Local(c), Conn(c),
         NEW units \in Seq(Units), NEW next, Reply(c, units, next),
         handlerPc[c] = "parsed" => Len(units) <= 2,
         handlerPc[c] = "payload" => Len(units) < Size[asked[c]],
         handlerPc[c] \in {"parsed", "payload"}
  PROVE  Settled(c)
<1> DEFINE r == asked[c]
           m == OnItsWay(c)
           u == Len(units)
<1>1. UNCHANGED clientVars
  BY DEF Reply
<1>2. m \in Nat /\ u \in Nat /\ OnItsWay(c)' = m + u
  BY ReplyAdds
<1>3. r \in Stored => Size[r] \in Nat \ {0}
  BY ExchangeAssumption
<1>4. ASSUME clientPc[c] = "header" PROVE m + u < 2 + Size[r] \/ r \notin Stored
  <2>1. CASE handlerPc[c] = "parsed"
    <3>1. m = 0
      BY <1>4, <2>1, OnItsWayIs, EmptySeq DEF Conn
    <3> QED
      BY <1>2, <1>3, <2>1, <3>1
  <2>2. CASE handlerPc[c] = "payload"
    <3>1. r \in Requests
      BY <1>4 DEF Local
    <3>2. m = 2
      BY <1>4, <2>2, <3>1, OnItsWayIs, HeaderUnits DEF Conn
    <3> QED
      BY <1>2, <1>3, <2>2, <3>2
  <2> QED
    BY <2>1, <2>2
<1>5. ASSUME clientPc[c] = "body" PROVE m + u < Size[r] \/ r \notin Stored
  <2>1. handlerPc[c] = "payload"
    BY <1>5 DEF Conn
  <2>2. m = 0
    BY <1>5, <2>1, OnItsWayIs, EmptySeq DEF Conn
  <2> QED
    BY <1>2, <1>3, <2>1, <2>2
<1> HIDE DEF m, u
<1>6. ~Due(c)'
  <2>1. Due(c)' => \/ clientPc[c] = "header" /\ r \in Stored /\ m + u = 2 + Size[r]
                   \/ clientPc[c] = "body" /\ r \in Stored /\ m + u = Size[r]
    BY <1>1, <1>2 DEF Due, clientVars
  <2> QED
    BY <1>2, <1>3, <1>4, <1>5, <2>1
<1>7. ~Due(c)
  <2>1. Due(c) => \/ clientPc[c] = "header" /\ r \in Stored /\ m = 2 + Size[r]
                  \/ clientPc[c] = "body" /\ r \in Stored /\ m = Size[r]
    BY DEF Due, m
  <2> QED
    BY <1>2, <1>3, <1>4, <1>5, <2>1
<1> QED
  BY <1>1, <1>6, <1>7, SettledIf DEF clientVars

LEMMA SettledStep ==
  ASSUME NEW c \in Clients, Maps, Local(c), Conn(c), Step(c), ~SendPayload(c)
  PROVE  Settled(c)
<1>1. CASE ReplyBadRequest(c) \/ ReplyNotFound(c) \/ SendHeader(c)
  <2>1. PICK status \in {"200", "404", "400"}, next \in {"closed", "reading", "payload"} :
          /\ status = "200" => request[c] \in Stored
          /\ Reply(c, HeaderOf(status, request[c]), next)
    BY <1>1 DEF ReplyBadRequest, ReplyNotFound, SendHeader
  <2>2. handlerPc[c] = "parsed" /\ request[c] \in Requests
    BY <1>1 DEF ReplyBadRequest, ReplyNotFound, SendHeader, Local
  <2>3. /\ HeaderOf(status, request[c]) \in Seq(Units)
        /\ Len(HeaderOf(status, request[c])) = 2
    BY <2>1, <2>2, ReplyUnits
  <2> DEFINE h == HeaderOf(status, request[c])
  <2>4. h \in Seq(Units) /\ Len(h) <= 2 /\ Reply(c, h, next)
    BY <2>1, <2>3
  <2> HIDE DEF h
  <2> QED
    BY <2>2, <2>4, ReplySettled
<1>2. CASE SendFails(c) /\ handlerPc[c] = "parsed"
  <2>1. PICK status \in {"200", "404", "400"}, n \in 0..1 :
          /\ request[c] \in IF status = "200" THEN Stored
                            ELSE IF status = "404" THEN Missing ELSE Malformed
          /\ Reply(c, SubSeq(HeaderOf(status, request[c]), 1, n), "closed")
    BY <1>2 DEF SendFails
  <2>2. /\ HeaderOf(status, request[c]) \in Seq(Units)
        /\ Len(HeaderOf(status, request[c])) = 2
    BY <2>1, ReplyUnits DEF Requests
  <2>3. /\ SubSeq(HeaderOf(status, request[c]), 1, n) \in Seq(Units)
        /\ Len(SubSeq(HeaderOf(status, request[c]), 1, n)) = IF 1 <= n THEN n - 1 + 1 ELSE 0
    BY <2>2, PartOfSeq
  <2>4. Len(SubSeq(HeaderOf(status, request[c]), 1, n)) <= 2
    BY <2>3
  <2> QED
    BY <1>2, <2>1, <2>3, <2>4, ReplySettled
<1>3. CASE SendFails(c) /\ handlerPc[c] = "payload"
  <2> DEFINE r == asked[c]
  <2>1. request[c] = r /\ r \in Stored /\ r \in Requests
    BY <1>3 DEF Conn, Local, Requests
  <2>2. PICK n \in 0..(Size[r] - 1) : Reply(c, SubSeq(Payload(r), 1, n), "closed")
    BY <1>3, <2>1 DEF SendFails
  <2>3. Payload(r) \in Seq(Units) /\ Len(Payload(r)) = Size[r] /\ Size[r] \in Nat \ {0}
    BY <2>1, BodyUnits DEF Body
  <2>4. /\ SubSeq(Payload(r), 1, n) \in Seq(Units)
        /\ Len(SubSeq(Payload(r), 1, n)) = IF 1 <= n THEN n - 1 + 1 ELSE 0
    BY <2>2, <2>3, PartOfSeq
  <2>5. Len(SubSeq(Payload(r), 1, n)) < Size[r]
    BY <2>2, <2>3, <2>4
  <2> QED
    BY <1>3, <2>2, <2>4, <2>5, ReplySettled
<1>4. CASE SendFails(c)
  BY <1>2, <1>3, <1>4 DEF SendFails
<1> QED
  BY <1>1, <1>4, FetchSettled, ClientRecvSettled, ClientEndSettled, ReadHeaderSettled,
     ReadBodySettled, HandlerSettled
     DEF Step, ClientStep, HandlerStep

\* A whole payload is due, unless the client has given up.
PayloadShares(c) ==
  /\ handlerPc[c] = "payload" /\ handlerPc'[c] = "count"
  /\ request[c] \in Stored /\ request'[c] = request[c] /\ stats' = stats
  /\ \/ \E k \in Nat \ Shares(c) :
          Shares(c)' = Shares(c) \cup {k} /\ AskedFor(c, k)' = request[c]
     \/ Shares(c)' = Shares(c) /\ clientPc'[c] = "raised"
  /\ \A i \in Shares(c) : AskedFor(c, i)' = AskedFor(c, i)

LEMMA SendPayloadShares ==
  ASSUME NEW c \in Clients, Maps, Local(c), Conn(c), SendPayload(c)
  PROVE  PayloadShares(c)
<1> DEFINE r == asked[c]
           p == Payload(r)
           m == OnItsWay(c)
<1>1. /\ handlerPc[c] = "payload" /\ request[c] = r /\ r \in Stored /\ r \in Requests
      /\ clientPc[c] \in {"header", "body", "raised"}
  BY DEF SendPayload, Conn, Local, Requests
<1>2. /\ handlerPc'[c] = "count" /\ down'[c] = down[c] \o p
      /\ UNCHANGED <<request, clientVars, stats>>
  BY <1>1 DEF SendPayload, Reply, Maps, IsMap
<1>3. p \in Seq(Units) /\ Len(p) = Size[r] /\ Size[r] \in Nat \ {0}
  BY <1>1, BodyUnits DEF Body
<1>4. m \in Nat /\ OnItsWay(c)' = m + Size[r]
  <2> DEFINE a == Len(clientBuf[c])
             b == Len(down[c])
  <2>1. Len(down'[c]) = b + Size[r]
    <3>1. down[c] \in Seq(Units)
      BY DEF Local
    <3> HIDE DEF p
    <3>2. Len(down[c] \o p) = Len(down[c]) + Len(p)
      BY <1>3, <3>1, ConcatProperties
    <3> QED
      BY <1>2, <1>3, <3>2
  <2>2. a \in Nat /\ b \in Nat /\ m = a + b
    BY OnItsWayIs DEF OnItsWay
  <2>3. OnItsWay(c)' = a + (b + Size[r])
    BY <1>2, <2>1 DEF OnItsWay, clientVars
  <2> HIDE DEF a, b, m
  <2> QED
    BY <1>3, <2>2, <2>3
<1>5. clientPc[c] = "header" => m = 2
  BY <1>1, OnItsWayIs, HeaderUnits DEF Conn
<1>6. clientPc[c] = "body" => m = 0
  BY <1>1, OnItsWayIs, EmptySeq DEF Conn
<1>7. PICK k \in Nat : k = Len(results[c]) + 1 /\ k \notin 1..Len(results[c])
  <2>1. Len(results[c]) + 1 \in Nat /\ Len(results[c]) + 1 \notin 1..Len(results[c])
    BY OnItsWayIs
  <2> QED
    BY <2>1
<1> HIDE DEF m, p
<1>8. ~Due(c)
  <2>1. Due(c) => \/ clientPc[c] = "header" /\ m = 2 + Size[r]
                  \/ clientPc[c] = "body" /\ m = Size[r]
    BY DEF Due, m
  <2> QED
    BY <1>3, <1>5, <1>6, <2>1
<1>9. Due(c)' <=> clientPc[c] # "raised"
  <2>1. Due(c)' <=> \/ clientPc[c] = "header" /\ m + Size[r] = 2 + Size[r]
                    \/ clientPc[c] = "body" /\ m + Size[r] = Size[r]
    BY <1>1, <1>2, <1>4 DEF Due, clientVars
  <2> QED
    BY <1>1, <1>3, <1>5, <1>6, <2>1
<1>10. \A i : AskedFor(c, i)' = AskedFor(c, i)
  BY <1>2 DEF AskedFor, clientVars
<1>11. AskedFor(c, k) = r
  <2>1. ~(k <= Len(results[c]))
    BY <1>7, OnItsWayIs
  <2> QED
    BY <2>1 DEF AskedFor
<1> DEFINE R == {i \in 1..Len(results[c]) : results[c][i].header.kind = "200"}
<1>12. Shares(c) = R \cup {i \in {k} : Due(c)} /\ Shares(c)' = R \cup {i \in {k} : Due(c)'}
  BY <1>2, <1>7 DEF Shares, clientVars
<1>13. k \notin R
  BY <1>7
<1> HIDE DEF R
<1>14. Shares(c) = R /\ k \notin Shares(c)
  BY <1>8, <1>12, <1>13
<1>15. \/ clientPc[c] # "raised" /\ Shares(c)' = Shares(c) \cup {k}
       \/ clientPc[c] = "raised" /\ Shares(c)' = Shares(c)
  BY <1>9, <1>12, <1>14
<1>16. clientPc' = clientPc
  BY <1>2 DEF clientVars
<1>17. AskedFor(c, k)' = request[c]
  BY <1>1, <1>10, <1>11
<1>18. \/ \E j \in Nat \ Shares(c) :
            Shares(c)' = Shares(c) \cup {j} /\ AskedFor(c, j)' = request[c]
       \/ Shares(c)' = Shares(c) /\ clientPc'[c] = "raised"
  BY <1>14, <1>15, <1>16, <1>17
<1>19. request'[c] = request[c] /\ request[c] \in Stored
  BY <1>1, <1>2
<1> QED
  BY <1>1, <1>2, <1>10, <1>18, <1>19, Zenon DEF PayloadShares

\* Only the sending of a payload and the counting change what is to be counted.
CountsSame(c) ==
  /\ stats' = stats
  /\ handlerPc'[c] \in Counting <=> handlerPc[c] \in Counting
  /\ handlerPc[c] \in Counting => request'[c] = request[c]

LEMMA NotCounting ==
  ASSUME NEW c \in Clients, Maps, Local(c), Step(c), ~SendPayload(c), ~UpdateStats(c)
  PROVE  CountsSame(c)
<1>1. ASSUME NEW r \in Requests, Fetch(c, r) PROVE CountsSame(c)
  BY <1>1 DEF Fetch, CountsSame, handlerVars
<1>2. CASE ClientStep(c) \/ ClientTimeout(c) \/ ClientClose(c)
  BY <1>2 DEF ClientStep, ClientRecv, ClientEof, ReadHeader, ReadBody, ClientTimeout,
              ClientClose, CountsSame, handlerVars
<1>3. CASE HandlerRecv(c)
  BY <1>3 DEF HandlerRecv, CountsSame
<1>4. CASE ReadLine(c) \/ HandlerEof(c) \/ HandlerTimeout(c) \/ LockStats(c)
  BY <1>4 DEF ReadLine, HandlerEof, HandlerTimeout, LockStats, CountsSame, Counting, Maps,
              IsMap
<1>5. ASSUME NEW units, NEW next \in {"closed", "reading", "payload"},
             handlerPc[c] \in {"parsed", "payload"}, Reply(c, units, next)
      PROVE  CountsSame(c)
  BY <1>5 DEF Reply, CountsSame, Counting, Maps, IsMap
<1>6. CASE ReplyBadRequest(c) \/ ReplyNotFound(c) \/ SendHeader(c)
  BY <1>5, <1>6 DEF ReplyBadRequest, ReplyNotFound, SendHeader
<1>7. CASE SendFails(c)
  BY <1>5, <1>7 DEF SendFails
<1> QED
  BY <1>1, <1>2, <1>3, <1>4, <1>6, <1>7 DEF Step, HandlerStep

\* What is owed, after a step that makes nothing due.
LEMMA OwedSettled ==
  ASSUME \A d \in Clients : Settled(d), NEW weight
  PROVE  /\ Owed' \subseteq Owed
         /\ \A x \in Owed' : OwedWeights(weight)'[x] = OwedWeights(weight)[x]
         /\ NoneRaised' => Owed' = Owed
<1>1. ASSUME NEW x \in Owed'
      PROVE  x \in Owed /\ OwedWeights(weight)'[x] = OwedWeights(weight)[x]
  <2>1. x \in Clients \X Nat /\ x[2] \in Shares(x[1])'
    BY <1>1 DEF Owed
  <2>2. x[2] \in Shares(x[1]) /\ AskedFor(x[1], x[2])' = AskedFor(x[1], x[2])
    BY <2>1 DEF Settled
  <2> QED
    BY <2>1, <2>2 DEF Owed, OwedWeights
<1>2. ASSUME NoneRaised', NEW x \in Owed PROVE x \in Owed'
  <2>1. x \in Clients \X Nat /\ x[2] \in Shares(x[1])
    BY <1>2 DEF Owed
  <2>2. Shares(x[1])' = Shares(x[1])
    BY <1>2, <2>1 DEF Settled, NoneRaised
  <2> QED
    BY <2>1, <2>2 DEF Owed
<1> QED
  BY <1>1, <1>2

\* ... and what is to be counted for the others.
LEMMA UncountedSame ==
  ASSUME NEW c \in Clients, NEW weight, \A d \in Clients \ {c} : Same(d)
  PROVE  /\ \A d \in Clients \ {c} : d \in Uncounted' <=> d \in Uncounted
         /\ \A d \in (Clients \ {c}) \cap Uncounted :
              UncountedWeights(weight)'[d] = UncountedWeights(weight)[d]
<1>1. \A d \in Clients \ {c} : /\ handlerPc'[d] \in Counting <=> handlerPc[d] \in Counting
                               /\ request'[d] = request[d]
  BY DEF Same
<1> QED
  BY <1>1 DEF Uncounted, UncountedWeights

\* A client that has given up does nothing any more.
LEMMA RaisedForGood ==
  ASSUME NEW c \in Clients, Maps, Step(c), clientPc[c] = "raised"
  PROVE  clientPc'[c] = "raised"
BY DEF Step, ClientStep, HandlerStep, Fetch, ClientRecv, ClientEof, ReadHeader, ReadBody,
       ClientTimeout, ClientClose, Incomplete, HandlerRecv, ReadLine, HandlerEof,
       HandlerTimeout, LockStats, UpdateStats, ReplyBadRequest, ReplyNotFound, SendHeader,
       SendPayload, SendFails, Reply, clientVars

\* A step of the connection c, and what it adds to a counter.
LEMMA AccountsKept ==
  ASSUME Inv, NEW c \in Clients, Step(c), NEW weight \in [Stored -> Nat],
         NEW a \in Nat, NEW b \in Nat,
         b = IF UpdateStats(c) THEN a + weight[request[c]] ELSE a,
         Covers(a, Owed, OwedWeights(weight), Uncounted, UncountedWeights(weight)),
         NoneRaised =>
           Equals(a, Owed, OwedWeights(weight), Uncounted, UncountedWeights(weight))
  PROVE  /\ Covers(b, Owed', OwedWeights(weight)', Uncounted', UncountedWeights(weight)')
         /\ NoneRaised' =>
              Equals(b, Owed', OwedWeights(weight)', Uncounted', UncountedWeights(weight)')
<1> DEFINE O == Owed
           o == OwedWeights(weight)
           U == Uncounted
           u == UncountedWeights(weight)
           P == Owed'
           p == OwedWeights(weight)'
           V == Uncounted'
           v == UncountedWeights(weight)'
<1>1. Maps /\ Local(c) /\ Conn(c)
  BY DEF Inv, Types
<1>2. \A d \in Clients \ {c} : Same(d)
  BY <1>1, OnlyOne
<1>3. \A d \in Clients \ {c} : Settled(d)
  BY <1>2, SameShares DEF Settled
<1>4. /\ \A d \in Clients \ {c} : d \in V <=> d \in U
      /\ \A d \in (Clients \ {c}) \cap U : v[d] = u[d]
  BY <1>2, UncountedSame
<1>5. NoneRaised' => NoneRaised
  <2> SUFFICES ASSUME NoneRaised', NEW d \in Clients PROVE clientPc[d] # "raised"
    BY DEF NoneRaised
  <2>1. clientPc'[d] # "raised"
    BY DEF NoneRaised
  <2>2. CASE d # c
    BY <1>2, <2>1, <2>2 DEF Same
  <2>3. CASE d = c
    BY <1>1, <2>1, <2>3, RaisedForGood
  <2> QED
    BY <2>2, <2>3
<1>6. U \subseteq Clients /\ V \subseteq Clients
  BY DEF Uncounted
<1>7. ASSUME ~SendPayload(c)
      PROVE  /\ P \subseteq O /\ \A x \in P : p[x] = o[x]
             /\ NoneRaised' => P = O
  <2>1. Settled(c)
    BY <1>1, <1>7, SettledStep
  <2>2. \A d \in Clients : Settled(d)
    BY <1>3, <2>1
  <2> QED
    BY <2>2, OwedSettled
<1>8. CASE ~SendPayload(c) /\ ~UpdateStats(c)
  <2>1. CountsSame(c)
    BY <1>1, <1>8, NotCounting
  <2>2. /\ handlerPc'[c] \in Counting <=> handlerPc[c] \in Counting
        /\ handlerPc[c] \in Counting => request'[c] = request[c]
    BY <2>1 DEF CountsSame
  <2>3. (c \in V <=> c \in U) /\ (c \in U => v[c] = u[c])
    BY <2>2 DEF Uncounted, UncountedWeights
  <2> HIDE DEF O, o, U, u, P, p, V, v
  <2>4. V = U /\ \A x \in U : v[x] = u[x]
    BY <1>4, <1>6, <2>3
  <2>5. P \subseteq O /\ (\A x \in P : p[x] = o[x]) /\ (NoneRaised' => P = O)
    BY <1>7, <1>8
  <2>6. Covers(a, O, o, U, u) /\ (NoneRaised => Equals(a, O, o, U, u)) /\ b = a
    BY <1>8 DEF O, o, U, u
  <2>7. /\ Covers(a, P, p, U, v)
        /\ P = O /\ Equals(a, O, o, U, u) => Equals(a, P, p, U, v)
    BY <2>4, <2>5, <2>6, CoversStill
  <2>8. Covers(b, P, p, V, v) /\ (NoneRaised' => Equals(b, P, p, V, v))
    BY <1>5, <2>4, <2>5, <2>6, <2>7
  <2> QED
    BY <2>8 DEF P, p, V, v
<1>9. CASE UpdateStats(c)
  <2>1. /\ handlerPc[c] = "counting" /\ handlerPc'[c] = "reading" /\ request' = request
        /\ request[c] \in Stored
    BY <1>1, <1>9 DEF UpdateStats, Counting, Maps, IsMap, Local
  <2>2. c \in U /\ c \notin V /\ u[c] = weight[request[c]] /\ u[c] \in Nat
    BY <2>1 DEF Uncounted, UncountedWeights, Counting
  <2>3. \A x \in U : v[x] = u[x]
    BY <2>1 DEF UncountedWeights, Uncounted
  <2>4. ~SendPayload(c)
    BY <2>1 DEF SendPayload
  <2> HIDE DEF O, o, U, u, P, p, V, v
  <2>5. V = U \ {c}
    BY <1>4, <1>6, <2>2
  <2>6. P \subseteq O /\ (\A x \in P : p[x] = o[x]) /\ (NoneRaised' => P = O)
    BY <1>7, <2>4
  <2>7. Covers(a, O, o, U, u) /\ (NoneRaised => Equals(a, O, o, U, u)) /\ b = a + u[c]
    BY <1>9, <2>2 DEF O, o, U, u
  <2>8. /\ Covers(a, P, p, U, v)
        /\ P = O /\ Equals(a, O, o, U, u) => Equals(a, P, p, U, v)
    BY <2>3, <2>6, <2>7, CoversStill
  <2>9. v[c] = u[c] /\ v[c] \in Nat
    BY <2>2, <2>3
  <2>10. /\ Covers(a + v[c], P, p, V, v)
         /\ Equals(a, P, p, U, v) => Equals(a + v[c], P, p, V, v)
    <3>1. (\A x \in P : p[x] = p[x]) /\ (\A x \in U : v[x] = v[x]) /\ c \in U
      BY <2>2
    <3> QED
      BY <2>5, <2>8, <2>9, <3>1, CoversCounted
  <2>11. Covers(b, P, p, V, v) /\ (NoneRaised' => Equals(b, P, p, V, v))
    BY <1>5, <2>6, <2>7, <2>8, <2>9, <2>10
  <2> QED
    BY <2>11 DEF P, p, V, v
<1>10. CASE SendPayload(c)
  <2>1. PayloadShares(c)
    BY <1>1, <1>10, SendPayloadShares
  <2>2. /\ handlerPc[c] = "payload" /\ handlerPc'[c] = "count"
        /\ request[c] \in Stored /\ request'[c] = request[c]
        /\ \A i \in Shares(c) : AskedFor(c, i)' = AskedFor(c, i)
    BY <2>1 DEF PayloadShares
  <2>3. c \notin U /\ c \in V /\ v[c] = weight[request[c]] /\ v[c] \in Nat
    BY <2>2 DEF Uncounted, UncountedWeights, Counting
  <2>4. \A x \in O : p[x] = o[x]
    <3> SUFFICES ASSUME NEW x \in Owed
                 PROVE  OwedWeights(weight)'[x] = OwedWeights(weight)[x]
      OBVIOUS
    <3>1. x \in Clients \X Nat /\ x[2] \in Shares(x[1])
      BY DEF Owed
    <3>2. AskedFor(x[1], x[2])' = AskedFor(x[1], x[2])
      BY <1>2, <2>2, <3>1, SameShares
    <3> QED
      BY <3>1, <3>2 DEF OwedWeights
  <2>5. \/ \E k \in Clients \X Nat : k \notin O /\ P = O \cup {k} /\ p[k] = v[c]
        \/ P = O /\ clientPc'[c] = "raised"
    <3>1. \A d \in Clients \ {c} : Shares(d)' = Shares(d)
      BY <1>2, SameShares
    <3>2. CASE Shares(c)' = Shares(c) /\ clientPc'[c] = "raised"
      BY <3>1, <3>2 DEF Owed
    <3>3. ASSUME NEW k \in Nat \ Shares(c), Shares(c)' = Shares(c) \cup {k},
                 AskedFor(c, k)' = request[c]
          PROVE  << c, k >> \notin O /\ P = O \cup {<< c, k >>} /\ p[<< c, k >>] = v[c]
      <4>1. << c, k >> \notin O
        BY DEF Owed
      <4>2. P = O \cup {<< c, k >>}
        BY <3>1, <3>3 DEF Owed
      <4>3. p[<< c, k >>] = weight[request[c]]
        BY <3>3 DEF OwedWeights
      <4> QED
        BY <2>3, <4>1, <4>2, <4>3
    <3> QED
      BY <2>1, <3>2, <3>3 DEF PayloadShares
  <2>6. ~UpdateStats(c)
    BY <2>2 DEF UpdateStats
  <2> HIDE DEF O, o, U, u, P, p, V, v
  <2>7. IsAdded(U, u, c, V, v)
    <3>1. V = U \cup {c}
      BY <1>4, <1>6, <2>3
    <3>2. \A x \in U : v[x] = u[x]
      BY <1>4, <1>6, <2>3
    <3> QED
      BY <2>3, <3>1, <3>2 DEF IsAdded
  <2>8. Covers(a, O, o, U, u) /\ (NoneRaised => Equals(a, O, o, U, u)) /\ b = a
    BY <2>6 DEF O, o, U, u
  <2>9. CASE P = O /\ clientPc'[c] = "raised"
    <3>1. Covers(a, P, p, V, v)
      BY <2>4, <2>7, <2>8, <2>9, CoversSent
    <3>2. ~NoneRaised'
      BY <2>9 DEF NoneRaised
    <3> QED
      BY <2>8, <3>1, <3>2 DEF P, p, V, v
  <2>10. ASSUME NEW k \in Clients \X Nat, k \notin O, P = O \cup {k}, p[k] = v[c]
         PROVE  Covers(b, P, p, V, v) /\ (NoneRaised' => Equals(b, P, p, V, v))
    <3>1. IsAdded(O, o, k, P, p) /\ P # O
      BY <2>3, <2>4, <2>10 DEF IsAdded
    <3>2. /\ Covers(a, P, p, V, v)
          /\ P # O /\ Equals(a, O, o, U, u) => Equals(a, P, p, V, v)
      BY <2>7, <2>8, <2>10, <3>1, CoversSent
    <3> QED
      BY <1>5, <2>8, <3>1, <3>2
  <2> QED
    BY <2>5, <2>9, <2>10 DEF P, p, V, v
<1> QED
  BY <1>8, <1>9, <1>10

\* stats_lock: at most one handler is between reading the statistics and writing them,
\* and what it has read is what they still are.
Locked ==
  \A c \in Clients : handlerPc[c] = "counting" =>
    seen[c] = stats /\ \A d \in Clients \ {c} : handlerPc[d] # "counting"

LEMMA LockedKept ==
  ASSUME Maps, Locked, NEW c \in Clients, Step(c)
  PROVE  Locked'
<1>1. \A d \in Clients \ {c} : Same(d)
  BY OnlyOne
<1>2. CASE LockStats(c)
  <2>1. /\ stats' = stats /\ seen'[c] = stats
        /\ \A d \in Clients : handlerPc[d] # "counting"
    BY <1>2 DEF LockStats, Maps, IsMap
  <2>2. \A d \in Clients \ {c} : handlerPc'[d] # "counting"
    BY <1>1, <2>1 DEF Same
  <2> QED
    BY <2>1, <2>2 DEF Locked
<1>3. CASE UpdateStats(c)
  <2>1. handlerPc[c] = "counting" /\ handlerPc'[c] = "reading"
    BY <1>3 DEF UpdateStats, Maps, IsMap
  <2>2. \A d \in Clients : handlerPc'[d] # "counting"
    BY <1>1, <2>1 DEF Same, Locked
  <2> QED
    BY <2>2 DEF Locked
<1>4. CASE ~LockStats(c) /\ ~UpdateStats(c)
  <2>1. stats' = stats /\ seen' = seen
    BY <1>4 DEF Step, ClientStep, HandlerStep, Fetch, ClientRecv, ClientEof, ReadHeader,
       ReadBody, ClientTimeout, ClientClose, HandlerRecv, ReadLine, HandlerEof,
       HandlerTimeout, ReplyBadRequest, ReplyNotFound, SendHeader, SendPayload, SendFails,
       Reply, handlerVars
  <2>2. handlerPc'[c] = "counting" => handlerPc[c] = "counting"
    BY <1>4 DEF Step, ClientStep, HandlerStep, Fetch, ClientRecv, ClientEof, ReadHeader,
       ReadBody, ClientTimeout, ClientClose, HandlerRecv, ReadLine, HandlerEof,
       HandlerTimeout, ReplyBadRequest, ReplyNotFound, SendHeader, SendPayload, SendFails,
       Reply, handlerVars, Maps, IsMap
  <2>3. \A d \in Clients : handlerPc'[d] = "counting" => handlerPc[d] = "counting"
    BY <1>1, <2>2 DEF Same
  <2> QED
    BY <2>1, <2>3 DEF Locked
<1> QED
  BY <1>2, <1>3, <1>4

AccountedInv == Inv /\ Locked /\ Accounted

LEMMA WeightsAreNat == Each \in [Stored -> Nat] /\ Size \in [Stored -> Nat]
BY ExchangeAssumption DEF Each

LEMMA AccountedInitially ==
  ASSUME Init
  PROVE  AccountedInv
<1>1. Inv
  BY Initially
<1>2. Owed = {}
  <2> SUFFICES ASSUME NEW x \in Owed PROVE FALSE
    OBVIOUS
  <2>1. x[1] \in Clients /\ x[2] \in Shares(x[1])
    BY DEF Owed
  <2>2. results[x[1]] = << >> /\ clientPc[x[1]] = "idle"
    BY <2>1 DEF Init
  <2>3. Len(results[x[1]]) = 0 /\ ~Due(x[1])
    BY <2>2, EmptySeq DEF Due
  <2> QED
    BY <2>1, <2>3 DEF Shares
<1>3. Uncounted = {} /\ Locked
  BY DEF Init, Uncounted, Counting, Locked
<1>4. stats.segments_sent = 0 /\ stats.bytes_sent = 0
  BY DEF Init, NoStats
<1>5. ASSUME NEW o, NEW u
      PROVE  Covers(0, Owed, o, Uncounted, u) /\ Equals(0, Owed, o, Uncounted, u)
  <2>1. /\ Summable({}, o) /\ SumOver({}, o) = 0
        /\ Summable({}, u) /\ SumOver({}, u) = 0
    BY SumOfNone
  <2> QED
    BY <1>2, <1>3, <2>1 DEF Covers, Equals
<1> QED
  BY <1>1, <1>3, <1>4, <1>5 DEF AccountedInv, Accounted, Accounts

LEMMA AccountedInductive ==
  ASSUME AccountedInv, [Next]_vars
  PROVE  AccountedInv'
<1>1. Inv'
  BY Inductive DEF AccountedInv
<1>2. CASE UNCHANGED vars
  <2>1. /\ Owed' = Owed /\ Uncounted' = Uncounted /\ stats' = stats
        /\ NoneRaised' = NoneRaised /\ (Locked => Locked')
        /\ OwedWeights(Each)' = OwedWeights(Each) /\ OwedWeights(Size)' = OwedWeights(Size)
        /\ UncountedWeights(Each)' = UncountedWeights(Each)
        /\ UncountedWeights(Size)' = UncountedWeights(Size)
    BY <1>2 DEF Owed, Uncounted, OwedWeights, UncountedWeights, Shares, AskedFor, Due,
                OnItsWay, NoneRaised, Locked, vars, clientVars, handlerVars
  <2> QED
    BY <1>1, <2>1 DEF AccountedInv, Accounted, Accounts
<1>3. ASSUME NEW c \in Clients, Step(c) PROVE AccountedInv'
  <2>1. Maps /\ Local(c) /\ Inv /\ Locked /\ Accounted /\ StatsType /\ StatsType'
    BY <1>1 DEF AccountedInv, Inv, Types, StatsType
  <2>2. handlerPc[c] = "counting" => request[c] \in Stored /\ seen[c] = stats
    BY <2>1 DEF Local, Counting, Locked
  <2>3. /\ stats.segments_sent \in Nat /\ stats.bytes_sent \in Nat
        /\ stats'.segments_sent \in Nat /\ stats'.bytes_sent \in Nat
    BY <2>1 DEF StatsType, Statistics
  <2>4. /\ stats'.segments_sent = IF UpdateStats(c) THEN stats.segments_sent + Each[request[c]]
                                                   ELSE stats.segments_sent
        /\ stats'.bytes_sent = IF UpdateStats(c) THEN stats.bytes_sent + Size[request[c]]
                                                 ELSE stats.bytes_sent
    <3>1. CASE UpdateStats(c)
      <4>1. Each[request[c]] = 1
        BY <2>2, <3>1 DEF UpdateStats, Each
      <4> QED
        BY <2>2, <3>1, <4>1 DEF UpdateStats, Count
    <3>2. CASE ~UpdateStats(c)
      <4>1. stats' = stats
        BY <1>3, <2>1, <3>2, NotCounting, SendPayloadShares DEF CountsSame, PayloadShares, Inv
      <4> QED
        BY <3>2, <4>1
    <3> QED
      BY <3>1, <3>2
  <2>5. Accounts(stats.segments_sent, Each) /\ Accounts(stats.bytes_sent, Size)
    BY <2>1 DEF Accounted
  <2>6. Accounts(stats.segments_sent, Each)'
    <3> DEFINE a == stats.segments_sent
               b == stats'.segments_sent
    <3>1. a \in Nat /\ b \in Nat /\ b = IF UpdateStats(c) THEN a + Each[request[c]] ELSE a
      BY <2>3, <2>4
    <3>2. Covers(a, Owed, OwedWeights(Each), Uncounted, UncountedWeights(Each))
      BY <2>5 DEF Accounts
    <3>3. NoneRaised => Equals(a, Owed, OwedWeights(Each), Uncounted, UncountedWeights(Each))
      BY <2>5 DEF Accounts
    <3> HIDE DEF a, b
    <3>4. /\ Covers(b, Owed', OwedWeights(Each)', Uncounted', UncountedWeights(Each)')
          /\ NoneRaised' =>
               Equals(b, Owed', OwedWeights(Each)', Uncounted', UncountedWeights(Each)')
      BY <1>3, <2>1, <3>1, <3>2, <3>3, WeightsAreNat, AccountsKept
    <3> QED
      BY <3>4 DEF Accounts, b
  <2>7. Accounts(stats.bytes_sent, Size)'
    <3> DEFINE a == stats.bytes_sent
               b == stats'.bytes_sent
    <3>1. a \in Nat /\ b \in Nat /\ b = IF UpdateStats(c) THEN a + Size[request[c]] ELSE a
      BY <2>3, <2>4
    <3>2. Covers(a, Owed, OwedWeights(Size), Uncounted, UncountedWeights(Size))
      BY <2>5 DEF Accounts
    <3>3. NoneRaised => Equals(a, Owed, OwedWeights(Size), Uncounted, UncountedWeights(Size))
      BY <2>5 DEF Accounts
    <3> HIDE DEF a, b
    <3>4. /\ Covers(b, Owed', OwedWeights(Size)', Uncounted', UncountedWeights(Size)')
          /\ NoneRaised' =>
               Equals(b, Owed', OwedWeights(Size)', Uncounted', UncountedWeights(Size)')
      BY <1>3, <2>1, <3>1, <3>2, <3>3, WeightsAreNat, AccountsKept
    <3> QED
      BY <3>4 DEF Accounts, b
  <2>8. Locked'
    BY <1>3, <2>1, LockedKept
  <2> QED
    BY <1>1, <2>6, <2>7, <2>8 DEF AccountedInv, Accounted
<1> QED
  BY <1>2, <1>3, StepOrNot DEF AccountedInv

\* Once no handler is between its send and its count, the statistics account for
\* every segment and every byte that the clients have received, and when no client
\* has given up, for nothing else (connection_handler.py:74-81).
THEOREM StatisticsSettle == Spec => []StatsSettle
<1>1. Init => AccountedInv
  BY AccountedInitially
<1>2. AccountedInv /\ [Next]_vars => AccountedInv'
  BY AccountedInductive
<1>3. AccountedInv => StatsSettle
  <2> DEFINE S == UNION {{c} \X {i \in 1..Len(results[c]) : results[c][i].header.kind = "200"}
                         : c \in Clients}
             f == [p \in S |-> Len(results[p[1]][p[2]].body)]
  <2> SUFFICES ASSUME AccountedInv, \A c \in Clients : handlerPc[c] \notin Counting
               PROVE  /\ stats.segments_sent >= Cardinality(S)
                      /\ stats.bytes_sent >= SumOver(S, f)
                      /\ (\A c \in Clients : clientPc[c] \in {"idle", "closed"}) =>
                           stats = [segments_sent |-> Cardinality(S),
                                    bytes_sent |-> SumOver(S, f)]
    BY DEF StatsSettle, Counting
  <2>1. Inv /\ Accounted
    BY DEF AccountedInv
  <2>2. Uncounted = {}
    BY DEF Uncounted
  <2>3. \A c \in Clients : Local(c) /\ Conn(c)
    BY <2>1 DEF Inv, Types
  <2>4. ASSUME NEW x \in S
        PROVE  /\ x \in Owed /\ f[x] = OwedWeights(Size)[x] /\ OwedWeights(Each)[x] = 1
    <3>0. PICK c \in Clients :
            x \in {c} \X {i \in 1..Len(results[c]) : results[c][i].header.kind = "200"}
      OBVIOUS
    <3>1. PICK i \in 1..Len(results[c]) :
            x = << c, i >> /\ results[c][i].header.kind = "200"
      BY <3>0
    <3>2. Matches(results[c][i])
      BY <2>3, <3>1 DEF Conn
    <3>3. Local(c) /\ results[c] \in Seq(Results)
      BY <2>3 DEF Local
    <3>4. Len(results[c]) \in Nat /\ i \in Nat /\ i <= Len(results[c])
      BY <3>3, OnItsWayIs
    <3> DEFINE r == results[c][i].asked
    <3>5. r \in Stored
      BY <3>1, <3>2 DEF Matches, Status
    <3>6. Len(results[c][i].body) = Size[r]
      BY <3>2, <3>5, BodyUnits DEF Matches, Requests
    <3>7. AskedFor(c, i) = r
      BY <3>4 DEF AskedFor
    <3>8. x \in Owed
      BY <3>1, <3>4 DEF Owed, Shares
    <3>9. x \in Clients \X Nat /\ x[1] = c /\ x[2] = i
      BY <3>1, <3>4
    <3> HIDE DEF r, S
    <3>10. OwedWeights(Size)[x] = Size[r] /\ OwedWeights(Each)[x] = 1
      BY <3>5, <3>7, <3>9 DEF OwedWeights, Each
    <3>11. f[x] = Len(results[c][i].body)
      BY <3>9
    <3> QED
      BY <3>6, <3>8, <3>10, <3>11
  <2>5. (\A c \in Clients : clientPc[c] \in {"idle", "closed"}) => Owed = S /\ NoneRaised
    <3> SUFFICES ASSUME \A c \in Clients : clientPc[c] \in {"idle", "closed"}
                 PROVE  Owed = S /\ NoneRaised
      OBVIOUS
    <3>1. \A c \in Clients : ~Due(c)
      BY DEF Due
    <3>2. Owed \subseteq S
      BY <3>1 DEF Owed, Shares
    <3> QED
      BY <2>4, <3>2 DEF NoneRaised
  <2> HIDE DEF S, f
  <2>6. ASSUME NEW total \in Nat, NEW weight, Accounts(total, weight)
        PROVE  /\ Summable(S, OwedWeights(weight))
               /\ total >= SumOver(S, OwedWeights(weight))
               /\ Owed = S /\ NoneRaised => total = SumOver(S, OwedWeights(weight))
    <3> DEFINE o == OwedWeights(weight)
               u == UncountedWeights(weight)
    <3>1. /\ Summable(Owed, o) /\ total + SumOver({}, u) >= SumOver(Owed, o)
          /\ NoneRaised => total + SumOver({}, u) = SumOver(Owed, o)
      BY <2>2, <2>6 DEF Accounts, Covers, Equals
    <3> HIDE DEF o, u
    <3>2. SumOver({}, u) = 0
      BY SumOfNone
    <3>3. Summable(S, o) /\ SumOver(S, o) <= SumOver(Owed, o)
      <4>1. S \subseteq Owed /\ \A x \in S : o[x] = o[x]
        BY <2>4
      <4> QED
        BY <3>1, <4>1, SumOfFewer
    <3>4. SumOver(S, o) \in Nat /\ SumOver(Owed, o) \in Nat
      BY <3>1, <3>3, SumIsNat
    <3>5. /\ total >= SumOver(S, o)
          /\ Owed = S /\ NoneRaised => total = SumOver(S, o)
      BY <3>1, <3>2, <3>3, <3>4
    <3> QED
      BY <3>3, <3>5 DEF o
  <2>7. stats \in [segments_sent : Nat, bytes_sent : Nat]
    BY <2>1 DEF Inv, Types, Statistics
  <2>8. SumOver(S, OwedWeights(Size)) = SumOver(S, f)
    BY <2>4, SumExtensional
  <2>9. SumOver(S, OwedWeights(Each)) = Cardinality(S)
    <3>1. IsFiniteSet(S)
      BY <2>1, <2>6, <2>7 DEF Accounted, Summable
    <3> QED
      BY <2>4, <3>1, SumOfOnes
  <2>10. /\ stats.segments_sent >= Cardinality(S) /\ stats.bytes_sent >= SumOver(S, f)
         /\ Owed = S /\ NoneRaised => /\ stats.segments_sent = Cardinality(S)
                                      /\ stats.bytes_sent = SumOver(S, f)
    BY <2>1, <2>6, <2>7, <2>8, <2>9 DEF Accounted
  <2> QED
    BY <2>5, <2>7, <2>10
<1> QED
  BY <1>1, <1>2, <1>3, PTL DEF Spec

=============================================================================
