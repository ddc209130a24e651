------------------------------- MODULE Exchange -------------------------------
(***************************************************************************)
(* The request/response protocol over persistent TCP connections:          *)
(* SocketClient.fetch (client/network) on one end of each connection, the  *)
(* ConnectionHandler thread that serves it (server) on the other, and the  *)
(* statistics the handlers share.                                          *)
(*                                                                         *)
(* A connection is two byte streams, cut into the units the code can tell  *)
(* apart: a request is its text and its newline, a header its fields and   *)
(* its DATA line, a payload its bytes.  recv returns any part of what has  *)
(* arrived.  Both ends have receive timeouts; a timeout, an error and a    *)
(* truncated stream all end the connection, as every caller of fetch       *)
(* closes the client when it raises.                                       *)
(***************************************************************************)
EXTENDS Integers, Sequences, FiniteSets, SequencesExt, Sums

CONSTANTS Clients,
          Stored,      \* requests the segment store has a segment for
          Missing,     \* well-formed requests it has none for
          Malformed,   \* requests that do not parse
          Size,        \* bytes of each stored segment
          MaxFetches   \* bound on the fetches of each client

Requests == Stored \cup Missing \cup Malformed

ASSUME ExchangeAssumption ==
  /\ IsFiniteSet(Clients)
  /\ Stored \cap Missing = {} /\ (Stored \cup Missing) \cap Malformed = {}
  /\ Size \in [Stored -> Nat \ {0}]
  /\ MaxFetches \in [Clients -> Nat]

VARIABLES clientPc,   \* where each client is
          asked,      \* the request of its fetch, the last one when idle
          header,     \* the header fetch has read
          clientBuf,  \* SocketClient._buf
          results,    \* what its fetches have returned
          handlerPc,  \* where each ConnectionHandler is
          request,    \* the request it is serving
          lineBuf,    \* buf of read_request_line
          stats,      \* the server's shared statistics
          seen,       \* what a handler has read of them to count its segment
          up, down    \* the two byte streams of each connection

clientVars  == <<clientPc, asked, header, clientBuf, results>>
handlerVars == <<handlerPc, request, lineBuf, stats, seen>>
vars        == <<clientVars, handlerVars, up, down>>

Unit(kind, r, n) == [kind |-> kind, request |-> r, n |-> n]

\* build_request
RequestOf(r) == << Unit("text", r, 0), Unit("newline", r, 0) >>

\* build_response_header: the status, and the size of the payload to come; only
\* a 200 names the segment.
HeaderOf(status, r) ==
  << Unit(status, r, IF status = "200" THEN Size[r] ELSE 0), Unit("DATA", r, 0) >>

Payload(r) == [i \in 1..Size[r] |-> Unit("byte", r, i)]

NoStats == [segments_sent |-> 0, bytes_sent |-> 0]

None == "none"
NoHeader == Unit("none", None, 0)

Init ==
  /\ clientPc = [c \in Clients |-> "idle"]
  /\ asked = [c \in Clients |-> None]
  /\ header = [c \in Clients |-> NoHeader]
  /\ clientBuf = [c \in Clients |-> << >>]
  /\ results = [c \in Clients |-> << >>]
  /\ handlerPc = [c \in Clients |-> "reading"]
  /\ request = [c \in Clients |-> None]
  /\ lineBuf = [c \in Clients |-> << >>]
  /\ stats = NoStats /\ seen = [c \in Clients |-> NoStats]
  /\ up = [c \in Clients |-> << >>]
  /\ down = [c \in Clients |-> << >>]

\* Moves the first n units of a stream to the buffer of its reader.
Take(stream, n) == SubSeq(stream, n + 1, Len(stream))
Received(buf, stream, n) == buf \o SubSeq(stream, 1, n)

Has(buf, kind) == \E i \in 1..Len(buf) : buf[i].kind = kind

\* Stops before the unit it looks for (a fault).
UpTo(buf, kind) == SelectInSeq(buf, LAMBDA u : u.kind = kind) - 1

Through(buf, kind) == SelectInSeq(buf, LAMBDA u : u.kind = kind)

-----------------------------------------------------------------------------
(* SocketClient *)

\* sendall of the request; it may fail once the handler has closed.
Fetch(c, r) ==
  /\ clientPc[c] = "idle"
  /\ Len(results[c]) < MaxFetches[c]
  /\ asked' = [asked EXCEPT ![c] = r]
  /\ \/ /\ clientPc' = [clientPc EXCEPT ![c] = "header"]
        /\ up' = [up EXCEPT ![c] = @ \o RequestOf(r)]
     \/ /\ handlerPc[c] = "closed"
        /\ clientPc' = [clientPc EXCEPT ![c] = "raised"]
        /\ UNCHANGED up
  /\ UNCHANGED <<header, clientBuf, results, handlerVars, down>>

\* _read_header has its DATA line; _read_exact(SIZE) has its bytes.
HeaderComplete(c) == Has(clientBuf[c], "DATA")

BodyComplete(c) == Len(clientBuf[c]) >= header[c].n

Incomplete(c) ==
  \/ clientPc[c] = "header" /\ ~HeaderComplete(c)
  \/ clientPc[c] = "body" /\ ~BodyComplete(c)

\* _recv_more
ClientRecv(c) ==
  /\ Incomplete(c)
  /\ \E n \in 1..Len(down[c]) :
       /\ clientBuf' = [clientBuf EXCEPT ![c] = Received(@, down[c], n)]
       /\ down' = [down EXCEPT ![c] = Take(@, n)]
  /\ UNCHANGED <<clientPc, asked, header, results, handlerVars, up>>

\* recv returned nothing: the server has closed the connection.
ClientEof(c) ==
  /\ Incomplete(c)
  /\ down[c] = << >>
  /\ handlerPc[c] = "closed"
  /\ clientPc' = [clientPc EXCEPT ![c] = "raised"]
  /\ UNCHANGED <<asked, header, clientBuf, results, handlerVars, up, down>>

\* The connection is used again after a timeout (a fault).
TimeoutSurvived(c) ==
  /\ Incomplete(c)
  /\ down[c] = << >>
  /\ clientPc' = [clientPc EXCEPT ![c] = "idle"]
  /\ UNCHANGED <<asked, header, clientBuf, results, handlerVars, up, down>>

\* recv timed out.
ClientTimeout(c) ==
  /\ Incomplete(c)
  /\ down[c] = << >>
  /\ clientPc' = [clientPc EXCEPT ![c] = "raised"]
  /\ UNCHANGED <<asked, header, clientBuf, results, handlerVars, up, down>>

ReadHeader(c) ==
  /\ clientPc[c] = "header"
  /\ HeaderComplete(c)
  /\ header' = [header EXCEPT ![c] = clientBuf[c][1]]
  /\ clientBuf' = [clientBuf EXCEPT ![c] = Take(@, Through(@, "DATA"))]
  /\ clientPc' = [clientPc EXCEPT ![c] = "body"]
  /\ UNCHANGED <<asked, results, handlerVars, up, down>>

\* fetch returns the header and exactly SIZE bytes; it compares neither with
\* what was asked.
ReadBody(c) ==
  /\ clientPc[c] = "body"
  /\ BodyComplete(c)
  /\ results' = [results EXCEPT ![c] = Append(@,
       [asked |-> asked[c], header |-> header[c],
        body  |-> SubSeq(clientBuf[c], 1, header[c].n)])]
  /\ clientBuf' = [clientBuf EXCEPT ![c] = Take(@, header[c].n)]
  /\ header' = [header EXCEPT ![c] = NoHeader]
  /\ clientPc' = [clientPc EXCEPT ![c] = "idle"]
  /\ UNCHANGED <<asked, handlerVars, up, down>>

\* The caller is done.
ClientClose(c) ==
  /\ clientPc[c] = "idle"
  /\ clientPc' = [clientPc EXCEPT ![c] = "closed"]
  /\ UNCHANGED <<asked, header, clientBuf, results, handlerVars, up, down>>

ClientGone(c) == clientPc[c] \in {"closed", "raised"}

-----------------------------------------------------------------------------
(* ConnectionHandler *)

\* read_request_line: recv, after it until a newline has come.
HandlerRecv(c) ==
  /\ handlerPc[c] = "reading"
  /\ ~Has(lineBuf[c], "newline")
  /\ \E n \in 1..Len(up[c]) :
       /\ lineBuf' = [lineBuf EXCEPT ![c] = Received(@, up[c], n)]
       /\ up' = [up EXCEPT ![c] = Take(@, n)]
  /\ UNCHANGED <<handlerPc, request, stats, seen, clientVars, down>>

\* read_request_line returns the first line, and whatever came after it in the
\* same recv is dropped.
ReadLine(c) ==
  /\ handlerPc[c] = "reading"
  /\ Has(lineBuf[c], "newline")
  /\ request' = [request EXCEPT ![c] = lineBuf[c][1].request]
  /\ lineBuf' = [lineBuf EXCEPT ![c] = << >>]
  /\ handlerPc' = [handlerPc EXCEPT ![c] = "parsed"]
  /\ UNCHANGED <<stats, seen, clientVars, up, down>>

\* The connection ends, in whatever state: the client has disconnected.
HandlerEof(c) ==
  /\ handlerPc[c] = "reading"
  /\ ~Has(lineBuf[c], "newline")
  /\ up[c] = << >>
  /\ ClientGone(c)
  /\ handlerPc' = [handlerPc EXCEPT ![c] = "closed"]
  /\ UNCHANGED <<request, lineBuf, stats, seen, clientVars, up, down>>

\* No request, or no complete one, for 30 seconds.
HandlerTimeout(c) ==
  /\ handlerPc[c] = "reading"
  /\ ~Has(lineBuf[c], "newline")
  /\ up[c] = << >>
  /\ handlerPc' = [handlerPc EXCEPT ![c] = "closed"]
  /\ UNCHANGED <<request, lineBuf, stats, seen, clientVars, up, down>>

Reply(c, units, nextPc) ==
  /\ down' = [down EXCEPT ![c] = @ \o units]
  /\ handlerPc' = [handlerPc EXCEPT ![c] = nextPc]
  /\ UNCHANGED <<request, lineBuf, stats, seen, clientVars, up>>

\* A line that does not parse: 400, and the connection is closed.
ReplyBadRequest(c) ==
  /\ handlerPc[c] = "parsed"
  /\ request[c] \in Malformed
  /\ Reply(c, HeaderOf("400", request[c]), "closed")

\* The error is not sent (a fault).
ReplyNothing(c) ==
  /\ handlerPc[c] = "parsed"
  /\ request[c] \in Missing
  /\ Reply(c, << >>, "reading")

\* An unknown representation or segment: 404, and the loop goes on.
ReplyNotFound(c) ==
  /\ handlerPc[c] = "parsed"
  /\ request[c] \in Missing
  /\ Reply(c, HeaderOf("404", request[c]), "reading")

\* sendall(header), then sendall(segment.data).
SendHeader(c) ==
  /\ handlerPc[c] = "parsed"
  /\ request[c] \in Stored
  /\ Reply(c, HeaderOf("200", request[c]), "payload")

SendPayload(c) ==
  /\ handlerPc[c] = "payload"
  /\ Reply(c, Payload(request[c]), "count")

\* resolve or a sendall raises, after any part of the data has left: the
\* connection is closed.
SendFails(c) ==
  \/ /\ handlerPc[c] = "parsed"
     /\ \E status \in {"200", "404", "400"}, n \in 0..1 :
          /\ request[c] \in IF status = "200" THEN Stored
                            ELSE IF status = "404" THEN Missing ELSE Malformed
          /\ Reply(c, SubSeq(HeaderOf(status, request[c]), 1, n), "closed")
  \/ /\ handlerPc[c] = "payload"
     /\ \E n \in 0..(Size[request[c]] - 1) :
          Reply(c, SubSeq(Payload(request[c]), 1, n), "closed")

\* stats_lock is not taken (a fault).
LockIgnored(c) ==
  /\ handlerPc[c] = "count"
  /\ seen' = [seen EXCEPT ![c] = stats]
  /\ handlerPc' = [handlerPc EXCEPT ![c] = "counting"]
  /\ UNCHANGED <<request, lineBuf, stats, clientVars, up, down>>

\* The statistics, after the response has been sent: under stats_lock they are
\* read ...
LockStats(c) ==
  /\ handlerPc[c] = "count"
  /\ \A d \in Clients : handlerPc[d] # "counting"
  /\ seen' = [seen EXCEPT ![c] = stats]
  /\ handlerPc' = [handlerPc EXCEPT ![c] = "counting"]
  /\ UNCHANGED <<request, lineBuf, stats, clientVars, up, down>>

\* The bytes are not counted (a fault).
CountSegments(c) == [segments_sent |-> seen[c].segments_sent + 1]

Count(c) ==
  [segments_sent |-> seen[c].segments_sent + 1,
   bytes_sent    |-> seen[c].bytes_sent + Size[request[c]]]

\* ... and written, and the lock is released.
UpdateStats(c) ==
  /\ handlerPc[c] = "counting"
  /\ stats' = Count(c)
  /\ seen' = [seen EXCEPT ![c] = NoStats]
  /\ handlerPc' = [handlerPc EXCEPT ![c] = "reading"]
  /\ UNCHANGED <<request, lineBuf, clientVars, up, down>>

-----------------------------------------------------------------------------
ClientStep(c) == ClientRecv(c) \/ ClientEof(c) \/ ReadHeader(c) \/ ReadBody(c)

HandlerStep(c) ==
  \/ HandlerRecv(c) \/ ReadLine(c) \/ HandlerEof(c)
  \/ ReplyBadRequest(c) \/ ReplyNotFound(c)
  \/ SendHeader(c) \/ SendPayload(c) \/ LockStats(c) \/ UpdateStats(c)

Closed == \A c \in Clients : ClientGone(c) /\ handlerPc[c] = "closed"

Next ==
  \/ \E c \in Clients :
       \/ \E r \in Requests : Fetch(c, r)
       \/ ClientStep(c) \/ ClientTimeout(c) \/ ClientClose(c)
       \/ HandlerStep(c) \/ HandlerTimeout(c) \/ SendFails(c)
  \/ Closed /\ UNCHANGED vars

\* Bytes arrive and threads run; timeouts and failures may come or not.
Spec ==
  /\ Init /\ [][Next]_vars
  /\ \A c \in Clients : WF_vars(ClientStep(c)) /\ WF_vars(HandlerStep(c))

-----------------------------------------------------------------------------
(* Properties *)

Units == [kind : {"text", "newline", "200", "404", "400", "DATA", "byte"},
          request : Requests, n : Nat]

Statistics == [segments_sent : Nat, bytes_sent : Nat]

TypeOK ==
  /\ clientPc \in [Clients -> {"idle", "header", "body", "closed", "raised"}]
  /\ asked \in [Clients -> Requests \cup {None}]
  /\ header \in [Clients -> Units \cup {NoHeader}]
  /\ \A c \in Clients : /\ clientBuf[c] \in Seq(Units) /\ lineBuf[c] \in Seq(Units)
                        /\ up[c] \in Seq(Units) /\ down[c] \in Seq(Units)
                        /\ Len(results[c]) <= MaxFetches[c]
  /\ handlerPc \in [Clients -> {"reading", "parsed", "payload", "count", "counting", "closed"}]
  /\ request \in [Clients -> Requests \cup {None}]
  /\ stats \in Statistics /\ seen \in [Clients -> Statistics]

\* A fetch returns the response to its own request, complete: fetch itself
\* looks only at lengths, so this rests on both ends staying in step over any
\* splitting of the streams, errors included (socket_client.py:52-56, 67-88;
\* connection_handler.py:44-75).
ResponseMatches ==
  \A c \in Clients : \A i \in 1..Len(results[c]) :
    LET res == results[c][i] IN
    /\ res.header.request = res.asked
    /\ res.header.kind = IF res.asked \in Stored THEN "200"
                         ELSE IF res.asked \in Missing THEN "404" ELSE "400"
    /\ res.body = IF res.asked \in Stored THEN Payload(res.asked) ELSE << >>

\* The response that build_response_header and the segment's data make up.
Status(r) == IF r \in Stored THEN "200" ELSE IF r \in Missing THEN "404" ELSE "400"
Body(r)   == IF r \in Stored THEN Payload(r) ELSE << >>

AnswerOf(r) == [asked  |-> r,
                header |-> Unit(Status(r), r, Len(Body(r))),
                body   |-> Body(r)]

Phase(c) == IF clientPc[c] \in {"header", "body"} THEN "calling"
            ELSE IF ClientGone(c) THEN "ended" ELSE "idle"

Calls == INSTANCE Rpc WITH
           NoRequest <- None,
           Answer    <- [r \in Requests |-> AnswerOf(r)],
           phase     <- [c \in Clients |-> Phase(c)],
           call      <- asked,
           answers   <- results

\* Over its two streams a client sees nothing but calls: each one returns the
\* answer of its request, whole and once, or raises, after which nothing is
\* fetched or returned on that connection any more (socket_client.py:44-65;
\* connection_handler.py:44-88).
ImplementsCalls == Calls!Spec

\* The handler has the request, or will read it, or has closed the connection.
AnswerIsDue(c) ==
  \/ handlerPc[c] \in {"parsed", "payload", "closed"}
  \/ up[c] # << >> \/ Has(lineBuf[c], "newline")

\* The two ends stay in step.  Between fetches nothing is left over, on the wire
\* or in a buffer, for a later fetch to mistake for its own response or for
\* read_request_line to drop with the rest of its buffer; and during one, recv
\* never waits for bytes that nobody is going to send (request_parser.py:43;
\* socket_client.py:61-62, 70, 87; connection_handler.py:44-81).
InStep ==
  \A c \in Clients :
    /\ clientPc[c] = "idle" =>
         /\ down[c] = << >> /\ clientBuf[c] = << >>
         /\ up[c] = << >> /\ lineBuf[c] = << >>
    /\ Has(lineBuf[c], "newline") => Len(lineBuf[c]) = 2
    /\ Incomplete(c) /\ down[c] = << >> => AnswerIsDue(c)

\* The shared statistics account for every segment the clients have received, and
\* for its bytes, once no handler is between its send and its count; they account
\* for nothing else as long as no client has given up on a response
\* (connection_handler.py:74-81).
StatsSettle ==
  LET segments == UNION {{c} \X {i \in 1..Len(results[c]) : results[c][i].header.kind = "200"}
                         : c \in Clients}
      nSegments == Cardinality(segments)
      nBytes    == SumOver(segments, [p \in segments |-> Len(results[p[1]][p[2]].body)])
  IN
  (\A c \in Clients : handlerPc[c] \notin {"count", "counting"}) =>
    /\ stats.segments_sent >= nSegments /\ stats.bytes_sent >= nBytes
    /\ (\A c \in Clients : clientPc[c] \in {"idle", "closed"}) =>
         stats = [segments_sent |-> nSegments, bytes_sent |-> nBytes]

\* Every fetch ends, with an answer or an exception, even if no timeout ever
\* expires: no request is lost and no end waits for the other
\* (socket_client.py:52-56; connection_handler.py:44-81).
FetchEnds ==
  \A c \in Clients :
    clientPc[c] \in {"header", "body"} ~> clientPc[c] \in {"idle", "raised"}

\* What tests/test_e2e.py:72-73 asserts: when every client has had all its
\* segments, the server has counted them.
AllCounted ==
  (\A c \in Clients :
     /\ clientPc[c] = "closed"
     /\ Len(results[c]) = MaxFetches[c]
     /\ \A i \in 1..MaxFetches[c] : results[c][i].header.kind = "200") =>
  stats.segments_sent >= SumOver(Clients, MaxFetches)
=============================================================================
