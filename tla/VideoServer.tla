------------------------------ MODULE VideoServer ------------------------------
(***************************************************************************)
(* The life of a VideoServer (server/server.py): start, the accept loop in *)
(* its thread, stop and serve_forever, with the ConnectionHandler threads  *)
(* the loop starts, which outlive stop and share one SegmentManager.       *)
(*                                                                         *)
(* One thread, Main, starts the server, again and again, by start or by    *)
(* serve_forever; each of the Stoppers calls stop once, at any time, Main  *)
(* and each other notwithstanding.  No start overlaps another call, so it  *)
(* is one step.  Each start makes a listening socket and an acceptor       *)
(* thread, numbered by it; it gets the port only if no earlier socket has  *)
(* it.  Of a handler's requests only the calls of resolve are kept         *)
(* (Exchange has the rest).  Threads can always be started.                *)
(***************************************************************************)
EXTENDS Integers

CONSTANTS Main, Stoppers,
          Segments, MaxContents,
          MaxConnections, \* bound on the connections that clients open
          MaxStarts,      \* bound on the calls of start
          Laggards        \* the acceptors that may take over 2 s to notice a stop

Callers == {Main} \cup Stoppers
Starts  == 1..MaxStarts
None    == 0
Connections  == 1..MaxConnections   \* numbered in the order they are opened
NoConnection == 0

ASSUME ServerAssumption ==
  /\ Main \notin Stoppers
  /\ MaxStarts \in Nat \ {0} /\ MaxConnections \in Nat /\ MaxContents \in Nat
  /\ Laggards \subseteq Starts

VARIABLES
  sock, accepting, thread,   \* _sock and _thread, by number, and _accepting
  sockets,                   \* what the kernel has made of each socket
  callerPc, own,             \* where each caller is, the thread it joins
  overdue,                   \* acceptors whose join has run out
  acceptorPc,                \* where each acceptor is
  local, taken,              \* the socket it accepts on, the connection it got
  conn, via,                 \* each connection, and the socket it is queued on
  files, cache, resolvePc, key, data, calm, returned

fieldVars  == <<sock, accepting, thread>>
callerVars == <<callerPc, own, overdue>>
loopVars   == <<acceptorPc, local, taken>>
connVars   == <<conn, via>>
storeVars  == <<files, cache, resolvePc, key, data, calm, returned>>
vars == <<fieldVars, sockets, callerVars, loopVars, connVars, storeVars>>

Store == INSTANCE SegmentManager WITH Handlers <- Connections, pc <- resolvePc

Init ==
  /\ sock = None /\ accepting = FALSE /\ thread = None
  /\ sockets = [n \in Starts |-> "none"]
  /\ callerPc = [t \in Callers |-> "idle"]
  /\ own = [t \in Callers |-> None]
  /\ overdue = {}
  /\ acceptorPc = [n \in Starts |-> "none"]
  /\ local = [n \in Starts |-> None]
  /\ taken = [n \in Starts |-> NoConnection]
  /\ conn = [c \in Connections |-> "new"]
  /\ via = [c \in Connections |-> None]
  /\ Store!Init

Goto(t, next) == callerPc' = [callerPc EXCEPT ![t] = next]
Leave(t) == Goto(t, IF t = Main THEN "idle" ELSE "returned")
Loop(n, next) == acceptorPc' = [acceptorPc EXCEPT ![n] = next]

\* No call of t is under way, except for serve_forever's wait.
Resting(t) == callerPc[t] \in {"idle", "serving", "returned"}

-----------------------------------------------------------------------------
(* start, stop and serve_forever *)

\* start, for its caller or for serve_forever, which then waits: socket, fields
\* and thread.  A bind that raises changes nothing.
Start(n) ==
  /\ callerPc[Main] = "idle" /\ \A t \in Callers : Resting(t)
  /\ sockets[n] = "none" /\ \A k \in 1..(n-1) : sockets[k] = "closed"
  /\ sockets' = [sockets EXCEPT ![n] = "listening"]
  /\ sock' = n /\ accepting' = TRUE /\ thread' = n
  /\ Loop(n, "begin")
  /\ Goto(Main, "serving")
  /\ UNCHANGED <<own, overdue, local, taken, connVars, storeVars>>

\* stop: self._accepting = False.  serve_forever calls it when it has seen the
\* flag down or is interrupted, the caller of start when it likes.
Stop(t) ==
  /\ callerPc[t] = IF t = Main THEN "serving" ELSE "idle"
  /\ accepting' = FALSE
  /\ Goto(t, "flagged")
  /\ UNCHANGED <<sock, thread, sockets, own, overdue, loopVars, connVars, storeVars>>

CheckSock(t) ==
  /\ callerPc[t] = "flagged"
  /\ Goto(t, IF sock # None THEN "closing" ELSE "closed")
  /\ UNCHANGED <<fieldVars, sockets, own, overdue, loopVars, connVars, storeVars>>

\* self._sock.close(), reading _sock again: another stop may have cleared it,
\* and this one raises an AttributeError.  What waits to be accepted is reset.
CloseSock(t) ==
  /\ callerPc[t] = "closing"
  /\ IF sock = None
     THEN Leave(t) /\ UNCHANGED <<sockets, connVars>>
     ELSE /\ Goto(t, "clearing")
          /\ sockets' = [sockets EXCEPT ![sock] = "closed"]
          /\ conn' = [c \in Connections |-> IF via[c] = sock THEN "gone" ELSE conn[c]]
          /\ via' = [c \in Connections |-> IF via[c] = sock THEN None ELSE via[c]]
  /\ UNCHANGED <<fieldVars, own, overdue, loopVars, storeVars>>

ClearSock(t) ==
  /\ callerPc[t] = "clearing"
  /\ sock' = None
  /\ Goto(t, "closed")
  /\ UNCHANGED <<accepting, thread, sockets, own, overdue, loopVars, connVars, storeVars>>

CheckThread(t) ==
  /\ callerPc[t] = "closed"
  /\ IF thread # None THEN Goto(t, "join") ELSE Leave(t)
  /\ UNCHANGED <<fieldVars, sockets, own, overdue, loopVars, connVars, storeVars>>

\* self._thread.join, reading _thread again, which another stop may have cleared.
CallJoin(t) ==
  /\ callerPc[t] = "join"
  /\ own' = [own EXCEPT ![t] = thread]
  /\ IF thread # None THEN Goto(t, "joining") ELSE Leave(t)
  /\ UNCHANGED <<fieldVars, sockets, overdue, loopVars, connVars, storeVars>>

Done(n) == acceptorPc[n] \in {"ended", "failed", "crashed"}

\* The acceptor is not waited for (a fault).
JoinNobody(t) ==
  /\ callerPc[t] = "joining"
  /\ Goto(t, "joined")
  /\ UNCHANGED <<fieldVars, sockets, own, overdue, loopVars, connVars, storeVars>>

\* join returns when the thread has ended, or after 2 s; accept lets go of the
\* loop after 0.5 s, so that only a thread starved of the processor is overdue.
Join(t) ==
  /\ callerPc[t] = "joining"
  /\ Done(own[t]) \/ own[t] \in Laggards
  /\ overdue' = IF Done(own[t]) THEN overdue ELSE overdue \cup {own[t]}
  /\ Goto(t, "joined")
  /\ UNCHANGED <<fieldVars, sockets, own, loopVars, connVars, storeVars>>

ClearThread(t) ==
  /\ callerPc[t] = "joined"
  /\ thread' = None
  /\ own' = [own EXCEPT ![t] = None]
  /\ Leave(t)
  /\ UNCHANGED <<sock, accepting, sockets, overdue, loopVars, connVars, storeVars>>

-----------------------------------------------------------------------------
(* _accept_loop *)

\* assert self._sock is not None
AssertSock(n) ==
  /\ acceptorPc[n] = "begin"
  /\ Loop(n, IF sock # None THEN "check" ELSE "crashed")
  /\ UNCHANGED <<fieldVars, sockets, callerVars, local, taken, connVars, storeVars>>

CheckFlag(n) ==
  /\ acceptorPc[n] = "check"
  /\ Loop(n, IF accepting THEN "load" ELSE "ended")
  /\ UNCHANGED <<fieldVars, sockets, callerVars, local, taken, connVars, storeVars>>

\* A None is waited on as well (a fault).
LoadAnything(n) ==
  /\ acceptorPc[n] = "load"
  /\ local' = [local EXCEPT ![n] = sock]
  /\ Loop(n, "accept")
  /\ UNCHANGED <<fieldVars, sockets, callerVars, taken, connVars, storeVars>>

\* self._sock, for the call of accept: on None an AttributeError, which the loop
\* does not catch.
LoadSock(n) ==
  /\ acceptorPc[n] = "load"
  /\ local' = [local EXCEPT ![n] = sock]
  /\ Loop(n, IF sock # None THEN "accept" ELSE "crashed")
  /\ UNCHANGED <<fieldVars, sockets, callerVars, taken, connVars, storeVars>>

Queued(n) == {c \in Connections : via[c] = n}

Accept(n) ==
  /\ acceptorPc[n] = "accept"
  /\ \E c \in Queued(local[n]) :
       /\ conn' = [conn EXCEPT ![c] = "accepted"]
       /\ taken' = [taken EXCEPT ![n] = c]
  /\ via' = [via EXCEPT ![taken'[n]] = None]
  /\ local' = [local EXCEPT ![n] = None]
  /\ Loop(n, "spawn")
  /\ UNCHANGED <<fieldVars, sockets, callerVars, storeVars>>

AcceptEnds(n, next) ==
  /\ acceptorPc[n] = "accept"
  /\ local' = [local EXCEPT ![n] = None]
  /\ Loop(n, next)
  /\ UNCHANGED <<fieldVars, sockets, callerVars, taken, connVars, storeVars>>

\* Without settimeout (a fault).
AcceptBlocks(n) == AcceptEnds(n, "check") /\ FALSE

\* socket.timeout, an OSError too, is caught as one (a fault).
TimeoutBreaks(n) == AcceptEnds(n, "ended") /\ Queued(local[n]) = {}

\* Nobody has come for 0.5 s: continue.
AcceptTimeout(n) == AcceptEnds(n, "check") /\ Queued(local[n]) = {}

\* The socket was closed before accept looked at it: break.  An accept that is
\* waiting already is not woken by the close.
AcceptClosed(n) == AcceptEnds(n, "ended") /\ sockets[local[n]] = "closed"

\* Any other OSError, out of file descriptors for one: break as well, with the
\* server still up.
AcceptFails(n) == AcceptEnds(n, "failed")

\* The ConnectionHandler is created and started.
StartHandler(n) ==
  /\ acceptorPc[n] = "spawn"
  /\ conn' = [conn EXCEPT ![taken[n]] = "served"]
  /\ taken' = [taken EXCEPT ![n] = NoConnection]
  /\ Loop(n, "check")
  /\ UNCHANGED <<fieldVars, sockets, callerVars, local, via, storeVars>>

-----------------------------------------------------------------------------
(* Clients and handlers *)

\* A client connects: the kernel queues it for accept.
Connect(c) ==
  /\ conn[c] = "new" /\ \A d \in 1..(c-1) : conn[d] # "new"
  /\ \E n \in Starts : sockets[n] = "listening" /\ via' = [via EXCEPT ![c] = n]
  /\ conn' = [conn EXCEPT ![c] = "queued"]
  /\ UNCHANGED <<fieldVars, sockets, callerVars, loopVars, storeVars>>

\* The handler resolves the requests of its connection.
Serve(c) ==
  /\ conn[c] = "served"
  /\ \/ \E s \in Segments : Store!Lookup(c, s)
     \/ Store!CheckFile(c) \/ Store!ReadFile(c) \/ Store!Store(c)
  /\ UNCHANGED <<fieldVars, sockets, callerVars, loopVars, connVars>>

\* The client has gone, or sent nothing for 30 s.
Disconnect(c) ==
  /\ conn[c] = "served" /\ resolvePc[c] = "idle"
  /\ conn' = [conn EXCEPT ![c] = "gone"]
  /\ UNCHANGED <<fieldVars, sockets, callerVars, loopVars, via, storeVars>>

\* The exception of read_bytes ends the handler.
ServeRaises(c) ==
  /\ Store!ReadRaises(c)
  /\ conn' = [conn EXCEPT ![c] = "gone"]
  /\ UNCHANGED <<fieldVars, sockets, callerVars, loopVars, via>>

ChangeFile ==
  /\ \E s \in Segments : Store!ChangeFile(s)
  /\ UNCHANGED <<fieldVars, sockets, callerVars, loopVars, connVars>>

-----------------------------------------------------------------------------
StopStep(t) ==
  \/ CheckSock(t) \/ CloseSock(t) \/ ClearSock(t)
  \/ CheckThread(t) \/ CallJoin(t) \/ Join(t) \/ ClearThread(t)

LoopStep(n) ==
  \/ AssertSock(n) \/ CheckFlag(n) \/ LoadSock(n)
  \/ Accept(n) \/ AcceptTimeout(n) \/ StartHandler(n)

Next ==
  \/ \E t \in Callers : Stop(t) \/ StopStep(t)
  \/ \E n \in Starts : Start(n) \/ LoopStep(n) \/ AcceptClosed(n) \/ AcceptFails(n)
  \/ \E c \in Connections :
       Connect(c) \/ Serve(c) \/ Disconnect(c) \/ ServeRaises(c)
  \/ ChangeFile

\* Every thread goes on with the call it is in; accept returns when a client has
\* come, and otherwise after its 0.5 s.  Nobody has to start or to stop the
\* server, or to connect.
Spec ==
  /\ Init /\ [][Next]_vars
  /\ \A t \in Callers : WF_vars(StopStep(t))
  /\ \A n \in Starts : WF_vars(LoopStep(n))

-----------------------------------------------------------------------------
(* Properties *)

TypeOK ==
  /\ sock \in Starts \cup {None} /\ accepting \in BOOLEAN
  /\ thread \in Starts \cup {None}
  /\ sockets \in [Starts -> {"none", "listening", "closed"}]
  /\ callerPc \in [Callers -> {"idle", "serving", "returned", "flagged", "closing",
                               "clearing", "closed", "join", "joining", "joined"}]
  /\ own \in [Callers -> Starts \cup {None}]
  /\ overdue \subseteq Starts
  /\ acceptorPc \in [Starts -> {"none", "begin", "check", "load", "accept", "spawn",
                                "ended", "failed", "crashed"}]
  /\ local \in [Starts -> Starts \cup {None}]
  /\ taken \in [Starts -> Connections \cup {NoConnection}]
  /\ \A n \in Starts : /\ acceptorPc[n] = "accept" => local[n] # None
                       /\ acceptorPc[n] = "spawn" => conn[taken[n]] = "accepted"
  /\ conn \in [Connections -> {"new", "queued", "accepted", "served", "gone"}]
  /\ via \in [Connections -> Starts \cup {None}]
  /\ \A c \in Connections : conn[c] = "queued" <=> via[c] # None
  /\ Store!TypeOK

\* Whenever no call is under way the server is up as a whole or down as a whole:
\* stops that run into each other may raise, but between them they close the
\* socket and end the accept loop, all but the threads whose join ran out
\* (server.py:33-45, 71-81).
UpOrDown ==
  (\A t \in Callers : Resting(t)) =>
    \/ /\ accepting /\ sock # None /\ thread = sock
       /\ \A n \in Starts : sockets[n] = "listening" <=> n = sock
    \/ /\ ~accepting /\ sock = None /\ thread = None
       /\ \A n \in Starts : /\ sockets[n] # "listening"
                            /\ acceptorPc[n] = "none" \/ Done(n) \/ n \in overdue

\* The bytes of a segment do not change any more once they are cached and nobody
\* is loading them, even for the handlers of a server that has been stopped and
\* started again (segment_manager.py:80-96).
SettledBytes == Store!SettledBytes

\* After a stop all accept loops end, those of earlier starts that no join has
\* waited for included, unless the server is started again first: they never
\* wait for a client that does not come (server.py:39, 49-55).
AcceptorsEnd ==
  []<>(accepting \/ \A n \in Starts : acceptorPc[n] = "none" \/ Done(n))

\* Clients that have connected get their handlers, or a stop resets their
\* connections; only an accept that fails for want of resources leaves them
\* waiting, for that ends the loop while the server seems up
\* (server.py:49-59, 73-78).  A connection is queued only once.
ConnectionsAnswered ==
  []<>(\/ \A c \in Connections : conn[c] # "queued"
       \/ \E n \in Starts : acceptorPc[n] = "failed")
=============================================================================
