--------------------------- MODULE VideoServerProofs ---------------------------
(***************************************************************************)
(* Theorems about VideoServer, for any number of threads that call stop,   *)
(* of connections, of segments and of starts, whichever joins run out.     *)
(***************************************************************************)
EXTENDS VideoServer, TLAPS

\* The steps of the SegmentManager within the server's.
StoreStep ==
  \/ \E h \in Connections, s \in Segments : Store!Lookup(h, s)
  \/ \E h \in Connections :
       Store!CheckFile(h) \/ Store!ReadFile(h) \/ Store!ReadRaises(h) \/ Store!Store(h)
  \/ \E s \in Segments : Store!ChangeFile(s)

LEMMA StepsOfStore == [Next]_vars => StoreStep \/ UNCHANGED storeVars
<1> SUFFICES ASSUME [Next]_vars PROVE StoreStep \/ UNCHANGED storeVars
  OBVIOUS
<1>1. ASSUME NEW t \in Callers, Stop(t) \/ StopStep(t)
      PROVE  UNCHANGED storeVars
  BY <1>1 DEF Stop, StopStep, CheckSock, CloseSock, ClearSock, CheckThread, CallJoin,
              Join, ClearThread
<1>2. ASSUME NEW n \in Starts, Start(n) \/ LoopStep(n) \/ AcceptClosed(n) \/ AcceptFails(n)
      PROVE  UNCHANGED storeVars
  BY <1>2 DEF Start, LoopStep, AssertSock, CheckFlag, LoadSock, Accept, AcceptTimeout,
              StartHandler, AcceptClosed, AcceptFails, AcceptEnds
<1>3. ASSUME NEW c \in Connections, Connect(c) \/ Disconnect(c)
      PROVE  UNCHANGED storeVars
  BY <1>3 DEF Connect, Disconnect
<1>4. ASSUME NEW c \in Connections, Serve(c) \/ ServeRaises(c)
      PROVE  StoreStep
  BY <1>4 DEF Serve, ServeRaises, StoreStep
<1>5. ASSUME ChangeFile
      PROVE  StoreStep
  BY <1>5 DEF ChangeFile, StoreStep
<1>6. CASE UNCHANGED vars
  BY <1>6 DEF vars
<1> QED
  BY <1>1, <1>2, <1>3, <1>4, <1>5, <1>6 DEF Next

LEMMA StoreTypes ==
  Store!TypeOK /\ (StoreStep \/ UNCHANGED storeVars) => Store!TypeOK'
<1> SUFFICES ASSUME Store!TypeOK, StoreStep \/ UNCHANGED storeVars
             PROVE  Store!TypeOK'
  OBVIOUS
<1> USE DEF Store!TypeOK
<1>0. /\ Store!Synthetic \in Store!Contents
      /\ Store!NotCached \notin Store!Contents
  BY ServerAssumption DEF Store!Synthetic, Store!NotCached, Store!Contents
<1>1. ASSUME NEW h \in Connections, NEW s \in Segments, Store!Lookup(h, s)
      PROVE  Store!TypeOK'
  <2>1. CASE cache[s] # Store!NotCached
    <3>1. /\ UNCHANGED <<files, cache, resolvePc, key, data, calm>>
          /\ \/ returned' = [returned EXCEPT ![s] = @ \cup {cache[s]}]
             \/ returned' = returned
      BY <1>1, <2>1 DEF Store!Lookup, Store!Note
    <3>2. returned' \in [Segments -> SUBSET Store!Contents]
      BY <1>0, <2>1, <3>1
    <3> QED
      BY <3>1, <3>2
  <2>2. CASE cache[s] = Store!NotCached
    <3>1. Store!Settled(s) = FALSE
      BY <2>2 DEF Store!Settled
    <3> QED
      BY <1>0, <1>1, <2>2, <3>1 DEF Store!Lookup
  <2> QED
    BY <2>1, <2>2
<1>2. ASSUME NEW h \in Connections, Store!CheckFile(h)
      PROVE  Store!TypeOK'
  BY <1>0, <1>2 DEF Store!CheckFile
<1>3. ASSUME NEW h \in Connections, Store!ReadFile(h)
      PROVE  Store!TypeOK'
  BY <1>0, <1>3 DEF Store!ReadFile
<1>4. ASSUME NEW h \in Connections, Store!ReadRaises(h)
      PROVE  Store!TypeOK'
  BY <1>0, <1>4 DEF Store!ReadRaises
<1>5. ASSUME NEW h \in Connections, Store!Store(h)
      PROVE  Store!TypeOK'
  BY <1>0, <1>5 DEF Store!Store, Store!Note
<1>6. ASSUME NEW s \in Segments, Store!ChangeFile(s)
      PROVE  Store!TypeOK'
  BY <1>6 DEF Store!ChangeFile
<1>7. CASE UNCHANGED storeVars
  BY <1>7 DEF storeVars
<1> QED
  BY <1>1, <1>2, <1>3, <1>4, <1>5, <1>6, <1>7 DEF StoreStep

-----------------------------------------------------------------------------
(* Types *)

\* A connection is in the hands of one acceptor at a time.
OneTaker ==
  /\ \A n \in Starts : acceptorPc[n] = "spawn" => taken[n] \in Connections
  /\ \A m, n \in Starts :
       acceptorPc[m] = "spawn" /\ acceptorPc[n] = "spawn" /\ m # n => taken[m] # taken[n]

\* Only the handler of an open connection resolves segments.
HandlerUp == \A c \in Connections : resolvePc[c] # "idle" => conn[c] = "served"

\* Whoever joins a thread has one to join.
OwnThread == \A t \in Callers : callerPc[t] \in {"joining", "joined"} => own[t] # None

Types == TypeOK /\ OneTaker /\ HandlerUp /\ OwnThread

LEMMA TypesKept == Spec => []Types
<1>1. Init => Types
  <2> SUFFICES ASSUME Init PROVE Types
    OBVIOUS
  <2>1. Store!TypeOK
    BY ServerAssumption DEF Init, Store!Init, Store!TypeOK, Store!Contents, Store!NotCached
  <2> QED
    BY <2>1, ServerAssumption DEF Init, Store!Init, Types, TypeOK, OneTaker, HandlerUp, OwnThread, Callers, Starts, None
<1>2. Types /\ [Next]_vars => Types'
  <2> SUFFICES ASSUME Types, [Next]_vars
               PROVE  Types'
    OBVIOUS
  <2>0. Store!TypeOK'
    BY StepsOfStore, StoreTypes DEF Types, TypeOK
  <2> USE DEF Types, TypeOK, OneTaker, HandlerUp, OwnThread, fieldVars, callerVars, loopVars, connVars,
             storeVars
  <2>1. /\ None \notin Starts
        /\ NoConnection \notin Connections
        /\ resolvePc \in [Connections -> {"idle", "exists", "read", "store"}]
    BY ServerAssumption DEF Starts, None, Connections, NoConnection, Store!TypeOK
  <2>2. ASSUME NEW n \in Starts, Start(n)
        PROVE  Types'
    <3>1. Main \in Callers
      BY DEF Callers
    <3>2. callerPc' \in [Callers -> {"idle", "serving", "returned", "flagged", "closing",
                                     "clearing", "closed", "join", "joining", "joined"}]
      BY <3>1, <2>2 DEF Start, Goto
    <3>3. OwnThread'
      BY <3>1, <2>2 DEF Start, Goto
    <3> QED
      BY <2>0, <2>1, <2>2, <3>2, <3>3 DEF Start, Loop
  <2>3. ASSUME NEW t \in Callers, Stop(t)
        PROVE  Types'
    <3>1. /\ callerPc' = [callerPc EXCEPT ![t] = "flagged"] /\ accepting' = FALSE
          /\ UNCHANGED <<sock, thread, sockets, own, overdue, loopVars, connVars, storeVars>>
      BY <2>3 DEF Stop, Goto
    <3>2. OneTaker' /\ HandlerUp' /\ OwnThread'
      BY <3>1
    <3>3. /\ accepting' \in BOOLEAN
          /\ callerPc' \in [Callers -> {"idle", "serving", "returned", "flagged", "closing",
                                        "clearing", "closed", "join", "joining", "joined"}]
      BY <3>1
    <3> QED
      BY <2>0, <3>1, <3>2, <3>3
  <2>4. ASSUME NEW t \in Callers, CheckSock(t)
        PROVE  Types'
    BY <2>0, <2>1, <2>4 DEF CheckSock, Goto
  <2>5. ASSUME NEW t \in Callers, CloseSock(t)
        PROVE  Types'
    BY <2>0, <2>1, <2>5 DEF CloseSock, Goto, Leave
  <2>6. ASSUME NEW t \in Callers, ClearSock(t)
        PROVE  Types'
    BY <2>0, <2>1, <2>6 DEF ClearSock, Goto
  <2>7. ASSUME NEW t \in Callers, CheckThread(t)
        PROVE  Types'
    BY <2>0, <2>1, <2>7 DEF CheckThread, Goto, Leave
  <2>8. ASSUME NEW t \in Callers, CallJoin(t)
        PROVE  Types'
    BY <2>0, <2>1, <2>8 DEF CallJoin, Goto, Leave
  <2>9. ASSUME NEW t \in Callers, Join(t)
        PROVE  Types'
    BY <2>0, <2>1, <2>9 DEF Join, Goto
  <2>10. ASSUME NEW t \in Callers, ClearThread(t)
        PROVE  Types'
    BY <2>0, <2>1, <2>10 DEF ClearThread, Goto, Leave
  <2>11. ASSUME NEW n \in Starts, AssertSock(n)
        PROVE  Types'
    BY <2>0, <2>1, <2>11 DEF AssertSock, Loop
  <2>12. ASSUME NEW n \in Starts, CheckFlag(n)
        PROVE  Types'
    BY <2>0, <2>1, <2>12 DEF CheckFlag, Loop
  <2>13. ASSUME NEW n \in Starts, LoadSock(n)
        PROVE  Types'
    BY <2>0, <2>1, <2>13 DEF LoadSock, Loop
  <2>14. ASSUME NEW n \in Starts, Accept(n)
        PROVE  Types'
    BY <2>0, <2>1, <2>14 DEF Accept, Loop, Queued
  <2>15. ASSUME NEW n \in Starts, AcceptTimeout(n)
        PROVE  Types'
    BY <2>0, <2>1, <2>15 DEF AcceptTimeout, Loop, AcceptEnds
  <2>16. ASSUME NEW n \in Starts, StartHandler(n)
        PROVE  Types'
    <3>1. /\ conn' = [conn EXCEPT ![taken[n]] = "served"]
          /\ acceptorPc' = [acceptorPc EXCEPT ![n] = "check"]
          /\ taken' = [taken EXCEPT ![n] = NoConnection]
          /\ acceptorPc[n] = "spawn"
      BY <2>16 DEF StartHandler, Loop
    <3>2. taken[n] \in Connections /\ conn[taken[n]] = "accepted"
      BY <2>1, <3>1
    <3>3. \A m \in Starts :
            acceptorPc'[m] = "spawn" => /\ m # n /\ acceptorPc[m] = "spawn"
                                        /\ taken'[m] = taken[m]
                                        /\ taken[m] \in Connections
                                        /\ taken[m] # taken[n]
      BY <2>1, <3>1
    <3>4. \A m \in Starts : acceptorPc'[m] = "spawn" => conn'[taken'[m]] = "accepted"
      BY <3>1, <3>2, <3>3
    <3>5. \A c \in Connections : conn'[c] = "queued" <=> conn[c] = "queued"
      BY <3>1, <3>2
    <3> QED
      BY <2>0, <2>1, <2>16, <3>2, <3>3, <3>4, <3>5 DEF StartHandler, Loop
  <2>17. ASSUME NEW n \in Starts, AcceptClosed(n)
        PROVE  Types'
    BY <2>0, <2>1, <2>17 DEF AcceptClosed, Loop, AcceptEnds
  <2>18. ASSUME NEW n \in Starts, AcceptFails(n)
        PROVE  Types'
    BY <2>0, <2>1, <2>18 DEF AcceptFails, Loop, AcceptEnds
  <2>19. ASSUME NEW c \in Connections, Connect(c)
        PROVE  Types'
    BY <2>0, <2>1, <2>19 DEF Connect
  <2>20. ASSUME NEW c \in Connections, Disconnect(c)
        PROVE  Types'
    BY <2>0, <2>1, <2>20 DEF Disconnect
  <2>21. ASSUME NEW c \in Connections, Serve(c)
        PROVE  Types'
    BY <2>0, <2>1, <2>21 DEF Serve, Store!Lookup, Store!CheckFile, Store!ReadFile, Store!Store
  <2>22. ASSUME NEW c \in Connections, ServeRaises(c)
        PROVE  Types'
    BY <2>0, <2>1, <2>22 DEF ServeRaises, Store!ReadRaises
  <2>23. CASE ChangeFile
    BY <2>0, <2>23 DEF ChangeFile, Store!ChangeFile
  <2>24. CASE UNCHANGED vars
    BY <2>0, <2>24 DEF vars
  <2> HIDE DEF Types, TypeOK, OneTaker, HandlerUp, OwnThread, fieldVars, callerVars, loopVars, connVars,
             storeVars
  <2> QED
    BY <2>2, <2>3, <2>4, <2>5, <2>6, <2>7, <2>8, <2>9, <2>10, <2>11, <2>12, <2>13, <2>14, <2>15, <2>16, <2>17, <2>18, <2>19, <2>20, <2>21, <2>22, <2>23, <2>24 DEF Next, StopStep, LoopStep
<1> QED
  BY <1>1, <1>2, PTL DEF Spec

\* Every variable keeps its type; whoever is in accept has a socket, and whoever
\* starts a handler has a connection (server.py:47-81).
THEOREM TypeCorrect == Spec => []TypeOK
<1>1. Types => TypeOK
  BY DEF Types
<1> QED
  BY <1>1, TypesKept, PTL

-----------------------------------------------------------------------------
(* The cache *)

\* No call is calm that misses the cache, and what calm calls have returned is
\* what the cache holds, with nobody about to store something else.
Settlement ==
  /\ \A h \in Connections : calm[h] = FALSE
  /\ \A s \in Segments : returned[s] # {} =>
       /\ cache[s] # Store!NotCached
       /\ \A h \in Connections : resolvePc[h] # "idle" => key[h] # s
       /\ \A b \in returned[s] : b = cache[s]

\* A cached segment that nobody is loading keeps its bytes for good, whatever
\* happens to the files and to the server (segment_manager.py:80-96).
THEOREM BytesSettle == Spec => []SettledBytes
<1>1. Init => Settlement
  BY DEF Init, Store!Init, Settlement
<1>2. Types /\ Settlement /\ [Next]_vars => Settlement'
  <2> SUFFICES ASSUME Store!TypeOK, Settlement, StoreStep \/ UNCHANGED storeVars
               PROVE  Settlement'
    BY StepsOfStore DEF Types, TypeOK
  <2> USE DEF Store!TypeOK, Settlement
  <2>1. ASSUME NEW h \in Connections, NEW s \in Segments, Store!Lookup(h, s)
        PROVE  Settlement'
    <3>1. CASE cache[s] # Store!NotCached /\ Store!Settled(s)
      BY <2>1, <3>1 DEF Store!Lookup, Store!Note, Store!Settled
    <3>2. CASE cache[s] # Store!NotCached /\ ~Store!Settled(s)
      BY <2>1, <3>2 DEF Store!Lookup, Store!Note
    <3>3. CASE cache[s] = Store!NotCached
      <4>1. Store!Settled(s) = FALSE
        BY <3>3 DEF Store!Settled
      <4> QED
        BY <2>1, <3>3, <4>1 DEF Store!Lookup
    <3> QED
      BY <3>1, <3>2, <3>3
  <2>2. ASSUME NEW h \in Connections,
               Store!CheckFile(h) \/ Store!ReadFile(h) \/ Store!ReadRaises(h)
        PROVE  Settlement'
    BY <2>2 DEF Store!CheckFile, Store!ReadFile, Store!ReadRaises
  <2>3. ASSUME NEW h \in Connections, Store!Store(h)
        PROVE  Settlement'
    BY <2>3 DEF Store!Store, Store!Note
  <2>4. ASSUME NEW s \in Segments, Store!ChangeFile(s)
        PROVE  Settlement'
    BY <2>4 DEF Store!ChangeFile
  <2>5. CASE UNCHANGED storeVars
    BY <2>5 DEF storeVars
  <2> QED
    BY <2>1, <2>2, <2>3, <2>4, <2>5 DEF StoreStep
<1>3. Settlement => SettledBytes
  BY DEF Settlement, SettledBytes, Store!SettledBytes
<1> QED
  BY <1>1, <1>2, <1>3, TypesKept, PTL DEF Spec

-----------------------------------------------------------------------------
(* Starting and stopping *)

\* One socket listens at most, the one the server has; the starts that have
\* happened are the first ones, each with its thread.
OneListens ==
  /\ \A n \in Starts : sockets[n] = "listening" => sock = n
  /\ sock # None => sockets[sock] # "none"
  /\ \A n \in Starts : sockets[n] = "none" <=> acceptorPc[n] = "none"
  /\ \A k, n \in Starts : k <= n /\ sockets[n] # "none" => sockets[k] # "none"

\* While the server accepts nobody is inside stop.
Accepting ==
  accepting =>
    /\ \A t \in Callers : Resting(t)
    /\ sock # None /\ thread = sock /\ sockets[sock] = "listening"

\* Once it does not, somebody is on the way to close the socket ...
Closing ==
  /\ ~accepting /\ sock # None =>
       \E t \in Callers : callerPc[t] \in {"flagged", "closing", "clearing"}
  /\ \A t \in Callers : callerPc[t] = "clearing" /\ sock # None => sockets[sock] = "closed"

\* ... and somebody, not one who will find the socket gone, to join the thread.
Joining ==
  /\ ~accepting /\ thread # None =>
       \E t \in Callers :
         \/ callerPc[t] \in {"flagged", "clearing", "closed", "join", "joining", "joined"}
         \/ callerPc[t] = "closing" /\ sock # None
  /\ \A t \in Callers :
       callerPc[t] \in {"joining", "joined"} =>
         /\ thread # None => thread = own[t]
         /\ callerPc[t] = "joined" => Done(own[t]) \/ own[t] \in overdue

\* The only acceptor that runs is the one whose thread the server has.
OneRuns ==
  \A n \in Starts :
    acceptorPc[n] = "none" \/ Done(n) \/ n \in overdue \/ thread = n

Lifecycle == OneListens /\ Accepting /\ Closing /\ Joining /\ OneRuns

\* What the invariant is about is left alone by the clients and the handlers, and
\* the accept loop only moves on.
LEMMA LoopEffect ==
  ASSUME NEW n \in Starts, LoopStep(n) \/ AcceptClosed(n) \/ AcceptFails(n)
  PROVE  /\ UNCHANGED <<fieldVars, sockets, callerVars>>
         /\ ~Done(n) /\ acceptorPc[n] # "none"
         /\ \E next \in {"check", "load", "accept", "spawn", "ended", "failed", "crashed"} :
              acceptorPc' = [acceptorPc EXCEPT ![n] = next]
<1>1. CASE AssertSock(n) \/ CheckFlag(n) \/ LoadSock(n)
  BY <1>1 DEF AssertSock, CheckFlag, LoadSock, Loop, Done
<1>2. CASE Accept(n) \/ StartHandler(n)
  BY <1>2 DEF Accept, StartHandler, Loop, Done
<1>3. CASE AcceptTimeout(n) \/ AcceptClosed(n) \/ AcceptFails(n)
  BY <1>3 DEF AcceptTimeout, AcceptClosed, AcceptFails, AcceptEnds, Loop, Done
<1> QED
  BY <1>1, <1>2, <1>3 DEF LoopStep

LEMMA LifecycleKept == Types /\ Lifecycle /\ [Next]_vars => Lifecycle'
<1> SUFFICES ASSUME Types, Lifecycle, [Next]_vars PROVE Lifecycle'
  OBVIOUS
<1>0. /\ None \notin Starts /\ Main \in Callers
      /\ sock \in Starts \cup {None} /\ thread \in Starts \cup {None}
      /\ accepting \in BOOLEAN
      /\ DOMAIN sockets = Starts /\ sockets = [n \in Starts |-> sockets[n]]
      /\ \A n \in Starts : sockets[n] \in {"none", "listening", "closed"}
      /\ DOMAIN callerPc = Callers /\ callerPc = [t \in Callers |-> callerPc[t]]
      /\ own \in [Callers -> Starts \cup {None}]
      /\ acceptorPc = [n \in Starts |-> acceptorPc[n]]
      /\ OwnThread
      /\ Starts \subseteq Int
  BY ServerAssumption DEF Types, TypeOK, Starts, None, Callers
<1> USE DEF Lifecycle, OneListens, Accepting, Closing, Joining, OneRuns, Resting, Done,
            fieldVars, callerVars
<1>1. ASSUME NEW n \in Starts, Start(n)
      PROVE  Lifecycle'
  <2>1. /\ sockets[n] = "none" /\ \A k \in 1..(n-1) : sockets[k] = "closed"
        /\ \A t \in Callers : Resting(t)
        /\ sockets' = [sockets EXCEPT ![n] = "listening"]
        /\ sock' = n /\ accepting' = TRUE /\ thread' = n
        /\ acceptorPc' = [acceptorPc EXCEPT ![n] = "begin"]
        /\ callerPc' = [callerPc EXCEPT ![Main] = "serving"]
        /\ overdue' = overdue /\ own' = own
    BY <1>1 DEF Start, Loop, Goto
  <2>2. \A k \in Starts : k < n => sockets[k] = "closed"
    BY <2>1, ServerAssumption DEF Starts
  <2>3. \A k \in Starts : k >= n => sockets[k] = "none"
    BY <1>0, <2>1
  <2>4. ~accepting
    BY <1>0, <2>2, <2>3
  <2>5. thread = None
    BY <2>1, <2>4
  <2>6. OneListens'
    BY <1>0, <2>1, <2>2, <2>3
  <2>7. OneRuns'
    BY <1>0, <2>1, <2>5
  <2> QED
    BY <1>0, <2>1, <2>6, <2>7
<1>2. ASSUME NEW t \in Callers, Stop(t)
      PROVE  Lifecycle'
  <2>1. /\ callerPc' = [callerPc EXCEPT ![t] = "flagged"]
        /\ callerPc[t] \in {"idle", "serving"} /\ accepting' = FALSE
        /\ UNCHANGED <<sock, thread, sockets, own, overdue, acceptorPc>>
    BY <1>2 DEF Stop, Goto, loopVars
  <2> QED
    BY <1>0, <2>1
<1>3. ASSUME NEW t \in Callers, CheckSock(t)
      PROVE  Lifecycle'
  BY <1>0, <1>3 DEF CheckSock, Goto, loopVars
<1>4. ASSUME NEW t \in Callers, CloseSock(t)
      PROVE  Lifecycle'
  <2>1. CASE sock = None
    <3>1. /\ \E next \in {"idle", "returned"} : callerPc' = [callerPc EXCEPT ![t] = next]
          /\ callerPc[t] = "closing"
          /\ UNCHANGED <<fieldVars, sockets, own, overdue, acceptorPc>>
      BY <1>4, <2>1 DEF CloseSock, Goto, Leave, loopVars
    <3> QED
      BY <1>0, <2>1, <3>1
  <2>2. CASE sock # None
    <3>1. /\ callerPc' = [callerPc EXCEPT ![t] = "clearing"] /\ callerPc[t] = "closing"
          /\ sockets' = [sockets EXCEPT ![sock] = "closed"]
          /\ UNCHANGED <<fieldVars, own, overdue, acceptorPc>>
      BY <1>4, <2>2 DEF CloseSock, Goto, loopVars
    <3>2. ~accepting /\ sock \in Starts
      BY <1>0, <2>2, <3>1
    <3>3. sockets[sock] # "none"
      BY <1>0, <3>2
    <3>4. OneListens'
      BY <1>0, <3>1, <3>2, <3>3
    <3>5. /\ callerPc'[t] = "clearing" /\ sockets'[sock] = "closed"
          /\ \A u \in Callers \ {t} : callerPc'[u] = callerPc[u]
      BY <1>0, <3>1, <3>2
    <3>6. Closing'
      BY <3>1, <3>2, <3>5
    <3>7. Joining'
      BY <3>1, <3>2, <3>5
    <3>8. Accepting' /\ OneRuns'
      BY <3>1, <3>2
    <3> QED
      BY <3>4, <3>6, <3>7, <3>8
  <2> QED
    BY <2>1, <2>2
<1>5. ASSUME NEW t \in Callers, ClearSock(t)
      PROVE  Lifecycle'
  <2>1. /\ callerPc' = [callerPc EXCEPT ![t] = "closed"] /\ callerPc[t] = "clearing"
        /\ sock' = None
        /\ UNCHANGED <<accepting, thread, sockets, own, overdue, acceptorPc>>
    BY <1>5 DEF ClearSock, Goto, loopVars
  <2>2. /\ callerPc'[t] = "closed"
        /\ \A u \in Callers \ {t} : callerPc'[u] = callerPc[u]
    BY <1>0, <2>1
  <2>3. ~accepting
    BY <2>1
  <2>4. \A n \in Starts : sockets[n] # "listening"
    <3>1. sock # None => sockets[sock] = "closed"
      BY <2>1
    <3> QED
      BY <1>0, <3>1
  <2>5. OneListens' /\ Accepting' /\ OneRuns'
    BY <2>1, <2>3, <2>4
  <2>6. Closing' /\ Joining'
    BY <2>1, <2>2, <2>3
  <2> QED
    BY <2>5, <2>6
<1>6. ASSUME NEW t \in Callers, CheckThread(t)
      PROVE  Lifecycle'
  BY <1>0, <1>6 DEF CheckThread, Goto, Leave, loopVars
<1>7. ASSUME NEW t \in Callers, CallJoin(t)
      PROVE  Lifecycle'
  <2>1. /\ UNCHANGED <<fieldVars, sockets, overdue, acceptorPc>>
        /\ own' = [own EXCEPT ![t] = thread] /\ callerPc[t] = "join"
        /\ IF thread # None
           THEN callerPc' = [callerPc EXCEPT ![t] = "joining"]
           ELSE \E next \in {"idle", "returned"} : callerPc' = [callerPc EXCEPT ![t] = next]
    BY <1>7 DEF CallJoin, Goto, Leave, loopVars
  <2>2. /\ own'[t] = thread
        /\ \A u \in Callers \ {t} : callerPc'[u] = callerPc[u] /\ own'[u] = own[u]
    BY <1>0, <2>1
  <2>3. CASE thread # None
    <3>1. callerPc'[t] = "joining"
      BY <1>0, <2>1, <2>3
    <3> QED
      BY <2>1, <2>2, <3>1
  <2>4. CASE thread = None
    <3>1. callerPc'[t] \in {"idle", "returned"}
      BY <1>0, <2>1, <2>4
    <3> QED
      BY <2>1, <2>2, <2>4, <3>1
  <2> QED
    BY <2>3, <2>4
<1>8. ASSUME NEW t \in Callers, Join(t)
      PROVE  Lifecycle'
  BY <1>0, <1>8 DEF Join, Goto, loopVars
<1>9. ASSUME NEW t \in Callers, ClearThread(t)
      PROVE  Lifecycle'
  BY <1>0, <1>9 DEF ClearThread, Goto, Leave, loopVars
<1>10. ASSUME NEW n \in Starts, LoopStep(n) \/ AcceptClosed(n) \/ AcceptFails(n)
       PROVE  Lifecycle'
  <2>1. /\ UNCHANGED <<sock, accepting, thread, sockets, callerPc, own, overdue>>
        /\ acceptorPc[n] \notin {"none", "ended", "failed", "crashed"}
        /\ \E next \in {"check", "load", "accept", "spawn", "ended", "failed", "crashed"} :
             acceptorPc' = [acceptorPc EXCEPT ![n] = next]
    BY <1>10, LoopEffect
  <2>2. /\ acceptorPc'[n] # "none"
        /\ \A k \in Starts \ {n} : acceptorPc'[k] = acceptorPc[k]
    BY <1>0, <2>1
  <2>3. \A k \in Starts : Done(k) => Done(k)'
    BY <2>1, <2>2
  <2>4. OneListens' /\ Accepting' /\ Closing'
    BY <2>1, <2>2
  <2>5. OneRuns'
    BY <2>1, <2>2, <2>3
  <2>6. Joining'
    BY <1>0, <2>1, <2>2, <2>3
  <2> QED
    BY <2>4, <2>5, <2>6
<1>11. ASSUME UNCHANGED <<fieldVars, sockets, callerVars, loopVars>>
       PROVE  Lifecycle'
  BY <1>11 DEF loopVars
<1>12. ASSUME NEW c \in Connections, Connect(c) \/ Serve(c) \/ Disconnect(c) \/ ServeRaises(c)
       PROVE  Lifecycle'
  BY <1>11, <1>12 DEF Connect, Serve, Disconnect, ServeRaises
<1>13. CASE ChangeFile \/ UNCHANGED vars
  BY <1>11, <1>13 DEF ChangeFile, vars
<1> HIDE DEF Lifecycle
<1> QED
  BY <1>1, <1>2, <1>3, <1>4, <1>5, <1>6, <1>7, <1>8, <1>9, <1>10, <1>12, <1>13
     DEF Next, StopStep

\* However the calls of stop run into each other and into the accept loop, once
\* they are over the server is up as a whole or down as a whole (server.py:33-81).
THEOREM WholeOrNothing == Spec => []UpOrDown
<1>1. Init => Lifecycle
  BY ServerAssumption DEF Init, Lifecycle, OneListens, Accepting, Closing, Joining,
     OneRuns, Callers, Starts, None
<1>2. Types /\ Lifecycle => UpOrDown
  <2> SUFFICES ASSUME Types, Lifecycle, \A t \in Callers : Resting(t)
               PROVE  \/ /\ accepting /\ sock # None /\ thread = sock
                         /\ \A n \in Starts : sockets[n] = "listening" <=> n = sock
                      \/ /\ ~accepting /\ sock = None /\ thread = None
                         /\ \A n \in Starts : /\ sockets[n] # "listening"
                                              /\ acceptorPc[n] = "none" \/ Done(n) \/ n \in overdue
    BY DEF UpOrDown
  <2>1. CASE accepting
    BY <2>1 DEF Lifecycle, OneListens, Accepting
  <2>2. CASE ~accepting
    <3>1. sock = None /\ thread = None
      BY <2>2 DEF Lifecycle, Closing, Joining, Resting
    <3>2. None \notin Starts
      BY DEF Starts, None
    <3> QED
      BY <2>2, <3>1, <3>2 DEF Lifecycle, OneListens, OneRuns
  <2> QED
    BY <2>1, <2>2
<1> QED
  BY <1>1, <1>2, LifecycleKept, TypesKept, PTL DEF Spec
=============================================================================
