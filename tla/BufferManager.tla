---------------------------- MODULE BufferManager ----------------------------
(***************************************************************************)
(* client/buffer/buffer_manager.py: the bounded buffer between the thread  *)
(* that downloads segments and the thread that plays them.                 *)
(*                                                                         *)
(* Every put and get runs under one lock, so a thread's moves are: enter   *)
(* the call, then one step for each stretch of code that holds the lock,   *)
(* from acquiring it (or being given it back by Condition.wait) to         *)
(* releasing it (by returning or by waiting again).  Both conditions share *)
(* the lock; the threads waiting on one are the threads of its side whose  *)
(* pc is "waiting", and notify picks any one of them, which is all that    *)
(* threading.Condition documents.  A wait with a timeout may give the lock *)
(* back at any time; a timed-out waiter that is notified before it has the *)
(* lock again is indistinguishable from a notified one.                    *)
(*                                                                         *)
(* Durations are whole units of time.  level, size, empty and snapshot     *)
(* only read under the lock and have no action.                            *)
(***************************************************************************)
EXTENDS Integers, Sequences, FiniteSets

CONSTANTS Producers,   \* threads that call put
          Consumers,   \* threads that call get
          Segments,    \* segments that may be buffered
          NoSegment,   \* "no argument": the thread is not inside put
          Duration,    \* duration of each segment
          MaxSeconds,  \* BufferManager(max_seconds)
          MaxDropped   \* bound on put calls with a timeout that expire

Threads == Producers \cup Consumers

ASSUME BufferAssumption ==
  /\ Producers \cap Consumers = {}
  /\ IsFiniteSet(Producers) /\ IsFiniteSet(Consumers)
  /\ NoSegment \notin Segments
  /\ Duration \in [Segments -> Nat \ {0}]
  /\ MaxSeconds \in Nat \ {0}
  /\ MaxDropped \in Nat

VARIABLES deque,    \* _deque, oldest segment first
          level,    \* _level, the seconds the buffer believes it holds
          dropped,  \* dropped, puts that gave up
          pc,       \* where each thread is
          offered,  \* the segment each producer is putting
          timed     \* whether the call a thread is in has a timeout

vars == <<deque, level, dropped, pc, offered, timed>>

TypeOK ==
  /\ deque \in Seq(Segments)
  /\ level \in 0..MaxSeconds
  /\ dropped \in Nat
  /\ pc \in [Threads -> {"idle", "calling", "waiting", "notified"}]
  /\ offered \in [Producers -> Segments \cup {NoSegment}]
  /\ timed \in [Threads -> BOOLEAN]
  /\ \A p \in Producers : pc[p] # "idle" => offered[p] \in Segments

Init ==
  /\ deque = << >>
  /\ level = 0
  /\ dropped = 0
  /\ pc = [t \in Threads |-> "idle"]
  /\ offered = [p \in Producers |-> NoSegment]
  /\ timed = [t \in Threads |-> FALSE]

-----------------------------------------------------------------------------
Waiters(S)  == {t \in S : pc[t] = "waiting"}
Notified(S) == {t \in S : pc[t] = "notified"}

\* A wait that may end without notify or timeout (a fault, for the mutants).
CanLockSpurious(t) == pc[t] # "idle"

\* t can take the lock: on entry, after a notify, or after its wait timed out.
CanLock(t) ==
  \/ pc[t] \in {"calling", "notified"}
  \/ pc[t] = "waiting" /\ timed[t]

\* Looks at the level only, not at the segment about to be added (a fault).
FitsBelow(p) == level < MaxSeconds

Fits(p) == level + Duration[offered[p]] <= MaxSeconds

\* A forgotten notify (a fault).
NotifyNobody(S, next) == pc' = next

\* Condition.notify(): one waiter of S, if there is one, stops waiting, while
\* the caller's own step leaves the program counters at next.
Notify(S, next) ==
  IF Waiters(S) = {}
  THEN pc' = next
  ELSE \E w \in Waiters(S) : pc' = [next EXCEPT ![w] = "notified"]

Leave(t) == [pc EXCEPT ![t] = "idle"]

-----------------------------------------------------------------------------
(* put *)

\* The deadline of a timed call is fixed on entry, before the lock is taken.
PutCall(p, s, withTimeout) ==
  /\ pc[p] = "idle"
  /\ withTimeout => dropped < MaxDropped
  /\ pc' = [pc EXCEPT ![p] = "calling"]
  /\ offered' = [offered EXCEPT ![p] = s]
  /\ timed' = [timed EXCEPT ![p] = withTimeout]
  /\ UNCHANGED <<deque, level, dropped>>

\* The segment fits: append it, add its duration, wake one consumer, return.
PutAdmit(p) ==
  /\ CanLock(p)
  /\ Fits(p)
  /\ deque' = Append(deque, offered[p])
  /\ level' = level + Duration[offered[p]]
  /\ Notify(Consumers, Leave(p))
  /\ offered' = [offered EXCEPT ![p] = NoSegment]
  /\ timed' = [timed EXCEPT ![p] = FALSE]
  /\ UNCHANGED dropped

\* The segment does not fit and time is left: wait on not_full.
PutWait(p) ==
  /\ pc[p] \in {"calling", "notified"}
  /\ ~Fits(p)
  /\ pc' = [pc EXCEPT ![p] = "waiting"]
  /\ UNCHANGED <<deque, level, dropped, offered, timed>>

\* The segment does not fit and the deadline has passed: return False.
PutExpire(p) ==
  /\ CanLock(p)
  /\ timed[p]
  /\ ~Fits(p)
  /\ dropped' = dropped + 1
  /\ pc' = Leave(p)
  /\ offered' = [offered EXCEPT ![p] = NoSegment]
  /\ timed' = [timed EXCEPT ![p] = FALSE]
  /\ UNCHANGED <<deque, level>>

-----------------------------------------------------------------------------
(* get *)

GetCall(c, withTimeout) ==
  /\ pc[c] = "idle"
  /\ pc' = [pc EXCEPT ![c] = "calling"]
  /\ timed' = [timed EXCEPT ![c] = withTimeout]
  /\ UNCHANGED <<deque, level, dropped, offered>>

\* The level is not lowered by what is taken (a fault).
LevelKept(s) == level

LevelAfter(s) == IF level - Duration[s] < 0 THEN 0 ELSE level - Duration[s]

\* Pops the newest segment (a fault).
DropNewest(q) == SubSeq(q, 1, Len(q) - 1)

PopLeft(q) == Tail(q)

\* Something is buffered: pop the oldest, lower the level (never below zero),
\* wake one producer, return the segment.
GetTake(c) ==
  /\ CanLock(c)
  /\ deque # << >>
  /\ deque' = PopLeft(deque)
  /\ level' = LevelAfter(Head(deque))
  /\ Notify(Producers, Leave(c))
  /\ timed' = [timed EXCEPT ![c] = FALSE]
  /\ UNCHANGED <<dropped, offered>>

\* Nothing is buffered on entry: wait on not_empty.  There is no loop here: a
\* get waits once.
GetWait(c) ==
  /\ pc[c] = "calling"
  /\ deque = << >>
  /\ pc' = [pc EXCEPT ![c] = "waiting"]
  /\ UNCHANGED <<deque, level, dropped, offered, timed>>

\* Nothing is buffered after the wait, however it ended: return None.
GetNone(c) ==
  /\ CanLock(c)
  /\ pc[c] # "calling"
  /\ deque = << >>
  /\ pc' = Leave(c)
  /\ timed' = [timed EXCEPT ![c] = FALSE]
  /\ UNCHANGED <<deque, level, dropped, offered>>

-----------------------------------------------------------------------------
ProducerRuns(p) == PutAdmit(p) \/ PutWait(p) \/ PutExpire(p)
ConsumerRuns(c) == GetTake(c) \/ GetWait(c) \/ GetNone(c)

Next ==
  \/ \E p \in Producers :
       \/ \E s \in Segments, withTimeout \in BOOLEAN : PutCall(p, s, withTimeout)
       \/ PutAdmit(p)
       \/ PutWait(p)
       \/ PutExpire(p)
  \/ \E c \in Consumers :
       \/ \E withTimeout \in BOOLEAN : GetCall(c, withTimeout)
       \/ GetTake(c)
       \/ GetWait(c)
       \/ GetNone(c)

Spec == Init /\ [][Next]_vars

\* A thread that can take the lock eventually does, and the consumer keeps
\* polling, as the playback thread's loops do.  Nobody has to call put.
FairSpec ==
  /\ Spec
  /\ \A p \in Producers : WF_vars(ProducerRuns(p))
  /\ \A c \in Consumers : /\ WF_vars(ConsumerRuns(c))
                          /\ WF_vars(\E withTimeout \in BOOLEAN :
                                       GetCall(c, withTimeout))

-----------------------------------------------------------------------------
(* Properties *)

Fifo == INSTANCE BoundedFifo WITH queue <- deque

\* The buffer is a bounded FIFO: every step of its threads is a Put, a Get or
\* no step at all of BoundedFifo, whose bound is on what the deque really
\* holds.  put admits a segment against the cached _level, so this fails if
\* the level ever falls below the contents, or if segments are reordered
\* (buffer_manager.py:53, 61-64, 74-79).
ImplementsFifo == Fifo!Spec

\* B(t), the number every ABR rule and every put is decided by, is the sum of
\* the durations in the deque: the two are updated apart and the level is
\* clamped at zero, so a wrong update would go unseen (buffer_manager.py:62, 75-77).
LevelIsSum == Fifo!HasTotal(deque, level)

\* No wakeup is lost on the consumer side: while a get waits for a notify, at
\* least as many of the other gets are already notified as there are segments
\* in the deque.  put notifies one waiter only, a get that is just entering or
\* has timed out may take the segment first, and a get waits once
\* (buffer_manager.py:63, 70-73).
NoLostWakeup ==
  Waiters(Consumers) # {} => Cardinality(Notified(Consumers)) >= Len(deque)

\* No space is missed on the producer side: a put left waiting would not fit
\* even with nothing buffered since, and this stays so after every producer
\* already notified has been admitted.  It needs a single producer, or segments
\* of one duration: get notifies one producer, whatever the size of the segment
\* that producer offers (buffer_manager.py:53-60, 78).
NoMissedSpace ==
  \A p \in Waiters(Producers) :
    level + Duration[offered[p]] * (Cardinality(Notified(Producers)) + 1)
      > MaxSeconds

\* get "blocks while the buffer is empty" and returns None "on timeout"
\* (buffer_manager.py:11, 68): a get without a timeout never returns without
\* a segment.
UntimedReturnsSegment ==
  \A c \in Consumers :
    pc[c] # "idle" /\ pc'[c] = "idle" /\ ~timed[c] => deque # << >>

UntimedGetBlocks == [][UntimedReturnsSegment]_vars

\* The two sides never wait for each other: when every thread waits and none
\* of them has a timeout, some put offers a segment longer than the whole
\* buffer (the one case put and get cannot resolve; buffer_manager.py:53-60,
\* 70-73).
NoStandoff ==
  (\A t \in Threads : pc[t] = "waiting" /\ ~timed[t]) =>
     \E p \in Producers : Duration[offered[p]] > MaxSeconds

\* A put that waits returns, provided its segment fits an empty buffer or it
\* has a timeout, while the consumer keeps calling get: run_session puts
\* without a timeout, so a notify that misses would hang the session
\* (buffer_manager.py:53-64, 78; client/client.py:145).
BlockedPutReturns ==
  \A p \in Producers :
    (/\ pc[p] = "waiting"
     /\ timed[p] \/ Duration[offered[p]] <= MaxSeconds) ~> (pc[p] = "idle")
=============================================================================
