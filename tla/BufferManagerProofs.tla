------------------------- MODULE BufferManagerProofs -------------------------
(***************************************************************************)
(* Theorems about BufferManager, for every number of threads, every        *)
(* segment duration and every capacity.                                    *)
(***************************************************************************)
EXTENDS BufferManager, FiniteSetTheorems, SequenceTheorems, TLAPS

\* Adding a segment at the end of a queue adds its duration to the total.
LEMMA TotalOfAppend ==
  ASSUME NEW q \in Seq(Segments), NEW n \in Nat, NEW s \in Segments,
         Fifo!HasTotal(q, n)
  PROVE  Fifo!HasTotal(Append(q, s), n + Duration[s])
<1>1. Duration[s] \in Nat /\ Len(q) \in Nat
  BY BufferAssumption
<1>2. PICK f \in [0..Len(q) -> 0..n] :
        /\ f[0] = 0
        /\ \A i \in 1..Len(q) : f[i] = f[i-1] + Duration[q[i]]
        /\ \A i, j \in 0..Len(q) : i <= j => f[i] <= f[j]
        /\ f[Len(q)] = n
  BY DEF Fifo!HasTotal
<1> DEFINE m == n + Duration[s]
           r == Append(q, s)
           g == [i \in 0..Len(r) |-> IF i <= Len(q) THEN f[i] ELSE m]
<1>3. /\ Len(r) = Len(q) + 1
      /\ \A i \in 1..Len(q) : r[i] = q[i]
      /\ r[Len(r)] = s
  BY AppendProperties
<1>4. m \in Nat /\ n <= m
  BY <1>1
<1>5. \A i \in 0..Len(q) : f[i] \in 0..n /\ g[i] = f[i]
  <2> HIDE DEF r, m
  <2> SUFFICES ASSUME NEW i \in 0..Len(q)
               PROVE  f[i] \in 0..n /\ g[i] = f[i]
    OBVIOUS
  <2>1. f[i] \in 0..n
    BY <1>2
  <2>2. i \in 0..Len(r) /\ i <= Len(q)
    BY <1>1, <1>3
  <2> QED
    BY <2>1, <2>2
<1>6. g[Len(r)] = m
  <2> HIDE DEF r, m
  <2>1. Len(r) \in 0..Len(r) /\ ~(Len(r) <= Len(q))
    BY <1>1, <1>3
  <2> QED
    BY <2>1
<1> HIDE DEF g, r, m
<1>7. g \in [0..Len(r) -> 0..m]
  BY <1>1, <1>3, <1>4, <1>5, <1>6 DEF g
<1>8. g[0] = 0
  <2>1. 0 \in 0..Len(q)
    BY <1>1
  <2> QED
    BY <2>1, <1>2, <1>5
<1>9. \A i \in 1..Len(r) : g[i] = g[i-1] + Duration[r[i]]
  <2> SUFFICES ASSUME NEW i \in 1..Len(r)
               PROVE  g[i] = g[i-1] + Duration[r[i]]
    OBVIOUS
  <2>1. CASE i <= Len(q)
    <3>1. i \in 1..Len(q) /\ i \in 0..Len(q) /\ i - 1 \in 0..Len(q)
      BY <2>1, <1>1
    <3>2. r[i] = q[i] /\ g[i] = f[i] /\ g[i-1] = f[i-1]
      BY <3>1, <1>3, <1>5
    <3>3. f[i] = f[i-1] + Duration[q[i]]
      BY <3>1, <1>2
    <3> QED
      BY <3>2, <3>3
  <2>2. CASE i > Len(q)
    <3>1. i = Len(r) /\ i - 1 = Len(q)
      BY <2>2, <1>1, <1>3
    <3>2. g[i-1] = n
      <4>1. Len(q) \in 0..Len(q)
        BY <1>1
      <4>2. g[Len(q)] = f[Len(q)]
        BY <4>1, <1>5
      <4> QED
        BY <4>2, <3>1, <1>2
    <3> QED
      BY <3>1, <3>2, <1>3, <1>6 DEF m
  <2> QED
    BY <2>1, <2>2, <1>1, <1>3
<1>10. \A i, j \in 0..Len(r) : i <= j => g[i] <= g[j]
  <2> SUFFICES ASSUME NEW i \in 0..Len(r), NEW j \in 0..Len(r), i <= j
               PROVE  g[i] <= g[j]
    OBVIOUS
  <2>1. CASE j <= Len(q)
    <3>1. i \in 0..Len(q) /\ j \in 0..Len(q)
      BY <2>1, <1>1
    <3> QED
      BY <3>1, <1>2, <1>5
  <2>2. CASE j > Len(q)
    <3>1. j = Len(r)
      BY <2>2, <1>1, <1>3
    <3> QED
      BY <3>1, <1>4, <1>6, <1>7
  <2> QED
    BY <2>1, <2>2, <1>1, <1>3
<1> QED
  BY <1>6, <1>7, <1>8, <1>9, <1>10 DEF Fifo!HasTotal, m, r

\* Taking the first segment off a queue takes its duration off the total,
\* which is at least that duration.
LEMMA TotalOfTail ==
  ASSUME NEW q \in Seq(Segments), NEW n \in Nat, q # << >>,
         Fifo!HasTotal(q, n)
  PROVE  /\ Duration[Head(q)] \in Nat
         /\ Duration[Head(q)] <= n
         /\ Fifo!HasTotal(Tail(q), n - Duration[Head(q)])
<1>1. PICK f \in [0..Len(q) -> 0..n] :
        /\ f[0] = 0
        /\ \A i \in 1..Len(q) : f[i] = f[i-1] + Duration[q[i]]
        /\ \A i, j \in 0..Len(q) : i <= j => f[i] <= f[j]
        /\ f[Len(q)] = n
  BY DEF Fifo!HasTotal
<1> DEFINE d == Duration[Head(q)]
           r == Tail(q)
           g == [i \in 0..Len(r) |-> f[i+1] - d]
<1>2. /\ Len(q) \in Nat \ {0}
      /\ Len(r) = Len(q) - 1
      /\ \A i \in 1..Len(r) : r[i] = q[i+1]
      /\ Head(q) = q[1] /\ Head(q) \in Segments
  BY HeadTailProperties, EmptySeq, LenProperties
<1>3. d \in Nat
  BY <1>2, BufferAssumption
<1>4. f[1] = d
  BY <1>1, <1>2, <1>3
<1>5. \A i \in 0..Len(r) : f[i+1] \in Nat /\ d <= f[i+1] /\ f[i+1] <= n
  BY <1>1, <1>2, <1>4
<1>6. d <= n
  BY <1>5, <1>2, <1>4
<1>7. g \in [0..Len(r) -> 0..(n - d)]
  BY <1>3, <1>5, <1>6
<1>8. g[0] = 0 /\ g[Len(r)] = n - d
  BY <1>1, <1>2, <1>3, <1>4
<1>9. \A i \in 1..Len(r) : g[i] = g[i-1] + Duration[r[i]]
  <2> SUFFICES ASSUME NEW i \in 1..Len(r)
               PROVE  g[i] = g[i-1] + Duration[r[i]]
    OBVIOUS
  <2>1. i + 1 \in 1..Len(q) /\ i - 1 \in 0..Len(r) /\ i \in 0..Len(r)
    BY <1>2
  <2>2. f[i+1] = f[i] + Duration[q[i+1]]
    BY <2>1, <1>1, <1>2
  <2>3. q[i+1] \in Segments /\ Duration[q[i+1]] \in Nat /\ f[i] \in Nat
    BY <2>1, <1>1, <1>2, ElementOfSeq, BufferAssumption
  <2>4. g[i] = f[i+1] - d /\ g[i-1] = f[i] - d
    BY <2>1, <1>2
  <2> QED
    BY <2>2, <2>3, <2>4, <1>2, <1>3
<1>10. \A i, j \in 0..Len(r) : i <= j => g[i] <= g[j]
  BY <1>1, <1>2, <1>3, <1>5
<1>11. Fifo!HasTotal(r, n - d)
  <2> HIDE DEF g
  <2> QED
    BY <1>7, <1>8, <1>9, <1>10 DEF Fifo!HasTotal
<1> QED
  BY <1>3, <1>6, <1>11
-----------------------------------------------------------------------------
PC == {"idle", "calling", "waiting", "notified"}

\* notify changes the program counter of at most one thread of the side it
\* wakes, from "waiting" to "notified".
LEMMA NotifyEffect ==
  ASSUME NEW S \in SUBSET Threads, NEW next \in [Threads -> PC],
         Notify(S, next)
  PROVE  /\ pc' \in [Threads -> PC]
         /\ \A t \in Threads \ S : pc'[t] = next[t]
  BY DEF Notify, Waiters, PC

\* Every state is type correct; in particular the level never leaves
\* 0..MaxSeconds, whatever the threads do.
THEOREM TypeCorrect == Spec => []TypeOK
<1>1. Init => TypeOK
  <2>1. << >> \in Seq(Segments) /\ 0 \in 0..MaxSeconds
    BY BufferAssumption, EmptySeq
  <2> QED
    BY <2>1 DEF Init, TypeOK, Threads
<1>2. TypeOK /\ [Next]_vars => TypeOK'
  <2> SUFFICES ASSUME TypeOK, [Next]_vars PROVE TypeOK'
    OBVIOUS
  <2> USE DEF TypeOK
  <2>0. /\ Producers \subseteq Threads /\ Consumers \subseteq Threads
        /\ Producers \cap Consumers = {}
    BY BufferAssumption DEF Threads
  <2>1. ASSUME NEW p \in Producers, NEW s \in Segments, NEW b \in BOOLEAN,
               PutCall(p, s, b)
        PROVE  TypeOK'
    BY <2>0, <2>1 DEF PutCall
  <2>2. ASSUME NEW p \in Producers, PutAdmit(p) PROVE TypeOK'
    <3>1. Leave(p) \in [Threads -> PC]
      BY <2>0 DEF Leave, PC
    <3>2. pc' \in [Threads -> PC] /\ \A q \in Producers : pc'[q] = Leave(p)[q]
      BY <2>0, <2>2, <3>1, NotifyEffect DEF PutAdmit
    <3>3. offered[p] \in Segments /\ Duration[offered[p]] \in Nat
      BY <2>0, <2>2, BufferAssumption DEF PutAdmit, CanLock
    <3>4. deque' \in Seq(Segments)
      BY <2>2, <3>3, AppendProperties DEF PutAdmit
    <3>5. level' \in 0..MaxSeconds
      BY <2>2, <3>3, BufferAssumption DEF PutAdmit, Fits
    <3>6. /\ dropped' \in Nat
          /\ offered' \in [Producers -> Segments \cup {NoSegment}]
          /\ timed' \in [Threads -> BOOLEAN]
      BY <2>0, <2>2 DEF PutAdmit
    <3>7. \A q \in Producers : pc'[q] # "idle" => offered'[q] \in Segments
      BY <2>0, <2>2, <3>2 DEF PutAdmit, Leave
    <3> QED
      BY <3>2, <3>4, <3>5, <3>6, <3>7 DEF PC
  <2>3. ASSUME NEW p \in Producers, PutWait(p) PROVE TypeOK'
    BY <2>0, <2>3 DEF PutWait
  <2>4. ASSUME NEW p \in Producers, PutExpire(p) PROVE TypeOK'
    BY <2>0, <2>4 DEF PutExpire, Leave
  <2>5. ASSUME NEW c \in Consumers, NEW b \in BOOLEAN, GetCall(c, b)
        PROVE  TypeOK'
    BY <2>0, <2>5 DEF GetCall
  <2>6. ASSUME NEW c \in Consumers, GetTake(c) PROVE TypeOK'
    <3>1. Leave(c) \in [Threads -> PC]
      BY <2>0 DEF Leave, PC
    <3>2. pc' \in [Threads -> PC]
      BY <2>0, <2>6, <3>1, NotifyEffect DEF GetTake
    <3>3. \A p \in Producers : pc'[p] # "idle" => pc[p] # "idle"
      BY <2>0, <2>6 DEF GetTake, Notify, Waiters, Leave
    <3>4. Tail(deque) \in Seq(Segments) /\ Head(deque) \in Segments
      BY <2>6, HeadTailProperties DEF GetTake
    <3>5. LevelAfter(Head(deque)) \in 0..MaxSeconds
      BY <3>4, BufferAssumption DEF LevelAfter
    <3>6. timed' \in [Threads -> BOOLEAN]
      BY <2>0, <2>6 DEF GetTake
    <3> QED
      BY <2>6, <3>2, <3>3, <3>4, <3>5, <3>6 DEF GetTake, PopLeft, PC
  <2>7. ASSUME NEW c \in Consumers, GetWait(c) PROVE TypeOK'
    BY <2>0, <2>7 DEF GetWait
  <2>8. ASSUME NEW c \in Consumers, GetNone(c) PROVE TypeOK'
    BY <2>0, <2>8 DEF GetNone, Leave
  <2>9. CASE UNCHANGED vars
    BY <2>9 DEF vars
  <2> QED
    BY <2>1, <2>2, <2>3, <2>4, <2>5, <2>6, <2>7, <2>8, <2>9 DEF Next
<1> QED
  BY <1>1, <1>2, PTL DEF Spec

-----------------------------------------------------------------------------
\* B(t) is always the total of the segments in the deque, so the clamp at zero
\* in get never applies.
THEOREM LevelCorrect == Spec => []LevelIsSum
<1>1. Init => LevelIsSum
  <2> SUFFICES ASSUME Init PROVE Fifo!HasTotal(<< >>, 0)
    BY DEF Init, LevelIsSum
  <2> DEFINE f == [i \in 0..0 |-> 0]
  <2>1. /\ f \in [0..Len(<< >>) -> 0..0]
        /\ f[0] = 0
        /\ \A i \in 1..Len(<< >>) : f[i] = f[i-1] + Duration[<< >>[i]]
        /\ \A i, j \in 0..Len(<< >>) : i <= j => f[i] <= f[j]
        /\ f[Len(<< >>)] = 0
    OBVIOUS
  <2> HIDE DEF f
  <2> QED
    BY <2>1 DEF Fifo!HasTotal
<1>2. TypeOK /\ LevelIsSum /\ [Next]_vars => LevelIsSum'
  <2> SUFFICES ASSUME TypeOK, LevelIsSum, [Next]_vars
               PROVE  Fifo!HasTotal(deque', level')
    BY DEF LevelIsSum, Fifo!HasTotal
  <2>1. Fifo!HasTotal(deque, level) /\ deque \in Seq(Segments) /\ level \in Nat
    BY DEF LevelIsSum, TypeOK
  <2>2. ASSUME NEW p \in Producers, PutAdmit(p)
        PROVE  Fifo!HasTotal(deque', level')
    BY <2>1, <2>2, TotalOfAppend DEF PutAdmit, CanLock, TypeOK
  <2>3. ASSUME NEW c \in Consumers, GetTake(c)
        PROVE  Fifo!HasTotal(deque', level')
    <3> DEFINE d == Duration[Head(deque)]
    <3>1. d \in Nat /\ d <= level /\ Fifo!HasTotal(Tail(deque), level - d)
      BY <2>1, <2>3, TotalOfTail DEF GetTake
    <3>2. level' = level - d
      BY <2>1, <2>3, <3>1 DEF GetTake, LevelAfter
    <3> QED
      BY <2>3, <3>1, <3>2 DEF GetTake, PopLeft
  <2>4. CASE UNCHANGED <<deque, level>>
    BY <2>1, <2>4
  <2> QED
    BY <2>2, <2>3, <2>4
    DEF Next, vars, PutCall, PutWait, PutExpire, GetCall, GetWait, GetNone
<1> QED
  BY <1>1, <1>2, TypeCorrect, PTL DEF Spec

\* The locks, waits and notifies implement the bounded first-in first-out queue.
THEOREM FifoImplemented == Spec => ImplementsFifo
<1>1. Init => Fifo!Init
  BY DEF Init, Fifo!Init
<1>2. TypeOK /\ LevelIsSum /\ [Next]_vars => [Fifo!Next]_deque
  <2> SUFFICES ASSUME TypeOK, LevelIsSum, [Next]_vars
               PROVE  [Fifo!Next]_deque
    OBVIOUS
  <2>1. ASSUME NEW p \in Producers, PutAdmit(p) PROVE Fifo!Next
    <3>1. offered[p] \in Segments
      BY <2>1 DEF PutAdmit, CanLock, TypeOK
    <3>2. Fifo!Put(offered[p])
      BY <2>1 DEF Fifo!Put, PutAdmit, Fits, LevelIsSum, TypeOK
    <3> QED
      BY <3>1, <3>2 DEF Fifo!Next
  <2>2. ASSUME NEW c \in Consumers, GetTake(c) PROVE Fifo!Next
    BY <2>2 DEF GetTake, PopLeft, Fifo!Get, Fifo!Next
  <2>3. CASE UNCHANGED deque
    BY <2>3
  <2> QED
    BY <2>1, <2>2, <2>3
    DEF Next, vars, PutCall, PutWait, PutExpire, GetCall, GetWait, GetNone
<1> QED
  BY <1>1, <1>2, TypeCorrect, LevelCorrect, PTL
  DEF Spec, ImplementsFifo, Fifo!Spec

-----------------------------------------------------------------------------
\* A notify that finds a waiter adds one thread to the notified ones.
LEMMA NotifyCounts ==
  ASSUME NEW S \in SUBSET Threads, IsFiniteSet(S), NEW next \in [Threads -> PC],
         \A t \in S : next[t] = pc[t],
         pc \in [Threads -> PC], Notify(S, next)
  PROVE  /\ Waiters(S)' \subseteq Waiters(S)
         /\ Cardinality(Notified(S)) \in Nat
         /\ \/ /\ Waiters(S)' = {}
               /\ Cardinality(Notified(S)') \in Nat
            \/ Cardinality(Notified(S)') = Cardinality(Notified(S)) + 1
<1>1. IsFiniteSet(Notified(S)) /\ IsFiniteSet(Notified(S)')
  BY FS_Subset DEF Notified
<1>2. Cardinality(Notified(S)) \in Nat /\ Cardinality(Notified(S)') \in Nat
  BY <1>1, FS_CardinalityType
<1>3. CASE Waiters(S) = {} /\ pc' = next
  BY <1>2, <1>3 DEF Waiters
<1>4. CASE \E w \in Waiters(S) : pc' = [next EXCEPT ![w] = "notified"]
  <2>1. PICK w \in Waiters(S) : pc' = [next EXCEPT ![w] = "notified"]
    BY <1>4
  <2>2. w \in S /\ pc[w] = "waiting" /\ pc'[w] = "notified"
    BY <2>1 DEF Waiters
  <2>3. \A t \in S \ {w} : pc'[t] = pc[t]
    BY <2>1, <2>2
  <2>4. Notified(S)' = Notified(S) \cup {w} /\ w \notin Notified(S)
    BY <2>2, <2>3 DEF Notified
  <2>5. Waiters(S)' \subseteq Waiters(S)
    BY <2>2, <2>3 DEF Waiters
  <2> QED
    BY <1>1, <1>2, <2>4, <2>5, FS_AddElement
<1> QED
  BY <1>3, <1>4 DEF Notify

\* A step of t that moves no other thread of S lowers the number of notified
\* threads of S by one at most, and only when t was one of them.
LEMMA LeaveCounts ==
  ASSUME NEW S \in SUBSET Threads, IsFiniteSet(S), NEW t \in Threads,
         pc \in [Threads -> PC], pc' \in [Threads -> PC],
         \A u \in S \ {t} : pc'[u] = pc[u], pc'[t] # "notified"
  PROVE  /\ Cardinality(Notified(S)) \in Nat
         /\ Cardinality(Notified(S)') \in Nat
         /\ \/ /\ t \in S /\ pc[t] = "notified"
               /\ Cardinality(Notified(S)') = Cardinality(Notified(S)) - 1
            \/ /\ ~(t \in S /\ pc[t] = "notified")
               /\ Cardinality(Notified(S)') = Cardinality(Notified(S))
<1>1. IsFiniteSet(Notified(S)) /\ IsFiniteSet(Notified(S)')
  BY FS_Subset DEF Notified
<1>2. Cardinality(Notified(S)) \in Nat /\ Cardinality(Notified(S)') \in Nat
  BY <1>1, FS_CardinalityType
<1>3. Notified(S)' = Notified(S) \ {t}
  BY DEF Notified
<1>4. CASE t \in S /\ pc[t] = "notified"
  BY <1>1, <1>2, <1>3, <1>4, FS_RemoveElement DEF Notified
<1>5. CASE ~(t \in S /\ pc[t] = "notified")
  <2>1. Notified(S)' = Notified(S)
    BY <1>3, <1>5 DEF Notified
  <2> QED
    BY <1>2, <1>5, <2>1
<1> QED
  BY <1>4, <1>5

\* However many gets wait, none of them is left asleep while a segment is there
\* that no notified get is coming for.
THEOREM NoWakeupLost == Spec => []NoLostWakeup
<1>1. Init => NoLostWakeup
  BY DEF Init, NoLostWakeup, Waiters, Threads
<1>2. TypeOK /\ NoLostWakeup /\ [Next]_vars => NoLostWakeup'
  <2> SUFFICES ASSUME TypeOK, NoLostWakeup, [Next]_vars, Waiters(Consumers)' # {}
               PROVE  Cardinality(Notified(Consumers)') >= Len(deque')
    BY DEF NoLostWakeup
  <2>0. /\ Producers \subseteq Threads /\ Consumers \subseteq Threads
        /\ Producers \cap Consumers = {} /\ IsFiniteSet(Consumers)
        /\ pc \in [Threads -> PC] /\ Len(deque) \in Nat
        /\ deque \in Seq(Segments)
    BY BufferAssumption, LenProperties DEF Threads, TypeOK, PC
  <2>1. Cardinality(Notified(Consumers)) \in Nat
    BY <2>0, FS_Subset, FS_CardinalityType DEF Notified
  <2>2. ASSUME NEW p \in Producers, PutAdmit(p)
        PROVE  Cardinality(Notified(Consumers)') >= Len(deque')
    <3>1. /\ Leave(p) \in [Threads -> PC]
          /\ \A c \in Consumers : Leave(p)[c] = pc[c]
      BY <2>0 DEF Leave, PC
    <3>2. /\ Waiters(Consumers) # {}
          /\ Cardinality(Notified(Consumers)') = Cardinality(Notified(Consumers)) + 1
      BY <2>0, <2>2, <3>1, NotifyCounts DEF PutAdmit
    <3>3. offered[p] \in Segments
      BY <2>2 DEF PutAdmit, CanLock, TypeOK
    <3>4. Len(deque') = Len(deque) + 1
      BY <2>0, <2>2, <3>3, AppendProperties DEF PutAdmit
    <3> QED
      BY <2>0, <2>1, <3>2, <3>4 DEF NoLostWakeup
  <2>3. ASSUME NEW c \in Consumers, GetTake(c)
        PROVE  Cardinality(Notified(Consumers)') >= Len(deque')
    <3>1. Leave(c) \in [Threads -> PC]
      BY <2>0 DEF Leave, PC
    <3>2. pc' \in [Threads -> PC] /\ \A u \in Consumers : pc'[u] = Leave(c)[u]
      BY <2>0, <2>3, <3>1, NotifyEffect DEF GetTake
    <3>3. pc'[c] = "idle" /\ \A u \in Consumers \ {c} : pc'[u] = pc[u]
      BY <2>0, <3>2 DEF Leave
    <3>4. /\ Cardinality(Notified(Consumers)') \in Nat
          /\ Cardinality(Notified(Consumers)') >= Cardinality(Notified(Consumers)) - 1
      BY <2>0, <2>1, <3>2, <3>3, LeaveCounts
    <3>5. Waiters(Consumers) # {}
      BY <2>0, <3>3 DEF Waiters
    <3>6. Len(deque') = Len(deque) - 1
      BY <2>0, <2>3, HeadTailProperties DEF GetTake, PopLeft
    <3> QED
      BY <2>0, <2>1, <3>4, <3>5, <3>6 DEF NoLostWakeup
  <2>4. ASSUME NEW c \in Consumers, GetWait(c) \/ GetNone(c)
        PROVE  Cardinality(Notified(Consumers)') >= Len(deque')
    <3>1. Len(deque') = 0
      BY <2>4 DEF GetWait, GetNone
    <3>2. Cardinality(Notified(Consumers)') \in Nat
      BY <2>0, FS_Subset, FS_CardinalityType DEF Notified
    <3> QED
      BY <3>1, <3>2
  <2>5. CASE /\ deque' = deque
             /\ Waiters(Consumers)' = Waiters(Consumers)
             /\ Notified(Consumers)' = Notified(Consumers)
    BY <2>5 DEF NoLostWakeup
  <2>6. ASSUME NEW p \in Producers,
               \/ PutWait(p) \/ PutExpire(p)
               \/ \E s \in Segments, b \in BOOLEAN : PutCall(p, s, b)
        PROVE  Cardinality(Notified(Consumers)') >= Len(deque')
    <3>1. deque' = deque /\ \A c \in Consumers : pc'[c] = pc[c]
      BY <2>0, <2>6 DEF PutCall, PutWait, PutExpire, Leave
    <3> QED
      BY <2>5, <3>1 DEF Waiters, Notified
  <2>7. ASSUME NEW c \in Consumers, NEW b \in BOOLEAN, GetCall(c, b)
        PROVE  Cardinality(Notified(Consumers)') >= Len(deque')
    BY <2>0, <2>5, <2>7 DEF GetCall, Waiters, Notified
  <2>8. CASE UNCHANGED vars
    BY <2>5, <2>8 DEF vars, Waiters, Notified
  <2>9. CASE Next
    BY <2>2, <2>3, <2>4, <2>6, <2>7, <2>9 DEF Next
  <2> QED
    BY <2>8, <2>9
<1> QED
  BY <1>1, <1>2, TypeCorrect, PTL DEF Spec

-----------------------------------------------------------------------------
OneDuration == \A s, t \in Segments : Duration[s] = Duration[t]

OneProducer == \E p \in Producers : Producers = {p}

\* Room for k+1 more segments, once k of them have been added or taken.
LEMMA RoomArithmetic ==
  ASSUME NEW d \in Nat, NEW k \in Nat
  PROVE  /\ d * (k + 1) = d * k + d
         /\ d * (k + 1) \in Nat /\ d * k \in Nat
         /\ d * (k + 1) >= d
         /\ d * ((k + 1) + 1) = d * (k + 1) + d
  OBVIOUS

\* With segments of one duration, as the segments of a video are, no put is
\* left asleep while there is room that no notified put is coming for
\* (buffer_manager.py:53-64, 78).
LEMMA SpaceOfOneDuration == OneDuration => (Spec => []NoMissedSpace)
<1> SUFFICES ASSUME OneDuration PROVE Spec => []NoMissedSpace
  OBVIOUS
<1>1. Init => NoMissedSpace
  BY DEF Init, NoMissedSpace, Waiters, Threads
<1>2. TypeOK /\ NoMissedSpace /\ [Next]_vars => NoMissedSpace'
  <2> DEFINE k == Cardinality(Notified(Producers))
  <2> SUFFICES ASSUME TypeOK, NoMissedSpace, [Next]_vars,
                      NEW p \in Waiters(Producers)'
               PROVE  level' + Duration[offered'[p]] * (k' + 1) > MaxSeconds
    BY DEF NoMissedSpace
  <2> DEFINE d == Duration[offered'[p]]
             Goal == level' + d * (k' + 1) > MaxSeconds
  <2>0. /\ Producers \subseteq Threads /\ Consumers \subseteq Threads
        /\ Producers \cap Consumers = {} /\ IsFiniteSet(Producers)
        /\ pc \in [Threads -> PC] /\ level \in Nat /\ MaxSeconds \in Nat
        /\ p \in Producers /\ pc'[p] = "waiting"
    BY BufferAssumption DEF Threads, TypeOK, PC, Waiters
  <2>1. k \in Nat /\ k' \in Nat
    BY <2>0, FS_Subset, FS_CardinalityType DEF Notified
  <2>2. \A q \in Producers : pc[q] # "idle" =>
          Duration[offered[q]] \in Nat /\ offered[q] \in Segments
    BY BufferAssumption DEF TypeOK
  <2>3. p \in Waiters(Producers) =>
          level + Duration[offered[p]] * (k + 1) > MaxSeconds
    BY DEF NoMissedSpace
  <2> HIDE DEF k, Goal
  <2>4. ASSUME NEW q \in Producers, PutAdmit(q) PROVE Goal
    <3>1. /\ Leave(q) \in [Threads -> PC]
          /\ pc' \in [Threads -> PC]
          /\ \A u \in Producers : pc'[u] = Leave(q)[u]
      <4>1. Leave(q) \in [Threads -> PC]
        BY <2>0 DEF Leave, PC
      <4> QED
        BY <2>0, <2>4, <4>1, NotifyEffect DEF PutAdmit
    <3>2. pc'[q] = "idle" /\ \A u \in Producers \ {q} : pc'[u] = pc[u]
      BY <2>0, <3>1 DEF Leave
    <3>3. p # q /\ pc[p] = "waiting" /\ p \in Waiters(Producers)
      BY <2>0, <3>2 DEF Waiters
    <3>4. offered'[p] = offered[p]
      BY <2>0, <2>4, <3>3 DEF PutAdmit, TypeOK
    <3>5. d \in Nat /\ Duration[offered[q]] = d
      BY <2>0, <2>2, <2>4, <3>3, <3>4 DEF OneDuration, PutAdmit, CanLock
    <3>6. level' = level + d
      BY <2>4, <3>5 DEF PutAdmit
    <3>7. k' = k \/ k' = k - 1
      BY <2>0, <3>1, <3>2, LeaveCounts DEF k
    <3>8. level + d * (k + 1) > MaxSeconds
      BY <2>3, <3>3, <3>4
    <3>9. CASE k' = k
      BY <3>9, <2>0, <2>1, <3>5, <3>6, <3>8, RoomArithmetic DEF Goal
    <3>10. CASE k' = k - 1
      <4>1. k = k' + 1
        BY <2>1, <3>10
      <4>2. d * (k + 1) = d * (k' + 1) + d /\ d * (k' + 1) \in Nat
        BY <4>1, <2>1, <3>5, RoomArithmetic
      <4> QED
        BY <4>2, <2>0, <3>5, <3>6, <3>8 DEF Goal
    <3> QED
      BY <3>7, <3>9, <3>10
  <2>5. ASSUME NEW q \in Producers, PutWait(q) \/ PutExpire(q) PROVE Goal
    <3>1. /\ pc[q] # "idle" /\ ~Fits(q) /\ level' = level
          /\ p = q \/ pc[p] = "waiting"
      BY <2>0, <2>5 DEF PutWait, PutExpire, CanLock, Leave
    <3>2. offered'[p] = offered[p]
      BY <2>0, <2>5 DEF PutWait, PutExpire, Leave, TypeOK
    <3>3. d \in Nat /\ Duration[offered[q]] = d
      BY <2>0, <2>2, <3>1, <3>2 DEF OneDuration
    <3>4. level + d > MaxSeconds
      BY <2>0, <3>1, <3>3 DEF Fits
    <3> QED
      BY <2>0, <2>1, <3>1, <3>3, <3>4, RoomArithmetic DEF Goal
  <2>6. ASSUME NEW c \in Consumers, GetTake(c) PROVE Goal
    <3>1. /\ Leave(c) \in [Threads -> PC]
          /\ \A u \in Producers : Leave(c)[u] = pc[u]
      BY <2>0 DEF Leave, PC
    <3>2. p \in Waiters(Producers) /\ k' = k + 1
      BY <2>0, <2>6, <3>1, NotifyCounts DEF GetTake, k
    <3>3. offered'[p] = offered[p] /\ d \in Nat
      BY <2>0, <2>2, <2>6, <3>2 DEF GetTake, Waiters
    <3>4. Head(deque) \in Segments /\ Duration[Head(deque)] = d
      BY <2>0, <2>2, <2>6, <3>2, <3>3, HeadTailProperties
      DEF GetTake, OneDuration, TypeOK, Waiters
    <3>5. level' \in Nat /\ level' + d >= level
      BY <2>0, <2>6, <3>3, <3>4 DEF GetTake, LevelAfter
    <3>6. level + d * (k + 1) > MaxSeconds
      BY <2>3, <3>2, <3>3
    <3>7. d * (k' + 1) = d * (k + 1) + d /\ d * (k + 1) \in Nat
      BY <2>1, <3>2, <3>3, RoomArithmetic
    <3> QED
      BY <2>0, <3>3, <3>5, <3>6, <3>7 DEF Goal
  <2>7. ASSUME level' = level, offered'[p] = offered[p],
               \A u \in Producers : pc'[u] = pc[u] \/ {pc[u], pc'[u]} = {"idle", "calling"}
        PROVE  Goal
    <3>1. p \in Waiters(Producers) /\ Notified(Producers)' = Notified(Producers)
      BY <2>0, <2>7 DEF Waiters, Notified
    <3>2. k' = k
      BY <3>1 DEF k
    <3> QED
      BY <2>3, <2>7, <3>1, <3>2 DEF Goal
  <2>8. ASSUME NEW q \in Producers,
               \E s \in Segments, b \in BOOLEAN : PutCall(q, s, b)
        PROVE  Goal
    <3>1. pc[q] = "idle" /\ pc'[q] = "calling" /\ level' = level
      BY <2>0, <2>8 DEF PutCall
    <3>2. \A u \in Producers \ {q} : pc'[u] = pc[u] /\ offered'[u] = offered[u]
      BY <2>0, <2>8 DEF PutCall, TypeOK
    <3> QED
      BY <2>0, <2>7, <3>1, <3>2
  <2>9. ASSUME NEW c \in Consumers,
               \/ GetWait(c) \/ GetNone(c)
               \/ \E b \in BOOLEAN : GetCall(c, b)
        PROVE  Goal
    <3>1. /\ level' = level /\ offered' = offered
          /\ \A u \in Producers : pc'[u] = pc[u]
      BY <2>0, <2>9 DEF GetWait, GetNone, GetCall, Leave
    <3> QED
      BY <2>7, <3>1
  <2>10. ASSUME UNCHANGED vars PROVE Goal
    BY <2>0, <2>7, <2>10 DEF vars
  <2>11. ASSUME Next PROVE Goal
    BY <2>4, <2>5, <2>6, <2>8, <2>9, <2>11 DEF Next
  <2>12. Goal
    BY <2>10, <2>11
  <2> QED
    BY <2>12 DEF Goal, k
<1> QED
  BY <1>1, <1>2, TypeCorrect, PTL DEF Spec

\* A sole producer is woken by every get, whatever the durations: while it
\* waits, its segment does not fit.
LEMMA SpaceOfOneProducer ==
  ASSUME NEW p \in Producers, Producers = {p}
  PROVE  Spec => []NoMissedSpace
<1> DEFINE Full == pc[p] = "waiting" => level + Duration[offered[p]] > MaxSeconds
<1>1. Init => Full
  BY BufferAssumption DEF Init, Threads
<1>2. TypeOK /\ Full /\ [Next]_vars => Full'
  <2> SUFFICES ASSUME TypeOK, Full, [Next]_vars, pc'[p] = "waiting"
               PROVE  level' + Duration[offered'[p]] > MaxSeconds
    OBVIOUS
  <2>0. /\ p \in Threads /\ p \notin Consumers /\ Consumers \subseteq Threads
        /\ pc \in [Threads -> PC] /\ level \in Nat /\ MaxSeconds \in Nat
        /\ offered \in [Producers -> Segments \cup {NoSegment}]
    BY BufferAssumption DEF Threads, TypeOK, PC
  <2>1. CASE PutAdmit(p)
    <3>1. Leave(p) \in [Threads -> PC]
      BY <2>0 DEF Leave, PC
    <3>2. pc'[p] = Leave(p)[p]
      BY <2>0, <2>1, <3>1, NotifyEffect DEF PutAdmit
    <3> QED
      BY <2>0, <3>2 DEF Leave
  <2>2. CASE PutWait(p) \/ PutExpire(p)
    <3>1. PutWait(p)
      BY <2>0, <2>2 DEF PutExpire, Leave
    <3>2. offered[p] \in Segments
      BY <3>1 DEF PutWait, TypeOK
    <3>3. Duration[offered[p]] \in Nat
      BY <3>2, BufferAssumption
    <3> QED
      BY <2>0, <3>1, <3>3 DEF PutWait, Fits
  <2>3. CASE \E s \in Segments, b \in BOOLEAN : PutCall(p, s, b)
    BY <2>0, <2>3 DEF PutCall
  <2>4. ASSUME NEW c \in Consumers, GetTake(c) PROVE FALSE
    <3>1. Leave(c)[p] = pc[p] /\ Leave(c) \in [Threads -> PC]
      BY <2>0 DEF Leave, PC
    <3>2. CASE Waiters(Producers) = {}
      BY <2>0, <2>4, <3>1, <3>2 DEF GetTake, Notify, Waiters
    <3>3. CASE Waiters(Producers) # {}
      <4>1. \A w \in Waiters(Producers) : w = p
        BY DEF Waiters
      <4>2. pc' = [Leave(c) EXCEPT ![p] = "notified"]
        BY <2>4, <3>3, <4>1 DEF GetTake, Notify
      <4> QED
        BY <2>0, <3>1, <4>2
    <3> QED
      BY <3>2, <3>3
  <2>5. ASSUME NEW c \in Consumers,
               \/ GetWait(c) \/ GetNone(c)
               \/ \E b \in BOOLEAN : GetCall(c, b)
        PROVE  pc'[p] = pc[p] /\ level' = level /\ offered' = offered
    BY <2>0, <2>5 DEF GetWait, GetNone, GetCall, Leave
  <2>6. CASE UNCHANGED vars
    BY <2>6 DEF vars
  <2>7. CASE Next
    BY <2>1, <2>2, <2>3, <2>4, <2>5, <2>7 DEF Next
  <2> QED
    BY <2>6, <2>7
<1>3. TypeOK /\ Full => NoMissedSpace
  <2> SUFFICES ASSUME TypeOK, Full, NEW q \in Waiters(Producers)
               PROVE  level + Duration[offered[q]] * (Cardinality(Notified(Producers)) + 1)
                        > MaxSeconds
    BY DEF NoMissedSpace
  <2>1. q = p /\ pc[p] = "waiting" /\ Notified(Producers) = {}
    BY DEF Waiters, Notified
  <2>2. Cardinality(Notified(Producers)) = 0
    BY <2>1, FS_EmptySet
  <2>3. Duration[offered[p]] \in Nat /\ level \in Nat
    BY <2>1, BufferAssumption DEF TypeOK
  <2>4. Duration[offered[p]] * (0 + 1) = Duration[offered[p]]
    BY <2>3
  <2> QED
    BY <2>1, <2>2, <2>4
<1> QED
  BY <1>1, <1>2, <1>3, TypeCorrect, PTL DEF Spec

\* One notify per get is enough, and no room is left unused that a waiting put
\* could have, if segments have one duration or one thread puts: run_session's
\* case is the second (buffer_manager.py:53-64, 78; client/client.py:145).
THEOREM NoSpaceMissed == OneDuration \/ OneProducer => (Spec => []NoMissedSpace)
BY SpaceOfOneDuration, SpaceOfOneProducer DEF OneProducer

-----------------------------------------------------------------------------
\* With segments of one duration, or one thread that puts, puts and gets never
\* all wait for each other unless a segment is longer than the buffer
\* (buffer_manager.py:53-64, 70-79).
THEOREM NoStandoffEver ==
  (/\ OneDuration \/ OneProducer
   /\ Producers # {} /\ Consumers # {}) => (Spec => []NoStandoff)
<1> SUFFICES ASSUME OneDuration \/ OneProducer, Producers # {}, Consumers # {}
             PROVE  Spec => []NoStandoff
  OBVIOUS
<1>1. TypeOK /\ LevelIsSum /\ NoLostWakeup /\ NoMissedSpace => NoStandoff
  <2> SUFFICES ASSUME TypeOK, LevelIsSum, NoLostWakeup, NoMissedSpace,
                      \A t \in Threads : pc[t] = "waiting"
               PROVE  \E p \in Producers : Duration[offered[p]] > MaxSeconds
    BY DEF NoStandoff
  <2>1. /\ Waiters(Consumers) # {}
        /\ Notified(Consumers) = {} /\ Notified(Producers) = {}
        /\ \A p \in Producers : p \in Waiters(Producers)
    BY DEF Waiters, Notified, Threads
  <2>2. Cardinality({}) = 0
    BY FS_EmptySet
  <2>3. Len(deque) = 0
    BY <2>1, <2>2, LenProperties DEF NoLostWakeup, TypeOK
  <2>4. level = 0
    BY <2>3 DEF LevelIsSum, Fifo!HasTotal
  <2>5. PICK p \in Producers : TRUE
    OBVIOUS
  <2>6. Duration[offered[p]] \in Nat
    BY <2>1, BufferAssumption DEF TypeOK, Waiters
  <2>7. level + Duration[offered[p]] * (0 + 1) > MaxSeconds
    BY <2>1, <2>2 DEF NoMissedSpace
  <2> QED
    BY <2>4, <2>6, <2>7
<1> QED
  BY <1>1, TypeCorrect, LevelCorrect, NoWakeupLost, NoSpaceMissed, PTL

\* With one consumer, as in the client, a get without a timeout returns a
\* segment: a notified consumer finds the segment it was notified of.
THEOREM SoleGetBlocks ==
  ASSUME NEW c \in Consumers, Consumers = {c}
  PROVE  Spec => UntimedGetBlocks
<1> DEFINE Served == pc[c] = "notified" => deque # << >>
<1>1. Init => Served
  BY DEF Init, Threads
<1>2. TypeOK /\ Served /\ [Next]_vars => Served'
  <2> SUFFICES ASSUME TypeOK, Served, [Next]_vars, pc'[c] = "notified"
               PROVE  deque' # << >>
    OBVIOUS
  <2>0. c \in Threads /\ c \notin Producers /\ Producers \subseteq Threads
    BY BufferAssumption DEF Threads
  <2>1. ASSUME NEW p \in Producers, PutAdmit(p) PROVE deque' # << >>
    <3>1. offered[p] \in Segments
      BY <2>1 DEF PutAdmit, CanLock, TypeOK
    <3> QED
      BY <2>1, <3>1, AppendProperties DEF PutAdmit, TypeOK
  <2>2. ASSUME NEW p \in Producers,
               \/ PutWait(p) \/ PutExpire(p)
               \/ \E s \in Segments, b \in BOOLEAN : PutCall(p, s, b)
        PROVE  deque' # << >>
    BY <2>0, <2>2 DEF PutWait, PutExpire, PutCall, Leave, TypeOK
  <2>3. ASSUME \/ GetWait(c) \/ GetNone(c)
               \/ \E b \in BOOLEAN : GetCall(c, b)
        PROVE  deque' # << >>
    BY <2>0, <2>3 DEF GetWait, GetNone, GetCall, Leave, TypeOK
  <2>4. ASSUME GetTake(c) PROVE FALSE
    BY <2>0, <2>4 DEF GetTake, Notify, Waiters, Leave, TypeOK
  <2>5. CASE UNCHANGED vars
    BY <2>5 DEF vars
  <2> QED
    BY <2>1, <2>2, <2>3, <2>4, <2>5 DEF Next
<1>3. TypeOK /\ Served /\ [Next]_vars => [UntimedReturnsSegment]_vars
  <2> SUFFICES ASSUME TypeOK, Served, Next,
                      pc[c] # "idle", pc'[c] = "idle", ~timed[c]
               PROVE  deque # << >>
    BY DEF UntimedReturnsSegment
  <2>0. c \in Threads /\ c \notin Producers /\ Producers \subseteq Threads
    BY BufferAssumption DEF Threads
  <2>1. ASSUME NEW p \in Producers, PutAdmit(p) PROVE FALSE
    BY <2>0, <2>1 DEF PutAdmit, Notify, Waiters, Leave, TypeOK
  <2>2. ASSUME NEW p \in Producers,
               \/ PutWait(p) \/ PutExpire(p)
               \/ \E s \in Segments, b \in BOOLEAN : PutCall(p, s, b)
        PROVE  FALSE
    BY <2>0, <2>2 DEF PutWait, PutExpire, PutCall, Leave, TypeOK
  <2>3. ASSUME \/ GetWait(c)
               \/ \E b \in BOOLEAN : GetCall(c, b)
        PROVE  FALSE
    BY <2>0, <2>3 DEF GetWait, GetCall, TypeOK
  <2>4. ASSUME GetNone(c) PROVE FALSE
    BY <2>0, <2>4 DEF GetNone, CanLock, TypeOK
  <2>5. ASSUME GetTake(c) PROVE deque # << >>
    BY <2>5 DEF GetTake
  <2> QED
    BY <2>1, <2>2, <2>3, <2>4, <2>5 DEF Next
<1> QED
  BY <1>1, <1>2, <1>3, TypeCorrect, PTL DEF Spec, UntimedGetBlocks
=============================================================================
