----------------------- MODULE DeadlineSchedulerProofs -----------------------
(***************************************************************************)
(* Theorems about DeadlineScheduler, for every lookahead, every positive   *)
(* weight, every segment duration and every history of buffer levels.      *)
(***************************************************************************)
EXTENDS DeadlineScheduler, FiniteSetTheorems, WellFoundedInduction, TLAPS

LEMMA SlackType ==
  ASSUME NEW level \in Nat, NEW offset \in Nat
  PROVE  Slack(level, offset) \in Nat
BY SchedulerAssumption DEF Slack

LEMMA PriorityType ==
  ASSUME NEW level \in Nat, NEW offset \in Nat
  PROVE  Priority(level, offset) \in Int
<1>1. Slack(level, offset) \in Nat
  BY SlackType
<1> QED
  BY <1>1, SchedulerAssumption DEF Priority

\* In one call, a later segment gets a strictly higher priority value.
LEMMA PriorityIncreases ==
  ASSUME NEW level \in Nat, NEW i \in Nat, NEW j \in Nat, i < j
  PROVE  Priority(level, i) < Priority(level, j)
<1> DEFINE di == i * SegmentDuration
           dj == j * SegmentDuration
<1>1. di \in Nat /\ dj \in Nat /\ di < dj
  <2>1. dj = di + (j - i) * SegmentDuration
    BY SchedulerAssumption
  <2>2. (j - i) * SegmentDuration \in Nat \ {0}
    <3>1. j - i \in Nat \ {0} /\ SegmentDuration \in Nat \ {0}
      BY SchedulerAssumption
    <3> HIDE DEF di, dj
    <3> QED
      BY <3>1
  <2>3. di \in Nat /\ dj \in Nat
    BY SchedulerAssumption
  <2> QED
    BY <2>1, <2>2, <2>3
<1>2. /\ Slack(level, i) \in Nat /\ Slack(level, j) \in Nat
      /\ Slack(level, j) <= Slack(level, i)
  <2>1. Slack(level, i) \in Nat /\ Slack(level, j) \in Nat
    BY SlackType
  <2> HIDE DEF di, dj
  <2> QED
    BY <2>1, <1>1 DEF Slack, di, dj
<1>3. UrgencyWeight * di < UrgencyWeight * dj
  <2> HIDE DEF di, dj
  <2>1. UrgencyWeight \in Nat \ {0} /\ dj - di \in Nat \ {0}
    BY <1>1, SchedulerAssumption
  <2>2. UrgencyWeight * (dj - di) \in Nat \ {0}
    BY <2>1
  <2>3. UrgencyWeight * dj = UrgencyWeight * di + UrgencyWeight * (dj - di)
    BY <1>1, <2>1
  <2>4. UrgencyWeight * di \in Nat
    BY <1>1, <2>1
  <2> QED
    BY <2>2, <2>3, <2>4
<1>4. Scale * Slack(level, j) <= Scale * Slack(level, i)
  <2> DEFINE a == Slack(level, i)
             b == Slack(level, j)
  <2>1. a \in Nat /\ b \in Nat /\ a - b \in Nat /\ Scale \in Nat
    BY <1>2, SchedulerAssumption
  <2> HIDE DEF a, b
  <2>2. Scale * (a - b) \in Nat /\ Scale * a = Scale * b + Scale * (a - b)
    BY <2>1
  <2>3. Scale * b \in Nat
    BY <2>1
  <2>4. Scale * b <= Scale * a
    BY <2>2, <2>3
  <2> QED
    BY <2>4 DEF a, b
<1>5. /\ UrgencyWeight * di \in Int /\ UrgencyWeight * dj \in Int
      /\ Scale * Slack(level, i) \in Int /\ Scale * Slack(level, j) \in Int
      /\ BufferBonus * level \in Int
  BY <1>1, <1>2, SchedulerAssumption
<1> QED
  BY <1>3, <1>4, <1>5 DEF Priority

\* The tasks a call pushes.
LEMMA UpcomingType ==
  ASSUME NEW from \in Nat, NEW count \in Nat, NEW level \in Nat, NEW time \in Nat,
         sequence \in Nat
  PROVE  Upcoming(from, count, level, time) \in SUBSET Task
<1>1. SUFFICES ASSUME NEW offset \in 0..(count - 1)
               PROVE  /\ Priority(level, offset) \in Int
                      /\ time + Slack(level, offset) \in Nat
                      /\ sequence + offset \in Nat
                      /\ from + offset \in Nat
  BY DEF Upcoming, Task
<1> QED
  BY SlackType, PriorityType

\* The tasks of one call are each other's siblings.
LEMMA UpcomingSiblings ==
  ASSUME NEW from \in Nat, NEW count \in Nat, NEW level \in Nat, NEW time \in Nat,
         NEW t \in Upcoming(from, count, level, time),
         NEW id \in from..(t.segment_id - 1)
  PROVE  \E u \in Upcoming(from, count, level, time) :
           u.segment_id = id /\ u.priority < t.priority
<1>1. PICK offset \in 0..(count - 1) :
        /\ t.priority = Priority(level, offset)
        /\ t.segment_id = from + offset
  BY DEF Upcoming
<1> DEFINE u == [ priority   |-> Priority(level, id - from),
                  deadline   |-> time + Slack(level, id - from),
                  sequence   |-> sequence + (id - from),
                  segment_id |-> from + (id - from) ]
<1>2. id - from \in 0..(count - 1) /\ id - from < offset
  BY <1>1
<1>3. u \in Upcoming(from, count, level, time)
  BY <1>2 DEF Upcoming
<1>4. u.segment_id = id
  OBVIOUS
<1>5. u.priority < t.priority
  BY <1>1, <1>2, PriorityIncreases
<1> QED
  BY <1>3, <1>4, <1>5

-----------------------------------------------------------------------------
\* Every state is type correct.
THEOREM TypeCorrect == Spec => []TypeOK
<1>1. Init => TypeOK
  BY SchedulerAssumption DEF Init, TypeOK
<1>2. TypeOK /\ [Next]_vars => TypeOK'
  <2> SUFFICES ASSUME TypeOK, [Next]_vars PROVE TypeOK'
    OBVIOUS
  <2>1. ASSUME NEW lookahead \in Lookaheads, NEW level \in 0..MaxLevel,
               NEW delay \in 0..MaxDelay, NextSegment(lookahead, level, delay)
        PROVE  TypeOK'
    <3> DEFINE from == round + 1
               up == Upcoming(from, lookahead, level, now + delay)
    <3>1. /\ lookahead \in Nat /\ level \in Nat /\ delay \in Nat
          /\ from \in Nat /\ now + delay \in Nat /\ sequence \in Nat
      BY SchedulerAssumption DEF TypeOK
    <3>2. up \in SUBSET Task
      BY <3>1, UpcomingType
    <3>3. /\ round' \in 0..MaxRounds /\ now' \in Nat /\ sequence' \in Nat
      BY <2>1, <3>1, SchedulerAssumption DEF NextSegment, TypeOK
    <3>4. heap' \in SUBSET Task /\ task' \in Task \cup {NoTask}
      <4> HIDE DEF up
      <4>1. heap \cup up \in SUBSET Task
        BY <3>2 DEF TypeOK
      <4> QED
        BY <2>1, <4>1 DEF NextSegment, AfterPop, Live, up
    <3> QED
      BY <3>3, <3>4 DEF TypeOK
  <2>2. CASE UNCHANGED vars
    BY <2>2 DEF vars, TypeOK
  <2> QED
    BY <2>1, <2>2 DEF Next
<1> QED
  BY <1>1, <1>2, PTL DEF Spec

\* What a call returns and leaves behind, from the siblings in the heap.
LEMMA CallInOrder ==
  ASSUME TypeOK, TypeOK', SiblingsFirst,
         NEW lookahead \in Lookaheads, NEW level \in 0..MaxLevel,
         NEW delay \in 0..MaxDelay, NextSegment(lookahead, level, delay)
  PROVE  SiblingsFirst' /\ InOrder'
<1> DEFINE from == round + 1
           up == Upcoming(from, lookahead, level, now + delay)
           h == heap \cup up
<1>1. /\ lookahead \in Nat /\ level \in Nat /\ delay \in Nat
      /\ round \in Nat /\ from \in Nat /\ now + delay \in Nat /\ sequence \in Nat
      /\ round' = from
  BY SchedulerAssumption DEF TypeOK, NextSegment
<1>2. up \in SUBSET Task
  BY <1>1, UpcomingType
<1>3. h \in SUBSET Task
  BY <1>2 DEF TypeOK
<1>4. ASSUME NEW v \in h, NEW id \in from..(v.segment_id - 1)
      PROVE  \E u \in h : u.segment_id = id /\ u.priority < v.priority
  <2>1. CASE v \in heap
    BY <2>1, <1>1 DEF SiblingsFirst
  <2>2. CASE v \in up
    BY <2>2, <1>1, UpcomingSiblings
  <2> QED
    BY <2>1, <2>2
<1>5. ASSUME Live(h, from) = {}, heap' = {}, task' = NoTask
      PROVE  SiblingsFirst' /\ InOrder'
  BY <1>5 DEF SiblingsFirst, InOrder, Returned
<1> HIDE DEF h, up
<1>6. ASSUME NEW t \in Live(h, from), Smallest(Live(h, from), t),
             heap' = AfterPop(h, t), task' = t
      PROVE  SiblingsFirst' /\ InOrder'
  <2>1. t \in h /\ t \in Task /\ t.segment_id \in Nat /\ t.segment_id >= from
    BY <1>3 DEF Live, Task
  <2>2. t.segment_id = from
    <3> SUFFICES ASSUME t.segment_id # from PROVE FALSE
      OBVIOUS
    <3>1. from \in from..(t.segment_id - 1)
      BY <2>1, <1>1
    <3>2. PICK u \in h : u.segment_id = from /\ u.priority < t.priority
      BY <1>4, <2>1, <3>1
    <3>3. u \in Live(h, from) \ {t} /\ u \in Task
      BY <3>2, <1>1, <1>3 DEF Live
    <3>4. Less(t, u)
      BY <1>6, <3>3 DEF Smallest
    <3> QED
      BY <2>1, <3>2, <3>3, <3>4 DEF Less, Task
  <2>3. t # NoTask
    BY <2>1, NoTaskAssumption
  <2>4. InOrder'
    BY <1>1, <1>6, <2>2, <2>3 DEF InOrder, Returned
  <2>5. ASSUME NEW v \in heap', NEW id \in (round' + 1)..(v.segment_id - 1)
        PROVE  \E u \in heap' : u.segment_id = id /\ u.priority < v.priority
    <3>1. v \in h /\ v.segment_id \in Nat
      BY <1>3, <1>6 DEF AfterPop, Task
    <3>2. id \in from..(v.segment_id - 1) /\ id > from
      BY <1>1, <3>1
    <3>3. PICK u \in h : u.segment_id = id /\ u.priority < v.priority
      BY <1>4, <3>1, <3>2
    <3>4. u \in Live(h, from) \ {t}
      BY <3>2, <3>3, <2>2, <1>1 DEF Live
    <3>5. u \in heap'
      BY <1>6, <3>3, <3>4 DEF Smallest, AfterPop
    <3> QED
      BY <3>3, <3>5
  <2>6. SiblingsFirst'
    BY <2>5 DEF SiblingsFirst
  <2> QED
    BY <2>4, <2>6
<1> QED
  BY <1>5, <1>6 DEF NextSegment, h, up

\* A task never overtakes the tasks of the segments before its own.
THEOREM Siblings == Spec => []SiblingsFirst
<1>1. Init => SiblingsFirst
  BY DEF Init, SiblingsFirst
<1>2. TypeOK /\ TypeOK' /\ SiblingsFirst /\ [Next]_vars => SiblingsFirst'
  <2>1. CASE UNCHANGED vars
    BY <2>1 DEF vars, SiblingsFirst
  <2> QED
    BY <2>1, CallInOrder DEF Next
<1> QED
  BY <1>1, <1>2, TypeCorrect, PTL DEF Spec

\* next_segment(i + 1) returns i + 1 in every round: whatever the levels and
\* the lookaheads of the calls before it, the heap never reorders the download.
THEOREM DownloadsInOrder == Spec => []InOrder
<1>1. Init => InOrder
  BY DEF Init, InOrder, Returned
<1>2. TypeOK /\ TypeOK' /\ SiblingsFirst /\ InOrder /\ [Next]_vars => InOrder'
  <2>1. CASE UNCHANGED vars
    BY <2>1 DEF vars, InOrder, Returned
  <2> QED
    BY <2>1, CallInOrder DEF Next
<1> QED
  BY <1>1, <1>2, TypeCorrect, Siblings, PTL DEF Spec

-----------------------------------------------------------------------------
(* The heap *)

\* A call pushes no more tasks than its lookahead.
LEMMA UpcomingSize ==
  ASSUME NEW from, NEW count \in Nat, NEW level, NEW time
  PROVE  /\ IsFiniteSet(Upcoming(from, count, level, time))
         /\ Cardinality(Upcoming(from, count, level, time)) <= count
<1> DEFINE S == 0..(count - 1)
           U == Upcoming(from, count, level, time)
           f == [offset \in S |->
                  [ priority   |-> Priority(level, offset),
                    deadline   |-> time + Slack(level, offset),
                    sequence   |-> sequence + offset,
                    segment_id |-> from + offset ]]
<1>1. f \in Surjection(S, U)
  BY DEF Upcoming, Surjection
<1>2. IsFiniteSet(S) /\ Cardinality(S) = count
  BY FS_Interval
<1> HIDE DEF f, S, U
<1>3. IsFiniteSet(U) /\ Cardinality(U) <= Cardinality(S)
  BY <1>1, <1>2, FS_Surjection
<1> QED
  BY <1>2, <1>3 DEF U

\* What Less is on tasks: a strict total order.
LEMMA LessIsOrder ==
  ASSUME NEW t \in Task, NEW u \in Task
  PROVE  /\ ~Less(t, t)
         /\ t # u => Less(t, u) \/ Less(u, t)
         /\ \A v \in Task : Less(t, u) /\ Less(u, v) => Less(t, v)
<1>1. ~Less(t, t)
  BY DEF Less, Task
<1>2. ASSUME t # u PROVE Less(t, u) \/ Less(u, t)
  <2>1. \/ t.priority # u.priority \/ t.deadline # u.deadline
        \/ t.sequence # u.sequence \/ t.segment_id # u.segment_id
    BY <1>2 DEF Task
  <2> QED
    BY <2>1 DEF Less, Task
<1>3. ASSUME NEW v \in Task, Less(t, u), Less(u, v) PROVE Less(t, v)
  BY <1>3 DEF Less, Task
<1> QED
  BY <1>1, <1>2, <1>3

\* A finite set of tasks that is not empty has a smallest one: the pop of a heap
\* always finds what to return.
LEMMA SmallestExists ==
  ASSUME NEW H \in SUBSET Task, IsFiniteSet(H), H # {}
  PROVE  \E t \in H : Smallest(H, t)
<1> DEFINE Below(t) == {u \in H : Less(u, t)}
           B == {Below(t) : t \in H}
           R == StrictSubsetOrdering(H)
<1>1. IsWellFoundedOn(R, SUBSET H)
  <2>1. FiniteSubsetsOf(H) = SUBSET H
    BY FS_FiniteSubsetsOfFinite
  <2>2. IsWellFoundedOn(StrictSubsetOrdering(H), FiniteSubsetsOf(H))
    BY FS_StrictSubsetOrderingWellFounded
  <2> QED
    BY <2>1, <2>2
<1>2. B \subseteq SUBSET H /\ B # {}
  OBVIOUS
<1> HIDE DEF R
<1>3. PICK x \in B : \A y \in B : <<y, x>> \notin R
  BY <1>1, <1>2, WFMin
<1>4. PICK t \in H : x = Below(t)
  OBVIOUS
<1>5. ASSUME NEW u \in H \ {t} PROVE Less(t, u)
  <2> SUFFICES ASSUME Less(u, t) PROVE FALSE
    BY LessIsOrder
  <2>1. u \in Below(t) /\ u \notin Below(u)
    BY LessIsOrder
  <2>2. Below(u) \subseteq Below(t)
    BY LessIsOrder
  <2>3. <<Below(u), x>> \in R
    BY <1>4, <2>1, <2>2 DEF R, StrictSubsetOrdering
  <2> QED
    BY <1>3, <2>3
<1> QED
  BY <1>5 DEF Smallest

Widest(w) == w \in Lookaheads /\ \A lookahead \in Lookaheads : lookahead <= w

\* HeapBound, of a heap that is finite.
Bounded ==
  /\ IsFiniteSet(heap)
  /\ \A w : Widest(w) => Cardinality(heap) <= IF w = 0 THEN 0 ELSE round * (w - 1)

LEMMA BoundedKept ==
  ASSUME TypeOK, Bounded,
         NEW lookahead \in Lookaheads, NEW level \in 0..MaxLevel,
         NEW delay \in 0..MaxDelay, NextSegment(lookahead, level, delay)
  PROVE  Bounded'
<1> DEFINE from == round + 1
           up == Upcoming(from, lookahead, level, now + delay)
           h == heap \cup up
           size == Cardinality(heap)
<1>1. lookahead \in Nat /\ round \in Nat /\ round' = round + 1
  BY SchedulerAssumption DEF TypeOK, NextSegment
<1>2. IsFiniteSet(up) /\ Cardinality(up) <= lookahead /\ Cardinality(up) \in Nat
  BY <1>1, UpcomingSize, FS_CardinalityType
<1>3. size \in Nat /\ IsFiniteSet(heap)
  BY FS_CardinalityType DEF Bounded
<1>4. /\ IsFiniteSet(h) /\ Cardinality(h) \in Nat
      /\ Cardinality(h) <= size + lookahead
  <2>1. IsFiniteSet(heap \cap up) /\ Cardinality(heap \cap up) \in Nat
    BY <1>3, FS_Intersection, FS_CardinalityType
  <2> HIDE DEF up
  <2>2. IsFiniteSet(h) /\ Cardinality(h) = size + Cardinality(up) - Cardinality(heap \cap up)
    BY <1>2, <1>3, FS_Union
  <2> HIDE DEF h, size
  <2> QED
    BY <1>1, <1>2, <1>3, <2>1, <2>2, FS_CardinalityType
<1>5. /\ IsFiniteSet(heap') /\ Cardinality(heap') \in Nat
      /\ heap' = {} \/ Cardinality(heap') <= size + lookahead - 1
  <2>1. CASE heap' = {}
    BY <2>1, FS_EmptySet
  <2>2. ASSUME NEW t \in Live(h, from), heap' = AfterPop(h, t)
        PROVE  IsFiniteSet(heap') /\ Cardinality(heap') <= size + lookahead - 1
    <3>1. t \in h /\ ~Less(t, t)
      <4>1. t \in h /\ h \in SUBSET Task
        BY <1>1, UpcomingType, SchedulerAssumption DEF Live, TypeOK
      <4> QED
        BY <4>1, LessIsOrder
    <3>2. heap' \subseteq h \ {t}
      BY <2>2, <3>1 DEF AfterPop
    <3> HIDE DEF h, size
    <3>3. IsFiniteSet(h \ {t}) /\ Cardinality(h \ {t}) = Cardinality(h) - 1
      BY <1>4, <3>1, FS_RemoveElement
    <3>4. IsFiniteSet(heap') /\ Cardinality(heap') <= Cardinality(h \ {t})
      BY <3>2, <3>3, FS_Subset
    <3> QED
      BY <1>1, <1>3, <1>4, <3>3, <3>4, FS_CardinalityType
  <2> HIDE DEF up, size
  <2> QED
    BY <2>1, <2>2, FS_CardinalityType DEF NextSegment, up
<1>6. ASSUME NEW w, Widest(w)
      PROVE  Cardinality(heap') <= IF w = 0 THEN 0 ELSE round' * (w - 1)
  <2>1. w \in Nat /\ lookahead <= w
    BY <1>6, SchedulerAssumption DEF Widest
  <2>2. size <= IF w = 0 THEN 0 ELSE round * (w - 1)
    BY <1>6 DEF Bounded
  <2>3. CASE heap' = {}
    <3>1. Cardinality(heap') = 0
      BY <2>3, FS_EmptySet
    <3>2. w # 0 => round' * (w - 1) >= 0
      BY <1>1, <2>1
    <3> QED
      BY <3>1, <3>2
  <2>4. CASE heap' # {}
    <3>1. Cardinality(heap') \in Nat /\ Cardinality(heap') # 0
      BY <1>5, <2>4, FS_EmptySet
    <3>2. Cardinality(heap') <= size + lookahead - 1
      BY <1>5, <2>4
    <3> HIDE DEF size
    <3>3. w # 0
      BY <1>1, <1>3, <2>1, <2>2, <3>1, <3>2
    <3>4. round' * (w - 1) = round * (w - 1) + (w - 1) /\ round * (w - 1) \in Nat
      BY <1>1, <2>1, <3>3
    <3> QED
      BY <1>1, <1>3, <2>1, <2>2, <3>1, <3>2, <3>3, <3>4
  <2> QED
    BY <2>3, <2>4
<1> QED
  BY <1>5, <1>6 DEF Bounded

LEMMA BoundedAlways == Spec => []Bounded
<1>1. Init => Bounded
  <2> SUFFICES ASSUME Init, NEW w, Widest(w)
               PROVE  0 <= IF w = 0 THEN 0 ELSE 0 * (w - 1)
    BY FS_EmptySet DEF Init, Bounded
  <2> QED
    BY SchedulerAssumption DEF Widest
<1>2. TypeOK /\ Bounded /\ [Next]_vars => Bounded'
  <2>1. CASE UNCHANGED vars
    BY <2>1 DEF vars, Bounded
  <2> QED
    BY <2>1, BoundedKept DEF Next
<1> QED
  BY <1>1, <1>2, TypeCorrect, PTL DEF Spec

\* The tasks nobody needs any more do not pile up: a call leaves at most
\* lookahead - 1 more of them than it found (deadline_scheduler.py:45-57).
THEOREM HeapStaysSmall == Spec => []HeapBound
<1>1. Bounded => HeapBound
  BY SchedulerAssumption DEF Bounded, HeapBound, Widest
<1> QED
  BY <1>1, BoundedAlways, PTL

\* What a call, in any state, finds after its pushes.
Returns ==
  \A lookahead \in Lookaheads, level \in 0..MaxLevel, delay \in 0..MaxDelay :
    LET from == round + 1
        live == Live(heap \cup Upcoming(from, lookahead, level, now + delay), from)
    IN  /\ live # {} => \E t \in live : Smallest(live, t)
        /\ lookahead > 0 => live # {}

\* The pops of a call always end: with a positive lookahead some task is live,
\* and one of the live tasks comes before all the others, since ties are broken
\* by sequence and segment (priority_queue.py:17-22; deadline_scheduler.py:53-57).
THEOREM CallReturns == Spec => []Returns
<1>1. TypeOK /\ Bounded => Returns
  <2> SUFFICES ASSUME TypeOK, Bounded, NEW lookahead \in Lookaheads,
                      NEW level \in 0..MaxLevel, NEW delay \in 0..MaxDelay
               PROVE  LET from == round + 1
                          live == Live(heap \cup Upcoming(from, lookahead, level, now + delay),
                                       from)
                      IN  /\ live # {} => \E t \in live : Smallest(live, t)
                          /\ lookahead > 0 => live # {}
    BY DEF Returns
  <2> DEFINE from == round + 1
             up == Upcoming(from, lookahead, level, now + delay)
             h == heap \cup up
             live == Live(h, from)
  <2>1. lookahead \in Nat /\ level \in Nat /\ now + delay \in Nat /\ from \in Nat
    BY SchedulerAssumption DEF TypeOK
  <2>2. h \in SUBSET Task
    BY <2>1, UpcomingType DEF TypeOK
  <2>3. IsFiniteSet(h)
    <3>1. IsFiniteSet(up) /\ IsFiniteSet(heap)
      BY <2>1, UpcomingSize DEF Bounded
    <3> HIDE DEF up
    <3> QED
      BY <3>1, FS_Union
  <2>4. live \in SUBSET Task /\ IsFiniteSet(live)
    <3> HIDE DEF h
    <3> QED
      BY <2>2, <2>3, FS_Subset DEF Live
  <2>5. ASSUME lookahead > 0 PROVE live # {}
    <3> DEFINE t == [ priority   |-> Priority(level, 0),
                      deadline   |-> (now + delay) + Slack(level, 0),
                      sequence   |-> sequence + 0,
                      segment_id |-> from + 0 ]
    <3>1. t \in up
      BY <2>1, <2>5 DEF Upcoming
    <3>2. t.segment_id >= from
      BY <2>1
    <3> QED
      BY <3>1, <3>2 DEF Live
  <2> HIDE DEF live
  <2>6. live # {} => \E t \in live : Smallest(live, t)
    BY <2>4, SmallestExists
  <2> QED
    BY <2>5, <2>6 DEF live
<1> QED
  BY <1>1, TypeCorrect, BoundedAlways, PTL
=============================================================================
