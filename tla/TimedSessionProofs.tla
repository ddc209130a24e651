-------------------------- MODULE TimedSessionProofs --------------------------
(***************************************************************************)
(* Theorems about TimedSession, for every profile, every sequence of       *)
(* segment sizes and of times the network takes, every buffer and every    *)
(* length of a session.                                                    *)
(***************************************************************************)
EXTENDS TimedSession, FiniteSetTheorems, WellFoundedInduction, SequenceTheorems, TLAPS

-----------------------------------------------------------------------------
(* The shaper *)

LEMMA LeastElement ==
  ASSUME NEW n \in Nat, NEW Q \in SUBSET (1..n), Q # {}
  PROVE  \E q \in Q : \A k \in Q : q <= k
<1> DEFINE U == {1..k : k \in Q}
           R == StrictSubsetOrdering(1..n)
<1>1. IsWellFoundedOn(R, SUBSET (1..n))
  <2> DEFINE S == 1..n
  <2>1. IsFiniteSet(S)
    BY FS_Interval
  <2> HIDE DEF S
  <2>2. FiniteSubsetsOf(S) = SUBSET S
    BY <2>1, FS_FiniteSubsetsOfFinite
  <2>3. IsWellFoundedOn(StrictSubsetOrdering(S), FiniteSubsetsOf(S))
    BY FS_StrictSubsetOrderingWellFounded
  <2> QED
    BY <2>2, <2>3 DEF S
<1>2. U \subseteq SUBSET (1..n) /\ U # {}
  <2>1. \A k \in Q : k \in 1..n
    OBVIOUS
  <2>2. \A k \in Q : 1..k \in SUBSET (1..n)
    BY <2>1
  <2> QED
    BY <2>2
<1> HIDE DEF R
<1>3. PICK x \in U : \A y \in U : <<y, x>> \notin R
  BY <1>1, <1>2, WFMin
<1>4. PICK q \in Q : x = 1..q
  OBVIOUS
<1>5. ASSUME NEW k \in Q, k < q
      PROVE  FALSE
  <2>1. 1..k \in SUBSET (1..n) /\ x \in SUBSET (1..n) /\ 1..k \subseteq x
    BY <1>4, <1>5
  <2>2. q \in x /\ q \notin 1..k
    BY <1>4, <1>5
  <2>3. <<1..k, x>> \in R
    BY <2>1, <2>2 DEF R, StrictSubsetOrdering
  <2>4. 1..k \in U
    OBVIOUS
  <2> QED
    BY <1>3, <2>3, <2>4
<1> QED
  BY <1>5

\* The cap that the loop finds is that of the step of the profile in force.
LEMMA CapOfStep ==
  ASSUME NEW elapsed \in Int
  PROVE  \E i \in 1..Len(Timeline) : Cap(elapsed) = Timeline[i].cap /\ InForce(i, elapsed)
<1> DEFINE n == Len(Timeline)
           P == Passed(elapsed)
           Q == {k \in 1..(n + 1) : k \notin P}
<1>1. n \in Nat \ {0}
  BY TimelineAssumption, EmptySeq
<1>0. /\ \A i \in 1..n : Timeline[i].t \in Nat
      /\ \A i, j \in 1..n : i <= j => Timeline[i].t <= Timeline[j].t
  <2>1. /\ Timeline \in Seq([t : Nat, cap : Nat])
        /\ \A i, j \in 1..Len(Timeline) : i <= j => Timeline[i].t <= Timeline[j].t
    BY TimelineAssumption, Zenon
  <2>2. \A i \in 1..n : Timeline[i] \in [t : Nat, cap : Nat]
    BY <2>1, ElementOfSeq
  <2>3. \A i \in 1..n : Timeline[i].t \in Nat
    BY <2>2
  <2> QED
    BY <2>1, <2>3
<1>2. CASE P = {}
  <2>1. 1 \in 1..n /\ 1 \notin P
    BY <1>1, <1>2
  <2>2. elapsed < Timeline[1].t
    <3>1. PICK k \in 1..1 : ~(elapsed >= Timeline[k].t)
      BY <2>1, Zenon DEF Passed
    <3>2. k = 1
      OBVIOUS
    <3>3. Timeline[1].t \in Nat /\ ~(elapsed >= Timeline[1].t)
      BY <1>0, <2>1, <3>1, <3>2, Zenon
    <3> QED
      BY <3>3
  <2>3. n = 1 \/ elapsed < Timeline[2].t
    <3>1. CASE n # 1
      <4> HIDE DEF n
      <4>1. 1 \in 1..n /\ 2 \in 1..n
        BY <1>1, <3>1
      <4>2. /\ Timeline[1].t \in Nat /\ Timeline[2].t \in Nat
            /\ Timeline[1].t <= Timeline[2].t
        BY <1>0, <4>1
      <4> QED
        BY <2>2, <4>2
    <3> QED
      BY <3>1
  <2>4. InForce(1, elapsed)
    BY <2>3 DEF InForce
  <2> QED
    BY <1>2, <2>1, <2>4 DEF Cap
<1>3. CASE P # {}
  <2>1. P \subseteq 1..n /\ \A i \in P : \A j \in 1..i : j \in P
    BY <1>1 DEF Passed
  <2>2. Q \in SUBSET (1..(n + 1)) /\ n + 1 \in Q
    BY <1>1, <2>1
  <2>3. PICK q \in Q : \A k \in Q : q <= k
    <3> DEFINE m == n + 1
    <3>1. m \in Nat /\ Q \in SUBSET (1..m) /\ Q # {}
      BY <1>1, <2>2
    <3> HIDE DEF Q, m
    <3> QED
      BY <3>1, LeastElement
  <2>4. q - 1 \in P
    <3>1. 1 \in P
      BY <1>1, <1>3, <2>1
    <3> QED
      BY <1>1, <2>3, <3>1
  <2>5. \A k \in P : q - 1 >= k
    BY <1>1, <2>1, <2>3
  <2>6. Max(P) \in P
    BY <2>4, <2>5 DEF Max
  <2> DEFINE m == Max(P)
  <2>7. m \in 1..n /\ Timeline[m].t <= elapsed
    BY <1>0, <2>1, <2>6 DEF Passed
  <2>8. ASSUME m # n PROVE elapsed < Timeline[m + 1].t
    <3>1. m + 1 \in 1..n /\ m + 1 \notin P
      <4>1. q - 1 >= m
        BY <2>5, <2>6
      <4>2. \A k \in P : m >= k
        BY <2>4, <2>5 DEF Max
      <4>3. m + 1 \in 1..n
        BY <1>1, <2>7, <2>8
      <4> HIDE DEF m
      <4>4. m + 1 \notin P
        BY <2>1, <2>7, <4>2
      <4> QED
        BY <4>3, <4>4
    <3>2. PICK k \in 1..(m + 1) : ~(elapsed >= Timeline[k].t)
      BY <3>1 DEF Passed
    <3>3. k \notin 1..m
      BY <2>6, <3>2 DEF Passed
    <3>4. k = m + 1
      BY <2>7, <3>2, <3>3
    <3> QED
      BY <1>0, <3>1, <3>2, <3>4
  <2>9. InForce(m, elapsed)
    BY <2>7, <2>8 DEF InForce
  <2> QED
    BY <1>3, <2>7, <2>9 DEF Cap
<1> QED
  BY <1>2, <1>3

\* Dividing by a cap is exact.
LEMMA CapType ==
  ASSUME NEW elapsed \in Int
  PROVE  /\ Cap(elapsed) \in Nat
         /\ \A n \in Sizes : Cap(elapsed) # 0 => n % Cap(elapsed) = 0
<1>1. PICK i \in 1..Len(Timeline) : Cap(elapsed) = Timeline[i].cap
  BY CapOfStep
<1>2. Timeline[i] \in [t : Nat, cap : Nat]
  BY TimelineAssumption, ElementOfSeq
<1> QED
  BY <1>1, <1>2, TimelineAssumption

LEMMA ExactDivision ==
  ASSUME NEW n \in Nat, NEW c \in Nat \ {0}, n % c = 0
  PROVE  n \div c \in Nat /\ n = c * (n \div c)
OBVIOUS

LEMMA LongerIsMore ==
  ASSUME NEW c \in Nat, NEW a \in Nat, NEW b \in Nat, a <= b
  PROVE  c * a \in Nat /\ c * b \in Nat /\ c * a <= c * b
<1>1. c * (b - a) \in Nat /\ c * b = c * a + c * (b - a)
  OBVIOUS
<1> QED
  BY <1>1

\* After the delay a download has taken the time that its size takes at the cap.
LEMMA DelayEnough ==
  ASSUME NEW n \in Sizes, NEW time \in Nat, NEW elapsed \in Int
  PROVE  /\ DownloadDelay(n, time, elapsed) \in Nat
         /\ Cap(elapsed) # 0 => n <= Cap(elapsed) * (time + DownloadDelay(n, time, elapsed))
<1> DEFINE c == Cap(elapsed)
           d == DownloadDelay(n, time, elapsed)
<1>1. n \in Nat /\ c \in Nat
  BY CapType, TimelineAssumption
<1>2. CASE c = 0
  BY <1>2 DEF DownloadDelay
<1>3. CASE c # 0
  <2>1. n \div c \in Nat /\ n = c * (n \div c)
    BY <1>1, <1>3, CapType, ExactDivision
  <2>2. d \in Nat /\ n \div c <= time + d
    <3> DEFINE w == n \div c
    <3>1. w \in Nat /\ d = IF time >= w THEN 0 ELSE w - time
      BY <1>3, <2>1 DEF DownloadDelay
    <3> HIDE DEF w, d
    <3>2. d \in Nat /\ w <= time + d
      BY <3>1
    <3> QED
      BY <3>2 DEF w
  <2> HIDE DEF c, d
  <2>3. c * (n \div c) <= c * (time + d)
    BY <1>1, <2>1, <2>2, LongerIsMore
  <2> QED
    BY <2>1, <2>2, <2>3 DEF c, d
<1> QED
  BY <1>2, <1>3

-----------------------------------------------------------------------------
(* The estimate *)

LEMMA AlphaType ==
  /\ AlphaNum \in Nat \ {0} /\ AlphaDen \in Nat \ {0}
  /\ AlphaDen - AlphaNum \in Nat
BY AlphaAssumption

LEMMA Positive ==
  ASSUME NEW a \in Nat \ {0}, NEW b \in Nat \ {0}
  PROVE  a * b \in Nat \ {0}
OBVIOUS

LEMMA NatProduct ==
  ASSUME NEW a \in Nat, NEW b \in Nat
  PROVE  a * b \in Nat
OBVIOUS

\* An average of two fractions is a fraction ...
LEMMA SmoothedType ==
  ASSUME NEW value \in Fraction \cup {NoEstimate}, NEW sample \in Fraction
  PROVE  Smoothed(value, sample) \in Fraction
<1>1. CASE value = NoEstimate
  BY <1>1 DEF Smoothed
<1>2. CASE value # NoEstimate
  <2> DEFINE v == value.num
             w == value.den
             x == sample.num
             y == sample.den
             b == AlphaDen - AlphaNum
  <2>1. v \in Nat /\ w \in Nat \ {0} /\ x \in Nat /\ y \in Nat \ {0} /\ b \in Nat
    BY <1>2, AlphaType DEF Fraction
  <2>2. Smoothed(value, sample) =
          [num |-> AlphaNum * x * w + b * v * y, den |-> AlphaDen * y * w]
    BY <1>2 DEF Smoothed
  <2> HIDE DEF v, w, x, y, b
  <2>3. AlphaDen * y * w \in Nat \ {0}
    BY <2>1, AlphaType, Positive
  <2>4. AlphaNum * x * w \in Nat /\ b * v * y \in Nat
    BY <2>1, AlphaType, NatProduct
  <2> QED
    BY <2>2, <2>3, <2>4 DEF Fraction
<1> QED
  BY <1>1, <1>2

\* ... and not above a bound of both.
LEMMA SmoothedBound ==
  ASSUME NEW value \in Fraction, NEW sample \in Fraction, NEW c \in Nat,
         AtMost(value, c), AtMost(sample, c)
  PROVE  AtMost(Smoothed(value, sample), c)
<1> DEFINE v == value.num
           w == value.den
           x == sample.num
           y == sample.den
           b == AlphaDen - AlphaNum
<1>1. /\ v \in Nat /\ w \in Nat /\ x \in Nat /\ y \in Nat /\ b \in Nat
      /\ AlphaNum \in Nat /\ AlphaDen \in Nat /\ AlphaDen = AlphaNum + b
      /\ v <= c * w /\ x <= c * y
  BY AlphaType DEF Fraction, AtMost
<1>2. Smoothed(value, sample) =
        [num |-> AlphaNum * x * w + b * v * y, den |-> AlphaDen * y * w]
  BY DEF Smoothed, NoEstimate, Fraction
<1> HIDE DEF v, w, x, y, b
<1>3. (AlphaNum * w) * x <= (AlphaNum * w) * (c * y)
  BY <1>1, NatProduct, LongerIsMore
<1>4. (b * y) * v <= (b * y) * (c * w)
  BY <1>1, NatProduct, LongerIsMore
<1>5. /\ (AlphaNum * w) * x = AlphaNum * x * w
      /\ (b * y) * v = b * v * y
      /\ (AlphaNum * w) * (c * y) + (b * y) * (c * w) = c * (AlphaDen * y * w)
  BY <1>1
<1>6. /\ AlphaNum * x * w \in Nat /\ b * v * y \in Nat
      /\ (AlphaNum * w) * (c * y) \in Nat /\ (b * y) * (c * w) \in Nat
  BY <1>1, NatProduct
<1> QED
  BY <1>2, <1>3, <1>4, <1>5, <1>6 DEF AtMost

\* A fraction stays below a higher bound.
LEMMA HigherBound ==
  ASSUME NEW f \in Fraction, NEW c \in Nat, NEW e \in Nat, c <= e, AtMost(f, c)
  PROVE  AtMost(f, e)
<1>1. f.num \in Nat /\ f.den \in Nat
  BY DEF Fraction
<1>2. f.den * c <= f.den * e /\ f.den * c = c * f.den /\ f.den * e = e * f.den
  BY <1>1, LongerIsMore
<1>3. c * f.den \in Nat /\ e * f.den \in Nat
  BY <1>1, NatProduct
<1> QED
  BY <1>1, <1>2, <1>3 DEF AtMost

-----------------------------------------------------------------------------
(* Types *)

\* Every segment asked for and put is in the buffer or has been played; a wait
\* begins before it ends.
Conserved ==
  LET here == report.played + Len(queue) IN
  /\ mainPc \in {"latency", "fetch", "delay", "put"} =>
       size \in Sizes /\ seg \in 1..SegmentCount /\ here = seg - 1
  /\ mainPc \in {"ready", "joining", "done"} => here = seg
  /\ mainPc \in {"joining", "done"} => seg = SegmentCount
  /\ here <= seg
  /\ since <= now

Typed == TypeOK /\ Conserved

LEMMA SumType ==
  ASSUME NEW a \in Nat, NEW b \in Nat
  PROVE  a + b \in Nat
OBVIOUS

LEMMA ThroughputType ==
  ASSUME NEW n \in Nat, NEW time \in Nat
  PROVE  Throughput(n, time) \in Fraction
BY DEF Throughput, Fraction

\* A stall ends in a segment that is played, with some stalled seconds counted.
LEMMA ResumeConsumes ==
  ASSUME Resume, now - since \in Nat,
         report \in [played : 0..SegmentCount, startup : Nat, seconds : Nat]
  PROVE  \E n \in Nat : Consume([report EXCEPT !.seconds = n])
<1>1. CASE now - since > Threshold
  <2> DEFINE n == report.seconds + (now - since)
  <2>1. n \in Nat
    BY SumType
  <2>2. Consume([report EXCEPT !.seconds = n])
    BY <1>1 DEF Resume
  <2> HIDE DEF n
  <2> QED
    BY <2>1, <2>2, Zenon
<1>2. CASE ~(now - since > Threshold)
  <2>1. report = [report EXCEPT !.seconds = report.seconds] /\ report.seconds \in Nat
    OBVIOUS
  <2>2. Consume(report)
    BY <1>2 DEF Resume
  <2>3. Consume([report EXCEPT !.seconds = report.seconds])
    BY <2>1, <2>2
  <2> QED
    BY <2>1, <2>3, Zenon
<1> QED
  BY <1>1, <1>2

LEMMA TypedKept == Spec => []Typed
<1>1. Init => Typed
  BY TimedAssumption, EmptySeq DEF Init, Typed, TypeOK, Conserved
<1>2. Typed /\ [Next]_vars => Typed'
  <2> SUFFICES ASSUME Typed, [Next]_vars PROVE Typed'
    OBVIOUS
  <2>0. /\ SegmentCount \in Nat \ {0} /\ BufferSegments \in Nat \ {0}
        /\ Duration \in Nat \ {0} /\ Latency \in Nat /\ MaxFetch \in Nat
        /\ Poll \in Nat \ {0} /\ Threshold \in Nat /\ WaitPoll \in Nat \ {0}
        /\ WaitLimit \in Nat \ {0} /\ JoinLimit \in Nat
        /\ Sizes \subseteq Nat
        /\ Len(queue) \in Nat /\ queue \in Seq(1..SegmentCount)
    <3>1. /\ SegmentCount \in Nat \ {0} /\ BufferSegments \in Nat \ {0}
          /\ Duration \in Nat \ {0} /\ Latency \in Nat /\ MaxFetch \in Nat
          /\ Poll \in Nat \ {0} /\ Threshold \in Nat /\ WaitPoll \in Nat \ {0}
          /\ WaitLimit \in Nat \ {0} /\ JoinLimit \in Nat
      BY TimedAssumption, Zenon
    <3>2. Sizes \subseteq Nat
      BY TimelineAssumption, Zenon
    <3>3. queue \in Seq(1..SegmentCount)
      BY DEF Typed, TypeOK
    <3>4. Len(queue) \in Nat
      BY <3>3, LenProperties
    <3> QED
      BY <3>1, <3>2, <3>3, <3>4
  <2> USE DEF Typed, TypeOK, Conserved, mainVars, playerVars
  <2>1. CASE Download
    <3>1. /\ mainPc = "ready" /\ mainPc' = "latency" /\ seg' = seg + 1 /\ seg < SegmentCount
          /\ size' \in Sizes /\ wake' = now + Latency
          /\ UNCHANGED <<now, took, estimate, queue, playerVars>>
      BY <2>1 DEF Download
    <3>2. seg' \in 1..SegmentCount /\ wake' \in Nat
      BY <2>0, <3>1
    <3>3. Conserved'
      BY <2>0, <3>1, <3>2
    <3> QED
      BY <2>0, <3>1, <3>2, <3>3
  <2>2. CASE Fetch
    <3>1. took' \in Nat /\ wake' \in Nat
      <4>1. took' \in 0..MaxFetch /\ wake' = now + took' /\ now \in Nat
        BY <2>2 DEF Fetch
      <4>2. MaxFetch \in Nat
        BY TimedAssumption
      <4>3. took' \in Nat
        BY <4>1, <4>2
      <4>4. now + took' \in Nat
        BY <4>1, <4>3, SumType
      <4> QED
        BY <4>1, <4>3, <4>4, Zenon
    <3> QED
      BY <2>0, <2>2, <3>1 DEF Fetch
  <2>3. CASE Shape
    <3>1. DownloadDelay(size, took, now) \in Nat
      BY <2>3, DelayEnough DEF Shape
    <3> DEFINE extra == DownloadDelay(size, took, now)
    <3>2. /\ mainPc = "fetch" /\ mainPc' = "delay"
          /\ wake' = now + extra /\ took' = took + extra
          /\ UNCHANGED <<now, seg, size, estimate, queue, playerVars>>
      BY <2>3 DEF Shape
    <3>3. now \in Nat /\ took \in Nat
      OBVIOUS
    <3> HIDE DEF extra
    <3>4. wake' \in Nat /\ took' \in Nat
      <4>1. extra \in Nat
        BY <3>1 DEF extra
      <4> QED
        BY <3>2, <3>3, <4>1, SumType
    <3> QED
      BY <2>0, <3>2, <3>4
  <2>4. CASE FetchRaises
    <3>1. wake' \in Nat
      <4>1. wake' = now + JoinLimit /\ now \in Nat
        BY <2>4 DEF FetchRaises
      <4> QED
        BY <2>0, <4>1, SumType
    <3> QED
      BY <2>0, <2>4, <3>1 DEF FetchRaises
  <2>5. CASE Measure
    <3>1. Throughput(size, took) \in Fraction
      BY <2>0, <2>5, ThroughputType DEF Measure
    <3>2. estimate' \in Fraction
      BY <2>5, <3>1, SmoothedType DEF Measure
    <3> QED
      BY <2>0, <2>5, <3>2 DEF Measure
  <2>6. CASE Put
    <3>1. seg \in 1..SegmentCount
      BY <2>6 DEF Put
    <3>2. /\ Append(queue, seg) \in Seq(1..SegmentCount)
          /\ Len(Append(queue, seg)) = Len(queue) + 1
      BY <2>0, <3>1, AppendProperties
    <3>3. /\ mainPc = "put" /\ mainPc' = "ready" /\ Len(queue) < BufferSegments
          /\ queue' = Append(queue, seg)
          /\ UNCHANGED <<now, seg, size, took, wake, estimate, playerVars>>
      BY <2>6 DEF Put
    <3>4. report.played + Len(queue) = seg - 1 /\ report.played \in Nat /\ seg \in Nat
      BY <2>0, <3>3
    <3>5. report'.played + Len(queue') = seg'
      <4>1. report' = report /\ seg' = seg /\ Len(queue') = Len(queue) + 1
        BY <3>2, <3>3
      <4>2. Len(queue) \in Nat
        BY <2>0
      <4>3. report.played + (Len(queue) + 1) = seg
        BY <3>4, <4>2
      <4> QED
        BY <4>1, <4>3
    <3>6. Conserved'
      BY <3>3, <3>4, <3>5
    <3>7. queue' \in Seq(1..SegmentCount) /\ Len(queue') <= BufferSegments
      BY <2>0, <3>2, <3>3
    <3> QED
      BY <2>0, <3>3, <3>6, <3>7
  <2>7. CASE CallJoin
    BY <2>0, <2>7 DEF CallJoin
  <2>8. CASE Join
    BY <2>0, <2>8 DEF Join
  <2>9. ASSUME NEW r, r \in [played : 0..SegmentCount, startup : Nat, seconds : Nat],
               r.played = report.played, Consume(r)
        PROVE  Typed'
    <3>1. /\ queue # << >> /\ queue' = Tail(queue)
          /\ report' = [r EXCEPT !.played = @ + 1]
          /\ until' = now + Duration /\ playerPc' = "playing"
          /\ UNCHANGED <<now, mainVars, since, deadline>>
      BY <2>9 DEF Consume
    <3>2. /\ queue' \in Seq(1..SegmentCount)
          /\ Len(queue') = Len(queue) - 1 /\ Len(queue) > 0
      BY <2>0, <3>1, HeadTailProperties, EmptySeq
    <3>3. /\ report.played \in Nat /\ seg \in Nat /\ seg <= SegmentCount
          /\ report.played + Len(queue) <= seg
      BY <2>0
    <3>4. report.played + 1 \in 0..SegmentCount
      <4>1. SegmentCount \in Nat /\ Len(queue) \in Nat
        BY <2>0
      <4>2. report.played + 1 <= SegmentCount
        BY <3>2, <3>3, <4>1
      <4> QED
        BY <3>3, <4>1, <4>2
    <3>5. /\ report' \in [played : 0..SegmentCount, startup : Nat, seconds : Nat]
          /\ report'.played = report.played + 1
      BY <2>9, <3>1, <3>4
    <3>6. report'.played + Len(queue') = report.played + Len(queue)
      BY <2>0, <3>2, <3>3, <3>5
    <3>7. Conserved'
      BY <3>1, <3>6
    <3>8. until' \in Nat /\ Len(queue') <= BufferSegments
      <4>1. Len(queue) <= BufferSegments /\ now \in Nat
        OBVIOUS
      <4>2. Len(queue) \in Nat /\ BufferSegments \in Nat /\ Duration \in Nat
        BY <2>0
      <4>3. now + Duration \in Nat /\ Len(queue) - 1 <= BufferSegments
        BY <4>1, <4>2
      <4> QED
        BY <3>1, <3>2, <4>3
    <3> QED
      BY <3>1, <3>2, <3>5, <3>7, <3>8
  <2>10. CASE First
    <3>1. Consume([report EXCEPT !.startup = now - since])
      BY <2>10 DEF First
    <3>2. now - since \in Nat
      <4>1. now \in Nat /\ since \in Nat /\ since <= now
        OBVIOUS
      <4> QED
        BY <4>1
    <3>3. report \in [played : 0..SegmentCount, startup : Nat, seconds : Nat]
      OBVIOUS
    <3> QED
      BY <2>9, <3>1, <3>2, <3>3
  <2>11. CASE Played
    <3>1. /\ playerPc' \in {"polling", "exited"}
          /\ until' = now + Poll \/ until' = until
          /\ UNCHANGED <<now, mainVars, queue, since, deadline, report>>
      BY <2>11 DEF Played
    <3>2. until' \in Nat
      <4>1. now \in Nat /\ until \in Nat /\ Poll \in Nat
        BY <2>0
      <4> QED
        BY <3>1, <4>1, SumType
    <3> QED
      BY <3>1, <3>2
  <2>12. CASE InTime
    BY <2>9, <2>12 DEF InTime
  <2>13. CASE Miss
    BY <2>0, <2>13 DEF Miss
  <2>14. CASE WaitAgain
    BY <2>0, <2>14 DEF WaitAgain
  <2>15. CASE Resume
    <3>1. now - since \in Nat
      BY <2>15 DEF Resume
    <3>2. PICK n \in Nat : Consume([report EXCEPT !.seconds = n])
      BY <2>15, <3>1, ResumeConsumes
    <3> QED
      BY <2>9, <3>2
  <2>16. CASE Tick
    BY <2>0, <2>16 DEF Tick
  <2>17. CASE Over \/ UNCHANGED vars
    BY <2>17 DEF Over, vars
  <2> HIDE DEF Typed
  <2> QED
    BY <2>1, <2>2, <2>3, <2>4, <2>5, <2>6, <2>7, <2>8, <2>10, <2>11, <2>12, <2>13,
       <2>14, <2>15, <2>16, <2>17 DEF Next
<1> QED
  BY <1>1, <1>2, PTL DEF Spec

\* Every variable keeps its type: in particular a segment is only taken that has
\* been put, and no more of them than the session has.
THEOREM TypeCorrect == Spec => []TypeOK
<1>1. Typed => TypeOK
  BY DEF Typed
<1> QED
  BY <1>1, TypedKept, PTL

-----------------------------------------------------------------------------
(* The estimate stays under the caps *)

\* No download began before the start.
Began == mainPc \in {"fetch", "delay"} => took <= wake

UnderCaps == EstimateUnderCaps /\ Began

\* What was in force up to now stays so.
LEMMA StaysUnder ==
  ASSUME Typed, UnderCaps, now' \in Nat, now <= now', estimate' = estimate,
         \/ mainPc' \notin {"fetch", "delay"}
         \/ mainPc' = mainPc /\ UNCHANGED <<size, took, wake>>
  PROVE  UnderCaps'
<1>1. now \in Nat /\ 0..now \subseteq 0..now'
  BY DEF Typed, TypeOK
<1>2. Began'
  BY DEF UnderCaps, Began
<1>3. EstimateUnderCaps'
  <2>1. mainPc' = "delay" =>
          \E x \in (wake' - took')..wake', i \in 1..Len(Timeline) :
            InForce(i, x) /\ (Timeline[i].cap = 0 \/ size' <= Timeline[i].cap * took')
    BY DEF UnderCaps, EstimateUnderCaps
  <2>2. estimate' # NoEstimate =>
          \E x \in 0..now', i \in 1..Len(Timeline) :
            InForce(i, x) /\ (Timeline[i].cap = 0 \/ AtMost(estimate', Timeline[i].cap))
    BY <1>1 DEF UnderCaps, EstimateUnderCaps
  <2> QED
    BY <2>1, <2>2 DEF EstimateUnderCaps
<1> QED
  BY <1>2, <1>3 DEF UnderCaps

\* No download runs faster than a cap in force while it runs, and the estimate is
\* never above all the caps that have been in force since the start, whatever the
\* network does (shaper.py:52-85, downloader.py:39-46, ewma.py:18-24).
THEOREM EstimateStaysUnder == Spec => []EstimateUnderCaps
<1>1. Init => UnderCaps
  BY DEF Init, UnderCaps, EstimateUnderCaps, Began
<1>2. Typed /\ Typed' /\ UnderCaps /\ [Next]_vars => UnderCaps'
  <2> SUFFICES ASSUME Typed, Typed', UnderCaps, [Next]_vars PROVE UnderCaps'
    OBVIOUS
  <2>0. now \in Nat /\ now' \in Nat /\ now \in Int
    BY DEF Typed, TypeOK
  <2>8. \A i \in 1..Len(Timeline) : Timeline[i].cap \in Nat
    <3>1. Timeline \in Seq([t : Nat, cap : Nat])
      BY TimelineAssumption, Zenon
    <3>2. \A i \in 1..Len(Timeline) : Timeline[i] \in [t : Nat, cap : Nat]
      BY <3>1, ElementOfSeq
    <3> QED
      BY <3>2
  <2>1. CASE Shape
    <3> DEFINE extra == DownloadDelay(size, took, now)
    <3>1. /\ mainPc = "fetch" /\ mainPc' = "delay" /\ now = wake
          /\ wake' = now + extra /\ took' = took + extra
          /\ now' = now /\ size' = size /\ estimate' = estimate
      BY <2>1 DEF Shape
    <3>2. size \in Sizes /\ took \in Nat /\ took <= wake
      BY <3>1 DEF Typed, TypeOK, Conserved, UnderCaps, Began
    <3>3. extra \in Nat /\ (Cap(now) = 0 \/ size <= Cap(now) * (took + extra))
      BY <2>0, <3>2, DelayEnough, Zenon
    <3> HIDE DEF extra
    <3>4. PICK i \in 1..Len(Timeline) : Cap(now) = Timeline[i].cap /\ InForce(i, now)
      BY <2>0, CapOfStep, Zenon
    <3>5. /\ now \in (wake' - took')..wake' /\ took' <= wake'
          /\ Timeline[i].cap = 0 \/ size' <= Timeline[i].cap * took'
      BY <2>0, <3>1, <3>2, <3>3, <3>4
    <3>6. estimate' # NoEstimate =>
            \E x \in 0..now', k \in 1..Len(Timeline) :
              InForce(k, x) /\ (Timeline[k].cap = 0 \/ AtMost(estimate', Timeline[k].cap))
      BY <3>1 DEF UnderCaps, EstimateUnderCaps
    <3> QED
      BY <3>1, <3>4, <3>5, <3>6 DEF UnderCaps, EstimateUnderCaps, Began
  <2>2. CASE Measure
    <3> DEFINE x == Throughput(size, took)
    <3>1. /\ mainPc = "delay" /\ mainPc' = "put" /\ now' = now /\ now = wake
          /\ estimate' = Smoothed(estimate, x)
      BY <2>2 DEF Measure
    <3>2. /\ size \in Nat /\ took \in Nat /\ took <= wake /\ x \in Fraction
          /\ estimate \in Fraction \cup {NoEstimate}
      BY <3>1, ThroughputType, TimelineAssumption
         DEF Typed, TypeOK, Conserved, UnderCaps, Began
    <3>3. PICK t \in (wake - took)..wake, i \in 1..Len(Timeline) :
            InForce(i, t) /\ (Timeline[i].cap = 0 \/ size <= Timeline[i].cap * took)
      BY <3>1 DEF UnderCaps, EstimateUnderCaps
    <3> DEFINE c == Timeline[i].cap
    <3>4. c \in Nat /\ t \in 0..now
      BY <2>0, <2>8, <3>1, <3>2, <3>3
    <3>5. c # 0 => AtMost(x, c)
      BY <3>2, <3>3, <3>4 DEF Throughput, AtMost
    <3> HIDE DEF x
    <3>6. ASSUME NEW u \in 0..now, NEW k \in 1..Len(Timeline), InForce(k, u),
                 Timeline[k].cap = 0 \/ AtMost(estimate', Timeline[k].cap)
          PROVE  UnderCaps'
      BY <3>1, <3>6 DEF UnderCaps, EstimateUnderCaps, Began
    <3>7. CASE c = 0 \/ estimate = NoEstimate
      <4>1. c = 0 \/ AtMost(estimate', c)
        BY <3>1, <3>5, <3>7 DEF Smoothed
      <4> QED
        BY <3>3, <3>4, <3>6, <4>1
    <3>8. CASE c # 0 /\ estimate # NoEstimate
      <4>1. PICK u \in 0..now, k \in 1..Len(Timeline) :
              InForce(k, u) /\ (Timeline[k].cap = 0 \/ AtMost(estimate, Timeline[k].cap))
        BY <3>8 DEF UnderCaps, EstimateUnderCaps
      <4> DEFINE e == Timeline[k].cap
      <4>2. e \in Nat
        BY <2>8, <4>1
      <4>3. CASE e = 0
        BY <3>6, <4>1, <4>3
      <4>4. CASE e # 0 /\ e <= c
        <5>1. AtMost(estimate, c)
          BY <3>2, <3>4, <3>8, <4>1, <4>2, <4>4, HigherBound
        <5>2. AtMost(estimate', c)
          BY <3>1, <3>2, <3>4, <3>5, <3>8, <5>1, SmoothedBound
        <5> QED
          BY <3>3, <3>4, <3>6, <5>2
      <4>5. CASE e # 0 /\ c <= e
        <5>1. AtMost(x, e)
          BY <3>2, <3>4, <3>5, <3>8, <4>2, <4>5, HigherBound
        <5>2. AtMost(estimate', e)
          BY <3>1, <3>2, <3>8, <4>1, <4>2, <4>5, <5>1, SmoothedBound
        <5> QED
          BY <3>6, <4>1, <5>2
      <4> QED
        BY <3>4, <4>2, <4>3, <4>4, <4>5
    <3> QED
      BY <3>7, <3>8
  <2>3. CASE Fetch
    <3>1. /\ now' = now /\ estimate' = estimate /\ mainPc' = "fetch"
          /\ wake' = now + took'
      BY <2>3 DEF Fetch
    <3>2. took' \in Nat
      BY DEF Typed, TypeOK
    <3>3. took' <= wake'
      <4> DEFINE d == took'
      <4>1. d \in Nat /\ wake' = now + d
        BY <3>1, <3>2
      <4> HIDE DEF d
      <4>2. d <= wake'
        BY <2>0, <4>1
      <4> QED
        BY <4>2 DEF d
    <3> QED
      BY <3>1, <3>3 DEF UnderCaps, EstimateUnderCaps, Began
  <2>4. CASE Download \/ FetchRaises \/ Put \/ CallJoin \/ Join
    <3>1. now' = now /\ estimate' = estimate /\ mainPc' \notin {"fetch", "delay"}
      BY <2>4 DEF Download, FetchRaises, Put, CallJoin, Join
    <3> QED
      BY <2>0, <3>1, StaysUnder
  <2>5. CASE UNCHANGED <<now, mainVars>>
    BY <2>0, <2>5, StaysUnder DEF mainVars
  <2>6. CASE First \/ Played \/ InTime \/ Miss \/ WaitAgain \/ Resume \/ Over \/ UNCHANGED vars
    BY <2>5, <2>6 DEF First, Played, InTime, Miss, WaitAgain, Resume, Consume, Over, vars
  <2>7. CASE Tick
    <3>1. now' = now + 1 /\ UNCHANGED mainVars
      BY <2>7 DEF Tick
    <3> QED
      BY <2>0, <3>1, StaysUnder DEF mainVars
  <2> QED
    BY <2>1, <2>2, <2>3, <2>4, <2>6, <2>7 DEF Next
<1>3. UnderCaps => EstimateUnderCaps
  BY DEF UnderCaps
<1> QED
  BY <1>1, <1>2, <1>3, TypedKept, PTL DEF Spec

-----------------------------------------------------------------------------
(* Stalls *)

\* At time x, with p segments played, a startup delay of d and sec counted.
Accounted(x, p, d, sec) ==
  LET waited == x - d - p * Duration IN
  /\ sec <= waited
  /\ waited <= sec + (p - 1) * (Poll + Threshold)

\* What the player waits for is still to come, and what it has counted so far is
\* accounted for at the time it has last finished a segment: the end of the
\* segment it plays, or one Poll before the end of the get, or before the stall.
Waits ==
  LET p == report.played
      at(x) == Accounted(x, p, report.startup, report.seconds)
  IN
  /\ playerPc = "startup" => since = 0 /\ p = 0 /\ report.startup = 0 /\ report.seconds = 0
  /\ playerPc = "playing" => p >= 1 /\ now <= until /\ until <= now + Duration /\ at(until)
  /\ playerPc = "polling" =>
       /\ p >= 1 /\ p < SegmentCount
       /\ now <= until /\ until - Poll <= now /\ at(until - Poll)
  /\ playerPc = "stalled" => p >= 1 /\ p < SegmentCount /\ at(since - Poll)

LEMMA OneMoreTime ==
  ASSUME NEW p \in Nat, NEW a \in Nat
  PROVE  /\ (p + 1) * a = p * a + a
         /\ ((p + 1) - 1) * a = (p - 1) * a + a
         /\ p * a \in Nat /\ (p - 1) * a \in Int
<1>1. (p + 1) * a = p * a + a /\ p * a \in Nat
  BY NatProduct
<1>2. (p + 1) - 1 = p /\ (p - 1) * a = p * a - a
  OBVIOUS
<1> QED
  BY <1>1, <1>2

\* n segments and, if n < m, another one fit the time of m.
LEMMA RoomForOneMore ==
  ASSUME NEW n \in Nat, NEW m \in Nat, NEW a \in Nat, n <= m
  PROVE  n * a <= m * a /\ (n + 1 <= m => n * a + a <= m * a)
<1>1. a * n <= a * m /\ a * n = n * a /\ a * m = m * a
  BY LongerIsMore
<1>2. ASSUME n + 1 <= m PROVE n * a + a <= m * a
  <2>1. a * (n + 1) <= a * m
    BY <1>2, LongerIsMore
  <2>2. a * (n + 1) = n * a + a
    OBVIOUS
  <2> QED
    BY <1>1, <2>1, <2>2
<1> QED
  BY <1>1, <1>2

\* A segment that begins at y, after a wait from x on, of which n were counted.
LEMMA OneMoreSegment ==
  ASSUME NEW x \in Int, NEW p \in Nat, NEW d \in Nat, NEW sec \in Nat,
         NEW y \in Nat, NEW n \in Nat,
         Accounted(x, p, d, sec), n <= y - x, y - x <= n + (Poll + Threshold)
  PROVE  Accounted(y + Duration, p + 1, d, sec + n)
<1> DEFINE m == Poll + Threshold
<1>1. Duration \in Nat /\ m \in Nat
  BY TimedAssumption
<1> DEFINE a == p * Duration
           b == (p - 1) * m
<1>2. /\ (p + 1) * Duration = a + Duration /\ ((p + 1) - 1) * m = b + m
      /\ a \in Nat /\ b \in Int
  <2> HIDE DEF m
  <2> QED
    BY <1>1, OneMoreTime
<1>3. sec <= x - d - a /\ x - d - a <= sec + b
  BY DEF Accounted
<1>4. n <= y - x /\ y - x <= n + m
  OBVIOUS
<1> HIDE DEF a, b, m
<1>5. (y + Duration) - d - (a + Duration) = (x - d - a) + (y - x)
  BY <1>1, <1>2
<1>6. /\ sec + n <= (y + Duration) - d - (a + Duration)
      /\ (y + Duration) - d - (a + Duration) <= (sec + n) + (b + m)
  BY <1>1, <1>2, <1>3, <1>4, <1>5
<1> QED
  BY <1>2, <1>6 DEF Accounted, m

LEMMA WaitsKept == Spec => []Waits
<1>1. Init => Waits
  BY DEF Init, Waits
<1>2. Typed /\ Waits /\ [Next]_vars => Waits'
  <2> SUFFICES ASSUME Typed, Waits, [Next]_vars PROVE Waits'
    OBVIOUS
  <2>0. /\ now \in Nat /\ until \in Nat /\ since \in Nat /\ since <= now
        /\ report \in [played : 0..SegmentCount, startup : Nat, seconds : Nat]
        /\ Poll \in Nat /\ Threshold \in Nat /\ Duration \in Nat
        /\ report.played \in Nat /\ report.startup \in Nat /\ report.seconds \in Nat
        /\ SegmentCount \in Nat
    BY TimedAssumption DEF Typed, TypeOK, Conserved
  <2>1. ASSUME UNCHANGED <<now, playerVars>> PROVE Waits'
    BY <2>1 DEF Waits, playerVars
  <2>2. CASE Download \/ Fetch \/ FetchRaises \/ Shape \/ Measure \/ Put \/ CallJoin \/ Join
    BY <2>1, <2>2 DEF Download, Fetch, FetchRaises, Shape, Measure, Put, CallJoin, Join
  <2>3. CASE Over \/ UNCHANGED vars
    BY <2>1, <2>3 DEF Over, vars
  <2>4. ASSUME NEW r \in [played : 0..SegmentCount, startup : Nat, seconds : Nat],
               r.played = report.played, Consume(r),
               Accounted(now + Duration, r.played + 1, r.startup, r.seconds)
        PROVE  Waits'
    <3>1. /\ now' = now /\ until' = now + Duration /\ playerPc' = "playing"
          /\ report'.played = r.played + 1
          /\ report'.startup = r.startup /\ report'.seconds = r.seconds
      BY <2>4 DEF Consume
    <3>2. /\ report'.played >= 1 /\ now' <= until' /\ until' <= now' + Duration
      BY <2>0, <2>4, <3>1
    <3> QED
      BY <2>4, <3>1, <3>2 DEF Waits
  <2>5. CASE First
    <3> DEFINE r == [report EXCEPT !.startup = now - since]
    <3>1. Consume(r) /\ since = 0 /\ report.played = 0 /\ report.seconds = 0
      BY <2>5 DEF First, Waits
    <3>2. /\ r \in [played : 0..SegmentCount, startup : Nat, seconds : Nat]
          /\ r.played = 0 /\ r.startup = now /\ r.seconds = 0
      BY <2>0, <3>1
    <3> HIDE DEF r
    <3>3. (0 + 1) * Duration = Duration /\ ((0 + 1) - 1) * (Poll + Threshold) = 0
      BY <2>0
    <3>4. (now + Duration) - now - Duration = 0
      BY <2>0
    <3>5. Accounted(now + Duration, 0 + 1, now, 0)
      BY <3>3, <3>4 DEF Accounted
    <3> QED
      BY <2>4, <3>1, <3>2, <3>5
  <2>6. CASE Played
    <3>1. /\ playerPc = "playing" /\ now = until /\ now' = now /\ report' = report
          /\ report.played >= 1
          /\ Accounted(until, report.played, report.startup, report.seconds)
      BY <2>6 DEF Played, Waits
    <3>2. CASE report.played < SegmentCount
      <4>1. playerPc' = "polling" /\ until' = now + Poll
        BY <2>6, <3>2 DEF Played
      <4>2. until' - Poll = until /\ now' <= until' /\ until' - Poll <= now'
        BY <2>0, <3>1, <4>1
      <4> QED
        BY <3>1, <3>2, <4>1, <4>2 DEF Waits
    <3>3. CASE ~(report.played < SegmentCount)
      BY <2>6, <3>3 DEF Played, Waits
    <3> QED
      BY <3>2, <3>3
  <2>7. CASE InTime
    <3>1. /\ Consume(report) /\ now <= until /\ until - Poll <= now
          /\ Accounted(until - Poll, report.played, report.startup, report.seconds)
      BY <2>7 DEF InTime, Waits
    <3>2. /\ until - Poll \in Int /\ 0 <= now - (until - Poll)
          /\ now - (until - Poll) <= 0 + (Poll + Threshold)
      BY <2>0, <3>1
    <3>3. Accounted(now + Duration, report.played + 1, report.startup, report.seconds + 0)
      BY <2>0, <3>1, <3>2, OneMoreSegment
    <3> QED
      BY <2>0, <2>4, <3>1, <3>3
  <2>8. CASE Miss
    <3>1. /\ playerPc = "polling" /\ now = until /\ since' = now /\ report' = report
          /\ playerPc' = "stalled"
          /\ report.played >= 1 /\ report.played < SegmentCount
          /\ Accounted(until - Poll, report.played, report.startup, report.seconds)
      BY <2>8 DEF Miss, Waits
    <3> QED
      BY <3>1 DEF Waits
  <2>9. CASE WaitAgain
    BY <2>9 DEF WaitAgain, Waits
  <2>10. CASE Resume
    <3> DEFINE x == since - Poll
    <3>1. Accounted(x, report.played, report.startup, report.seconds)
      BY <2>10 DEF Resume, Waits
    <3>2. x \in Int /\ now - x = (now - since) + Poll /\ now - since \in Nat
      BY <2>0
    <3> HIDE DEF x
    <3>3. CASE now - since > Threshold
      <4> DEFINE n == now - since
                 r == [report EXCEPT !.seconds = report.seconds + n]
      <4>1. Consume(r)
        BY <2>10, <3>3 DEF Resume
      <4>2. n \in Nat /\ n <= now - x /\ now - x <= n + (Poll + Threshold)
        BY <2>0, <3>2
      <4>3. /\ r \in [played : 0..SegmentCount, startup : Nat, seconds : Nat]
            /\ r.played = report.played /\ r.startup = report.startup
            /\ r.seconds = report.seconds + n
        BY <2>0, <4>2
      <4> HIDE DEF n, r
      <4>4. Accounted(now + Duration, report.played + 1, report.startup, report.seconds + n)
        BY <2>0, <3>1, <3>2, <4>2, OneMoreSegment
      <4> QED
        BY <2>4, <4>1, <4>3, <4>4
    <3>4. CASE ~(now - since > Threshold)
      <4>1. Consume(report)
        BY <2>10, <3>4 DEF Resume
      <4>2. 0 <= now - x /\ now - x <= 0 + (Poll + Threshold)
        BY <2>0, <3>2, <3>4
      <4>3. Accounted(now + Duration, report.played + 1, report.startup, report.seconds + 0)
        BY <2>0, <3>1, <3>2, <4>2, OneMoreSegment
      <4> QED
        BY <2>0, <2>4, <4>1, <4>3
    <3> QED
      BY <3>3, <3>4
  <2>11. CASE Tick
    <3>1. now' = now + 1 /\ UNCHANGED playerVars /\ ~PlayerDue
      BY <2>11 DEF Tick
    <3>2. playerPc \in {"playing", "polling"} => now' <= until' /\ until' = until
      BY <2>0, <3>1 DEF PlayerDue, Waits, playerVars
    <3>3. playerPc = "playing" => until <= now' + Duration
      BY <2>0, <3>1 DEF Waits
    <3>4. playerPc = "polling" => until - Poll <= now'
      BY <2>0, <3>1 DEF Waits
    <3> QED
      BY <3>1, <3>2, <3>3, <3>4 DEF Waits, playerVars
  <2> QED
    BY <2>2, <2>3, <2>5, <2>6, <2>7, <2>8, <2>9, <2>10, <2>11 DEF Next
<1> QED
  BY <1>1, <1>2, TypedKept, PTL DEF Spec

\* However the downloads and the waits fall, the report counts all of the stalled
\* time except for a bounded rest of each segment, and nothing twice
\* (playback_controller.py:53-70).
THEOREM StallsCounted == Spec => []StallsAccounted
<1>1. Waits => StallsAccounted
  BY DEF Waits, Accounted, StallsAccounted
<1> QED
  BY <1>1, WaitsKept, PTL

-----------------------------------------------------------------------------
(* The join *)

\* While the main thread waits for it, the playback thread has something to do,
\* and what is left to play ends before the timeout comes; a thread that has gone
\* has played everything or has just seen a wait through.
Fits ==
  LET rest == Len(queue) * Duration IN
  /\ playerPc \in {"startup", "stalled"} => deadline = since + WaitLimit
  /\ playerPc \in {"startup", "polling", "stalled"} => report.played < SegmentCount
  /\ playerPc = "exited" => report.played = SegmentCount
  /\ playerPc = "gaveUp" => report.played < SegmentCount /\ until - since >= WaitLimit
  /\ mainPc = "joining" /\ playerPc = "playing" => until + rest < wake
  /\ mainPc = "joining" /\ playerPc \in {"startup", "polling", "stalled"} =>
       now + rest < wake
  /\ mainPc = "done" => PlayerGone

LEMMA FitsKept == JoinCovers => (Spec => []Fits)
<1> SUFFICES ASSUME JoinCovers PROVE Spec => []Fits
  OBVIOUS
<1>1. Init => Fits
  BY TimedAssumption DEF Init, Fits
<1>2. Typed /\ Typed' /\ Waits /\ Waits' /\ Fits /\ [Next]_vars => Fits'
  <2> SUFFICES ASSUME Typed, Typed', Waits, Waits', Fits, [Next]_vars PROVE Fits'
    OBVIOUS
  <2> DEFINE rest == Len(queue) * Duration
  <2>0. /\ now \in Nat /\ until \in Nat /\ wake \in Nat /\ wake' \in Nat
        /\ report \in [played : 0..SegmentCount, startup : Nat, seconds : Nat]
        /\ report.played \in Nat /\ report.played <= SegmentCount
        /\ playerPc \in {"startup", "playing", "polling", "stalled", "exited", "gaveUp"}
        /\ queue \in Seq(1..SegmentCount) /\ Len(queue) \in Nat
        /\ Duration \in Nat /\ SegmentCount \in Nat /\ JoinLimit \in Nat
        /\ rest \in Nat
    <3>1. /\ queue \in Seq(1..SegmentCount)
          /\ SegmentCount \in Nat /\ Duration \in Nat /\ JoinLimit \in Nat
      BY TimedAssumption DEF Typed, TypeOK
    <3>2. Len(queue) \in Nat
      BY <3>1, LenProperties
    <3>3. rest \in Nat
      BY <3>1, <3>2, NatProduct
    <3>4. report \in [played : 0..SegmentCount, startup : Nat, seconds : Nat]
      BY DEF Typed, TypeOK
    <3>5. report.played \in Nat /\ report.played <= SegmentCount
      BY <3>1, <3>4
    <3>6. /\ now \in Nat /\ until \in Nat /\ wake \in Nat /\ wake' \in Nat
          /\ playerPc \in {"startup", "playing", "polling", "stalled", "exited", "gaveUp"}
      BY DEF Typed, TypeOK
    <3> HIDE DEF rest
    <3> QED
      BY <3>1, <3>2, <3>3, <3>4, <3>5, <3>6
  <2>1. CASE Download \/ Fetch \/ FetchRaises \/ Shape \/ Measure \/ Put
    <3>1. /\ mainPc' \notin {"joining", "done"}
          /\ UNCHANGED playerVars
      BY <2>1 DEF Download, Fetch, FetchRaises, Shape, Measure, Put
    <3> QED
      BY <3>1 DEF Fits, playerVars
  <2>2. CASE CallJoin
    <3>1. /\ mainPc' = "joining" /\ wake' = now + JoinLimit
          /\ UNCHANGED <<now, queue, playerVars>>
      BY <2>2 DEF CallJoin
    <3>2. report.played + Len(queue) = SegmentCount
      BY <2>2 DEF CallJoin, Typed, Conserved
    <3> DEFINE left == IF BufferSegments < SegmentCount THEN BufferSegments + 1
                                                       ELSE SegmentCount
               all == left * Duration
    <3>3. left \in Nat /\ all \in Nat /\ all < JoinLimit
      <4>1. BufferSegments \in Nat
        BY TimedAssumption
      <4>2. left \in Nat
        BY <2>0, <4>1
      <4>3. JoinLimit > all
        BY Zenon DEF JoinCovers
      <4> HIDE DEF left
      <4>4. all \in Nat
        BY <2>0, <4>2, NatProduct
      <4> QED
        BY <2>0, <4>2, <4>3, <4>4
    <3>9. Len(queue) <= BufferSegments /\ BufferSegments \in Nat
      BY TimedAssumption DEF Typed, TypeOK
    <3>4. CASE playerPc = "playing"
      <4>1. until <= now + Duration /\ report.played >= 1
        BY <3>4 DEF Waits
      <4>2. Len(queue) + 1 <= left
        BY <2>0, <3>2, <3>9, <4>1
      <4>3. rest + Duration <= all
        <5> DEFINE n == Len(queue)
        <5>1. n \in Nat /\ n + 1 <= left /\ n <= left
          BY <2>0, <3>3, <4>2
        <5> HIDE DEF n, left
        <5>2. n * Duration + Duration <= left * Duration
          BY <2>0, <3>3, <5>1, RoomForOneMore
        <5> QED
          BY <5>2 DEF n
      <4> HIDE DEF left, all, rest
      <4>4. until + rest < wake'
        BY <2>0, <3>1, <3>3, <4>1, <4>3
      <4> QED
        BY <3>1, <3>4, <4>4 DEF Fits, playerVars, rest
    <3>5. CASE playerPc # "playing"
      <4>1. rest <= all
        <5>1. Len(queue) <= left
          BY <2>0, <3>2, <3>9
        <5> HIDE DEF left
        <5> QED
          BY <2>0, <3>3, <5>1, RoomForOneMore
      <4> HIDE DEF left, all, rest
      <4>2. now + rest < wake'
        BY <2>0, <3>1, <3>3, <4>1
      <4> QED
        BY <3>1, <3>5, <4>2 DEF Fits, playerVars, rest
    <3> QED
      BY <3>4, <3>5
  <2>3. CASE Join
    <3>0. CASE mainPc = "unwinding"
      BY <2>3, <3>0 DEF Join, Fits, playerVars, PlayerGone
    <3>1. /\ mainPc = "joining" \/ mainPc = "unwinding"
          /\ mainPc = "joining" => mainPc' = "done"
          /\ PlayerGone \/ now = wake
          /\ UNCHANGED playerVars
      BY <2>3 DEF Join
    <3>2. playerPc = "playing" => now <= until
      BY DEF Waits
    <3>3. ASSUME mainPc = "joining", now = wake PROVE PlayerGone
      <4>1. /\ playerPc = "playing" => until + rest < wake
            /\ playerPc \in {"startup", "polling", "stalled"} => now + rest < wake
        BY <3>3 DEF Fits
      <4> HIDE DEF rest
      <4> QED
        BY <2>0, <3>2, <3>3, <4>1 DEF PlayerGone
    <3> QED
      BY <3>0, <3>1, <3>3 DEF Fits, playerVars, PlayerGone
  <2>4. CASE Over \/ UNCHANGED vars
    BY <2>4 DEF Over, vars, mainVars, playerVars, Fits, PlayerGone
  <2>5. ASSUME NEW r, r.played = report.played,
               r \in [played : 0..SegmentCount, startup : Nat, seconds : Nat],
               playerPc \in {"startup", "polling", "stalled"}, Consume(r)
        PROVE  Fits'
    <3>1. /\ queue # << >> /\ queue' = Tail(queue)
          /\ until' = now + Duration /\ playerPc' = "playing"
          /\ mainPc' = mainPc /\ wake' = wake
      BY <2>5 DEF Consume, mainVars
    <3>2. Len(queue') = Len(queue) - 1 /\ Len(queue') \in Nat
      BY <2>0, <3>1, HeadTailProperties, EmptySeq, LenProperties
    <3> DEFINE less == Len(queue') * Duration
    <3>3. rest = less + Duration /\ less \in Nat
      <4>1. Len(queue) = Len(queue') + 1
        BY <2>0, <3>2
      <4> QED
        BY <2>0, <3>2, <4>1, OneMoreTime
    <3>4. mainPc = "joining" => now + rest < wake
      BY <2>5 DEF Fits
    <3>5. mainPc = "joining" => until' + less < wake
      <4> HIDE DEF rest, less
      <4> QED
        BY <2>0, <3>1, <3>3, <3>4
    <3>6. mainPc # "done"
      BY <2>5 DEF Fits, PlayerGone
    <3> QED
      BY <3>1, <3>5, <3>6 DEF Fits
  <2>6. CASE First
    <3>1. /\ Consume([report EXCEPT !.startup = now - since])
          /\ playerPc = "startup" /\ since = 0
      BY <2>6 DEF First, Waits
    <3>2. now - since \in Nat
      BY <2>0, <3>1
    <3> QED
      BY <2>0, <2>5, <3>1, <3>2
  <2>7. CASE InTime
    BY <2>0, <2>5, <2>7 DEF InTime
  <2>8. CASE Resume
    <3>1. playerPc = "stalled" /\ now - since \in Nat
      <4>1. playerPc = "stalled"
        BY <2>8, Zenon DEF Resume
      <4>2. since \in Nat /\ since <= now
        BY DEF Typed, TypeOK, Conserved
      <4> QED
        BY <2>0, <4>1, <4>2
    <3>2. PICK n \in Nat : Consume([report EXCEPT !.seconds = n])
      BY <2>0, <2>8, <3>1, ResumeConsumes
    <3> QED
      BY <2>0, <2>5, <3>1, <3>2
  <2>9. CASE Played
    <3>1. /\ playerPc = "playing" /\ now = until
          /\ UNCHANGED <<now, mainPc, wake, queue, deadline, report>>
          /\ IF report.played < SegmentCount
             THEN playerPc' = "polling"
             ELSE playerPc' = "exited"
      BY <2>9 DEF Played, mainVars
    <3>2. ~(report.played < SegmentCount) => report.played = SegmentCount
      BY <2>0
    <3> QED
      BY <3>1, <3>2 DEF Fits, PlayerGone
  <2>10. CASE Miss
    <3>1. /\ playerPc = "polling" /\ playerPc' = "stalled"
          /\ since' = now /\ deadline' = now + WaitLimit
          /\ UNCHANGED <<now, mainPc, wake, queue, report>>
      BY <2>10 DEF Miss, mainVars
    <3> QED
      BY <3>1 DEF Fits, PlayerGone
  <2>11. CASE WaitAgain
    <3>1. /\ playerPc \in {"startup", "stalled"} /\ now = until
          /\ UNCHANGED <<now, mainPc, wake, queue, since, deadline, report>>
          /\ \/ playerPc' = playerPc
             \/ playerPc' = "gaveUp" /\ ~(now < deadline) /\ until' = until
      BY <2>11 DEF WaitAgain, mainVars
    <3>2. deadline = since + WaitLimit /\ report.played < SegmentCount
      BY <3>1 DEF Fits
    <3>3. ~(now < deadline) => until - since >= WaitLimit
      <4>1. since \in Nat /\ WaitLimit \in Nat
        BY TimedAssumption DEF Typed, TypeOK
      <4> QED
        BY <2>0, <3>1, <3>2, <4>1
    <3> QED
      BY <3>1, <3>2, <3>3 DEF Fits, PlayerGone
  <2>12. CASE Tick
    <3>1. /\ ~PlayerDue /\ now' = now + 1
          /\ UNCHANGED <<mainPc, wake, queue, playerVars>>
      BY <2>12 DEF Tick, mainVars
    <3>2. ASSUME mainPc = "joining", playerPc \in {"startup", "polling", "stalled"}
          PROVE  FALSE
      <4>1. report.played + Len(queue) = SegmentCount /\ report.played < SegmentCount
        BY <3>2 DEF Fits, Typed, Conserved
      <4>2. Len(queue) # 0
        BY <2>0, <4>1
      <4>3. queue # << >>
        BY <2>0, <4>2, EmptySeq
      <4> QED
        BY <3>1, <3>2, <4>3 DEF PlayerDue
    <3> QED
      BY <3>1, <3>2 DEF Fits, playerVars, PlayerGone
  <2> QED
    BY <2>1, <2>2, <2>3, <2>4, <2>6, <2>7, <2>8, <2>9, <2>10, <2>11, <2>12 DEF Next
<1> QED
  BY <1>1, <1>2, TypedKept, WaitsKept, PTL DEF Spec

\* If the timeout of the join exceeds what there can be left to play when it
\* begins, it never cuts playback short, for any number of segments, any buffer and
\* any sequence of downloads (client.py:183, playback_controller.py:54-62, 75-81).
THEOREM JoinLongEnough == JoinCovers => (Spec => []JoinSuffices)
<1>1. Fits /\ Typed => JoinSuffices
  BY DEF Fits, JoinSuffices, PlayerGone
<1> QED
  BY <1>1, FitsKept, TypedKept, PTL
=============================================================================
