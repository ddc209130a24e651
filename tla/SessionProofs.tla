----------------------------- MODULE SessionProofs -----------------------------
(***************************************************************************)
(* Theorems about Session, for any number of segments, any ladder, any     *)
(* size of the buffer and any length of the stalls.  What is known of the  *)
(* buffer comes from BufferManagerProofs, once the session is shown to use *)
(* it as BufferManager specifies.                                          *)
(***************************************************************************)
EXTENDS Session, SumsProofs, SequenceTheorems, FiniteSetTheorems, TLAPS

-----------------------------------------------------------------------------
(* run_session *)

Before == {"connecting", "opening", "starting"}
Turn   == {"download", "switch", "put", "putting", "record"}
After  == {"rebuffers", "qoe", "summary", "done"}

SegmentRows == [segment_id : SegmentIds, index : Indexes]
SwitchRows  == [segment_id : SegmentIds, from : Indexes, to : Indexes]

MainTypes ==
  /\ pc \in Before \cup Turn \cup After \cup {"select", "joining", "unwinding", "raised"}
  /\ seg \in 0..SegmentCount /\ index \in Indexes /\ current \in Indexes
  /\ nSwitches \in Nat /\ nSwitches <= seg
  /\ qualities \in Seq(Indexes)
  /\ socket \in {"closed", "connected"}
  /\ rows = [collector |-> rows.collector, segments |-> rows.segments,
             switches |-> rows.switches, rebuffers |-> rows.rebuffers, qoe |-> rows.qoe]
  /\ rows.segments \in Seq(SegmentRows)
  /\ rows.switches \in Seq(SwitchRows)

\* How far the loop, the buffer and the rows are.
Progress ==
  /\ pc \in Turn => seg # 0
  /\ pc = "download" => nSwitches < seg
  /\ Len(qualities) <= SegmentCount
  /\ pc \in Before => seg = 0
  /\ pc \in Before \cup {"select", "joining", "record"} => Len(qualities) = seg
  /\ pc \in {"download", "switch", "put", "putting"} => Len(qualities) = seg - 1
  /\ pc \in Before \cup {"select"} => Len(rows.segments) = seg
  /\ pc \in Turn => Len(rows.segments) = seg - 1
  /\ pc \in After \cup {"joining"} => Len(qualities) = SegmentCount
  /\ pc \in After => socket = "closed"
  /\ pc = "done" => rows.collector = "closed"

\* What only the thread of run_session writes.
MainInv == MainTypes /\ Progress

LEMMA MainInitially == Init => MainInv
<1> SUFFICES ASSUME Init PROVE MainInv
  OBVIOUS
<1>1. << >> \in Seq(Indexes) /\ << >> \in Seq(SegmentRows) /\ << >> \in Seq(SwitchRows)
      /\ Len(<< >>) = 0
  BY EmptySeq
<1>2. SegmentCount \in Nat /\ 0 \in Indexes
  BY SessionAssumption
<1> QED
  BY <1>1, <1>2 DEF Init, MainInv, MainTypes, Progress, Before, Turn, After

\* Only the rows differ, by one more of them.
LEMMA MainKept == MainInv /\ [Next]_vars => MainInv'
<1> SUFFICES ASSUME MainInv, [Next]_vars PROVE MainInv'
  OBVIOUS
<1>0. SegmentCount \in Nat /\ Len(qualities) \in Nat /\ Len(rows.segments) \in Nat
      /\ SegmentIds = 1..SegmentCount
  BY SessionAssumption, LenProperties DEF MainInv, MainTypes, SegmentIds
<1> USE DEF MainInv, MainTypes, Progress, Before, Turn, After
<1>1. CASE UNCHANGED mainVars
  BY <1>1 DEF mainVars
<1>2. CASE Connect
  BY <1>0, <1>2 DEF Connect
<1>3. CASE OpenCollector
  BY <1>0, <1>3 DEF OpenCollector
<1>4. CASE StartPlayback
  BY <1>0, <1>4 DEF StartPlayback
<1>5. ASSUME NEW choice \in Indexes, Select(choice) PROVE MainInv'
  BY <1>0, <1>5 DEF Select
<1>6. CASE Downloaded
  BY <1>0, <1>6 DEF Downloaded
<1>7. CASE DownloadRaises
  BY <1>0, <1>7 DEF DownloadRaises
<1>8. CASE RecordSwitch
  <2> DEFINE row == [segment_id |-> seg, from |-> current, to |-> index]
  <2>1. row \in SwitchRows
    BY <1>0, <1>8 DEF RecordSwitch, SwitchRows
  <2> HIDE DEF row
  <2>2. Append(rows.switches, row) \in Seq(SwitchRows)
    BY <2>1, AppendProperties
  <2>3. /\ pc = "switch" /\ pc' = "put" /\ current' = index
        /\ rows' = [rows EXCEPT !.switches = Append(@, row)]
        /\ UNCHANGED <<seg, index, nSwitches, qualities, qoe, summary, socket>>
    BY <1>8 DEF RecordSwitch, row
  <2> QED
    BY <1>0, <2>2, <2>3
<1>9. CASE Put
  BY <1>0, <1>9 DEF Put
<1>10. CASE PutBlocks
  BY <1>1, <1>10 DEF PutBlocks
<1>11. CASE PutReturns
  <2>1. /\ pc = "putting" /\ pc' = "record" /\ qualities' = Append(qualities, index)
        /\ UNCHANGED <<seg, index, current, nSwitches, qoe, summary, socket, rows>>
    BY <1>11 DEF PutReturns
  <2>2. qualities' \in Seq(Indexes) /\ Len(qualities') = Len(qualities) + 1
    BY <2>1, AppendProperties
  <2> QED
    BY <1>0, <2>1, <2>2
<1>12. CASE RecordSegment
  <2> DEFINE row == [segment_id |-> seg, index |-> index]
  <2>1. row \in SegmentRows
    BY <1>0, <1>12 DEF RecordSegment, SegmentRows
  <2> HIDE DEF row
  <2>2. /\ Append(rows.segments, row) \in Seq(SegmentRows)
        /\ Len(Append(rows.segments, row)) = Len(rows.segments) + 1
    BY <2>1, AppendProperties
  <2>3. /\ pc = "record" /\ pc' = "select"
        /\ rows' = [rows EXCEPT !.segments = Append(@, row)]
        /\ UNCHANGED <<seg, index, current, nSwitches, qualities, qoe, summary, socket>>
    BY <1>12 DEF RecordSegment, row
  <2>4. /\ rows' = [collector |-> rows'.collector, segments |-> rows'.segments,
                    switches |-> rows'.switches, rebuffers |-> rows'.rebuffers,
                    qoe |-> rows'.qoe]
        /\ rows'.segments = Append(rows.segments, row) /\ rows'.switches = rows.switches
    BY <2>3
  <2>5. Len(rows.segments) + 1 = seg /\ Len(qualities) = seg
    BY <1>0, <2>3
  <2> HIDE DEF MainInv, Progress
  <2>6. MainTypes'
    BY <2>2, <2>3, <2>4 DEF MainInv
  <2>7. Len(qualities) <= SegmentCount
    BY DEF MainInv, Progress
  <2> QED
    BY <2>2, <2>3, <2>4, <2>5, <2>6, <2>7 DEF MainInv, Progress
<1>13. CASE LoopEnds
  BY <1>0, <1>13 DEF LoopEnds
<1>14. CASE Join
  BY <1>0, <1>14 DEF Join
<1>15. CASE RecordRebuffer
  BY <1>0, <1>15 DEF RecordRebuffer
<1>16. CASE ComputeQoe
  BY <1>0, <1>16 DEF ComputeQoe
<1>17. CASE RecordQoe
  BY <1>0, <1>17 DEF RecordQoe
<1>18. CASE Summarise
  BY <1>0, <1>18 DEF Summarise
<1>19. CASE DatabaseRaises
  BY <1>0, <1>19 DEF DatabaseRaises
<1>20. CASE PlayerStep \/ GiveUp
  BY <1>1, <1>20 DEF PlayerStep, GiveUp, Poll, PollWaits, PollTakes, PollMisses,
     StallIgnored, StallCounted, StallNoted, Played
<1>21. CASE Finished \/ UNCHANGED vars
  BY <1>1, <1>21 DEF Finished, vars
<1> HIDE DEF MainInv, MainTypes, Progress, Before, Turn, After
<1> QED
  BY <1>2, <1>3, <1>4, <1>5, <1>6, <1>7, <1>8, <1>9, <1>10, <1>11, <1>12, <1>13, <1>14,
     <1>15, <1>16, <1>17, <1>18, <1>19, <1>20, <1>21 DEF Next, MainStep

LEMMA MainAlways == Spec => []MainInv
BY MainInitially, MainKept, PTL DEF Spec

-----------------------------------------------------------------------------
(* The buffer *)

B == INSTANCE BufferManagerProofs WITH
       Producers  <- {Main},
       Consumers  <- {Player},
       Segments   <- SegmentIds,
       NoSegment  <- 0,
       Duration   <- [s \in SegmentIds |-> 1],
       MaxSeconds <- BufferSegments,
       MaxDropped <- 0,
       pc         <- bufferPc

\* The parameters of the session's buffer are as BufferManager assumes.
LEMMA Parameters == B!BufferAssumption
<1>1. B!IsFiniteSet({Main}) /\ B!IsFiniteSet({Player})
  BY FS_Singleton DEF B!IsFiniteSet, IsFiniteSet
<1>2. {Main} \cap {Player} = {}
  BY DEF Main, Player
<1>3. 0 \notin SegmentIds
  BY SessionAssumption DEF SegmentIds
<1> QED
  BY <1>1, <1>2, <1>3, SessionAssumption DEF B!BufferAssumption

LEMMA SameBuffer ==
  /\ Buffer!Init <=> B!Init
  /\ Buffer!vars = B!vars
  /\ Buffer!Next <=> B!Next
  /\ Buffer!TypeOK <=> B!TypeOK
<1>1. Buffer!Init <=> B!Init
  BY DEF Buffer!Init, B!Init, Buffer!Threads, B!Threads
<1>2. Buffer!vars = B!vars
  BY DEF Buffer!vars, B!vars
<1>3. Buffer!Next <=> B!Next
  BY DEF Buffer!Next, B!Next, Buffer!PutCall, B!PutCall, Buffer!PutAdmit, B!PutAdmit,
         Buffer!PutWait, B!PutWait, Buffer!PutExpire, B!PutExpire,
         Buffer!GetCall, B!GetCall, Buffer!GetTake, B!GetTake,
         Buffer!GetWait, B!GetWait, Buffer!GetNone, B!GetNone,
         Buffer!CanLock, B!CanLock, Buffer!Fits, B!Fits, Buffer!Leave, B!Leave,
         Buffer!Notify, B!Notify, Buffer!Waiters, B!Waiters,
         Buffer!PopLeft, B!PopLeft, Buffer!LevelAfter, B!LevelAfter
<1>4. Buffer!TypeOK <=> B!TypeOK
  BY DEF Buffer!TypeOK, B!TypeOK, Buffer!Threads, B!Threads
<1> QED
  BY <1>1, <1>2, <1>3, <1>4

\* Every step of the session is a step of its buffer or leaves it alone.
LEMMA StepOfBuffer == MainInv /\ [Next]_vars => [Buffer!Next]_Buffer!vars
<1> SUFFICES ASSUME MainInv, [Next]_vars PROVE [Buffer!Next]_Buffer!vars
  OBVIOUS
<1>1. CASE UNCHANGED bufferVars
  BY <1>1 DEF bufferVars, Buffer!vars
<1>2. CASE Put
  <2>1. seg \in SegmentIds
    BY <1>2 DEF Put, MainInv, MainTypes, Progress, Turn, SegmentIds
  <2> QED
    BY <1>2, <2>1 DEF Put, Buffer!Next
<1>3. CASE PutBlocks \/ PutReturns
  BY <1>3 DEF PutBlocks, PutReturns, Buffer!Next
<1>4. CASE Poll \/ PollWaits \/ PollTakes \/ PollMisses
  BY <1>4 DEF Poll, PollWaits, PollTakes, PollMisses, Buffer!Next
<1>5. CASE \/ Connect \/ OpenCollector \/ StartPlayback \/ Downloaded \/ DownloadRaises
           \/ \E choice \in Indexes : Select(choice)
  BY <1>1, <1>5 DEF Connect, OpenCollector, StartPlayback, Downloaded, DownloadRaises, Select
<1>6. CASE RecordSwitch \/ RecordSegment \/ LoopEnds \/ Join \/ RecordRebuffer
  BY <1>1, <1>6 DEF RecordSwitch, RecordSegment, LoopEnds, Join, RecordRebuffer
<1>7. CASE ComputeQoe \/ RecordQoe \/ Summarise \/ DatabaseRaises
  BY <1>1, <1>7 DEF ComputeQoe, RecordQoe, Summarise, DatabaseRaises
<1>8. CASE \/ StallIgnored \/ StallNoted \/ Played \/ GiveUp
           \/ \E length \in 1..MaxStall : StallCounted(length)
  BY <1>1, <1>8 DEF StallIgnored, StallCounted, StallNoted, Played, GiveUp
<1>9. CASE Finished \/ UNCHANGED vars
  BY <1>1, <1>9 DEF Finished, vars
<1> QED
  BY <1>2, <1>3, <1>4, <1>5, <1>6, <1>7, <1>8, <1>9 DEF Next, MainStep, PlayerStep

\* The session uses its buffer as BufferManager specifies, so everything proved of
\* the buffer holds in it (client.py:145, playback_controller.py:49-62).
THEOREM UsesBuffer == Spec => Buffer!Spec
<1>1. Init => Buffer!Init
  BY DEF Init
<1>2. MainInv /\ [Next]_vars => [Buffer!Next]_Buffer!vars
  BY StepOfBuffer
<1> QED
  BY <1>1, <1>2, MainAlways, PTL DEF Spec, Buffer!Spec

LEMMA BufferTyped == Spec => []Buffer!TypeOK
<1>1. B!Spec => []B!TypeOK
  BY Parameters, B!TypeCorrect
<1>2. Buffer!Init => B!Init
  BY SameBuffer
<1>3. [Buffer!Next]_Buffer!vars => [B!Next]_B!vars
  BY SameBuffer DEF Buffer!vars, B!vars
<1>4. B!TypeOK => Buffer!TypeOK
  BY SameBuffer
<1> QED
  BY <1>1, <1>2, <1>3, <1>4, UsesBuffer, PTL DEF Buffer!Spec, B!Spec

-----------------------------------------------------------------------------
(* The switches *)

Changes == {k \in 1..Len(rows.segments) : IndexOf(k) # IndexOf(k-1)}
Known   == {rows.switches[j].segment_id : j \in 1..Len(rows.switches)}

\* The segment after those recorded, if its quality differs from the last one's.
Pending ==
  IF index # IndexOf(Len(rows.segments)) THEN {Len(rows.segments) + 1} ELSE {}

\* The switches are those explained, and exactly those while the loop runs; the
\* one under way has not been recorded before "put".
SwitchInv ==
  /\ SwitchesExplained
  /\ rows.switches # << >> => rows.switches[Len(rows.switches)].to = current
  /\ pc \in Before \cup {"select", "download", "switch"} =>
       Known = Changes /\ current = IndexOf(Len(rows.segments))
  /\ pc = "switch" => index # current
  /\ pc \in {"put", "putting", "record"} =>
       Known = Changes \cup Pending /\ current = index

LEMMA SwitchInitially == Init => SwitchInv
<1> SUFFICES ASSUME Init PROVE SwitchInv
  OBVIOUS
<1>1. /\ rows.segments = << >> /\ rows.switches = << >> /\ Len(<< >>) = 0
      /\ current = 0 /\ pc = "connecting"
  BY EmptySeq DEF Init
<1>2. Changes = {} /\ Known = {} /\ IndexOf(0) = 0
  BY <1>1 DEF Changes, Known, IndexOf
<1>3. Cardinality({}) = 0
  BY FS_EmptySet
<1>4. SwitchesExplained
  BY <1>1, <1>2, <1>3 DEF SwitchesExplained, Changes, Known
<1> QED
  BY <1>1, <1>2, <1>4 DEF SwitchInv

\* Steps that add neither a segment nor a switch.
LEMMA SwitchSame ==
  ASSUME SwitchInv, rows'.segments = rows.segments, rows'.switches = rows.switches,
         current' = current
  PROVE  /\ SwitchesExplained' /\ Known' = Known /\ Changes' = Changes
         /\ IndexOf(Len(rows.segments))' = IndexOf(Len(rows.segments))
         /\ rows'.switches # << >> => rows'.switches[Len(rows'.switches)].to = current'
BY DEF SwitchInv, SwitchesExplained, Known, Changes, IndexOf

\* record_switch adds the segment under way, which has not been recorded.
LEMMA SwitchRecorded ==
  ASSUME MainInv, SwitchInv, RecordSwitch
  PROVE  SwitchInv'
<1> DEFINE w == rows.switches
           m == Len(w)
           n == Len(rows.segments)
           row == [segment_id |-> seg, from |-> current, to |-> index]
<1>1. /\ pc = "switch" /\ pc' = "put" /\ current' = index /\ index' = index
      /\ rows'.segments = rows.segments /\ rows'.switches = Append(w, row)
      /\ seg' = seg
  BY DEF RecordSwitch, MainInv, MainTypes
<1>2. row.segment_id = seg /\ row.from = current /\ row.to = index
  OBVIOUS
<1>3. row \in SwitchRows /\ w \in Seq(SwitchRows)
  BY <1>1, SessionAssumption DEF SwitchRows, MainInv, MainTypes, Progress, Turn, SegmentIds
<1> HIDE DEF row
<1>4. /\ m \in Nat /\ n \in Nat /\ n + 1 = seg
  BY <1>1, <1>3, SessionAssumption, LenProperties DEF MainInv, MainTypes, Progress, Turn
<1>5. /\ Len(rows'.switches) = m + 1
      /\ \A j \in 1..m : rows'.switches[j] = w[j]
      /\ rows'.switches[m + 1] = row
  BY <1>1, <1>3, AppendProperties
<1>6. Known = Changes /\ current = IndexOf(n) /\ index # current /\ SwitchesExplained
  BY <1>1 DEF SwitchInv, Before
<1>7. Known' = Known \cup {seg}
  <2>1. \A j \in 1..(m + 1) : j \in 1..m \/ j = m + 1
    BY <1>4
  <2>2. 1..m \subseteq 1..(m + 1) /\ m + 1 \in 1..(m + 1)
    BY <1>4
  <2> QED
    BY <1>2, <1>5, <2>1, <2>2 DEF Known
<1>8. Changes' = Changes /\ IndexOf(n)' = IndexOf(n) /\ Pending' = {seg}
  BY <1>1, <1>4, <1>6 DEF Changes, IndexOf, Pending
<1>9. IsFiniteSet(Known) /\ seg \notin Known
  <2>1. Known \subseteq 1..n
    BY <1>6 DEF Changes
  <2>2. IsFiniteSet(1..n)
    BY <1>4, FS_Interval
  <2>3. seg \notin 1..n
    BY <1>4
  <2> QED
    BY <2>1, <2>2, <2>3, FS_Subset
<1>10. Len(rows'.switches) = Cardinality(Known')
  <2>1. Cardinality(Known) = m
    BY <1>6 DEF SwitchesExplained, Known
  <2>2. Cardinality(Known \cup {seg}) = Cardinality(Known) + 1
    BY <1>9, FS_AddElement
  <2> QED
    BY <1>5, <1>7, <2>1, <2>2
<1>11. ASSUME NEW j \in 2..Len(rows'.switches)
       PROVE  rows'.switches[j].from = rows'.switches[j-1].to
  <2>1. CASE j \in 2..m
    <3>1. j \in 1..m /\ j - 1 \in 1..m
      BY <1>4, <2>1
    <3>2. w[j].from = w[j-1].to
      BY <1>6, <2>1 DEF SwitchesExplained
    <3> QED
      BY <1>5, <3>1, <3>2
  <2>2. CASE j = m + 1
    <3>1. j - 1 = m /\ m \in 1..m
      BY <1>4, <1>5, <2>2
    <3>2. w # << >>
      BY <3>1, EmptySeq
    <3>3. w[m].to = current
      BY <3>2 DEF SwitchInv
    <3> QED
      BY <1>2, <1>5, <2>2, <3>1, <3>3
  <2> QED
    BY <1>4, <1>5, <2>1, <2>2
<1>12. SwitchesExplained'
  <2>1. Changes' \subseteq Known' /\ Known' \ Changes' \subseteq {Len(rows'.segments) + 1}
    BY <1>1, <1>4, <1>6, <1>7, <1>8
  <2> QED
    BY <1>10, <1>11, <2>1 DEF SwitchesExplained, Known, Changes
<1>13. rows'.switches[Len(rows'.switches)].to = current'
  BY <1>1, <1>2, <1>5
<1> QED
  BY <1>1, <1>6, <1>7, <1>8, <1>12, <1>13 DEF SwitchInv, Before

\* record_segment makes a pending change a change.
LEMMA SegmentRecorded ==
  ASSUME MainInv, SwitchInv, RecordSegment
  PROVE  SwitchInv'
<1> DEFINE q == rows.segments
           row == [segment_id |-> seg, index |-> index]
<1>1. /\ pc = "record" /\ pc' = "select" /\ current' = current
      /\ rows'.switches = rows.switches /\ rows'.segments = Append(q, row)
  BY DEF RecordSegment, MainInv, MainTypes
<1>2. row.index = index
  OBVIOUS
<1>3. row \in SegmentRows /\ q \in Seq(SegmentRows)
  BY <1>1, SessionAssumption DEF SegmentRows, MainInv, MainTypes, Progress, Turn, SegmentIds
<1> HIDE DEF row
<1>0. PICK n \in Nat : n = Len(q)
  BY <1>3, LenProperties
<1>4. /\ n \in Nat /\ Len(rows'.segments) = n + 1
      /\ \A k \in 1..n : rows'.segments[k] = q[k]
      /\ rows'.segments[n + 1] = row
  BY <1>0, <1>1, <1>3, AppendProperties
<1>5. Known = Changes \cup Pending /\ current = index /\ SwitchesExplained
  BY <1>1 DEF SwitchInv
<1>6. IndexOf(0)' = IndexOf(0) /\ (\A k \in 1..n : IndexOf(k)' = IndexOf(k)) /\ IndexOf(n + 1)' = index
  BY <1>2, <1>4 DEF IndexOf
<1>7. Changes' = Changes \cup Pending
  <2>1. Changes' = {k \in 1..(n + 1) : IndexOf(k)' # IndexOf(k - 1)'}
    BY <1>4 DEF Changes
  <2>2. \A k \in 1..n : IndexOf(k)' = IndexOf(k) /\ IndexOf(k - 1)' = IndexOf(k - 1)
    <3>1. \A k \in 1..n : k - 1 = 0 \/ k - 1 \in 1..n
      BY <1>4
    <3> QED
      BY <1>6, <3>1
  <2>3. IndexOf((n + 1) - 1)' = IndexOf(n)
    <3>1. (n + 1) - 1 = n /\ (n = 0 \/ n \in 1..n)
      BY <1>4
    <3> QED
      BY <1>6, <3>1
  <2>4. 1..(n + 1) = (1..n) \cup {n + 1} /\ n + 1 \notin 1..n
    BY <1>4
  <2> QED
    BY <1>0, <1>6, <2>1, <2>2, <2>3, <2>4 DEF Changes, Pending
<1>8. Known' = Known
  BY <1>1 DEF Known
<1>9. SwitchesExplained'
  <2>1. Changes' = Known' /\ Len(rows'.switches) = Cardinality(Known')
    BY <1>1, <1>5, <1>7, <1>8 DEF SwitchesExplained, Known
  <2>2. \A j \in 2..Len(rows'.switches) : rows'.switches[j].from = rows'.switches[j-1].to
    BY <1>1, <1>5 DEF SwitchesExplained
  <2> QED
    BY <2>1, <2>2 DEF SwitchesExplained, Known, Changes
<1> QED
  BY <1>0, <1>1, <1>4, <1>5, <1>6, <1>7, <1>8, <1>9 DEF SwitchInv, Before

LEMMA SwitchKept == MainInv /\ SwitchInv /\ [Next]_vars => SwitchInv'
<1> SUFFICES ASSUME MainInv, SwitchInv, [Next]_vars PROVE SwitchInv'
  OBVIOUS
<1> DEFINE Rest ==
      rows'.segments = rows.segments /\ rows'.switches = rows.switches /\ current' = current
<1>1. ASSUME Rest
      PROVE  /\ SwitchesExplained' /\ Known' = Known /\ Changes' = Changes
             /\ IndexOf(Len(rows.segments))' = IndexOf(Len(rows.segments))
             /\ rows'.switches # << >> => rows'.switches[Len(rows'.switches)].to = current'
  BY <1>1, SwitchSame
<1>2. CASE UNCHANGED mainVars
  <2>1. Rest /\ pc' = pc /\ index' = index /\ rows' = rows
    BY <1>2 DEF mainVars
  <2>2. Pending' = Pending
    BY <1>1, <2>1 DEF Pending
  <2> QED
    BY <1>1, <2>1, <2>2 DEF SwitchInv, Before
<1>3. CASE Connect \/ OpenCollector \/ StartPlayback \/ \E choice \in Indexes : Select(choice)
  <2>1. /\ Rest /\ pc \in Before \cup {"select"}
        /\ pc' \in Before \cup {"select", "download", "raised"}
    BY <1>3 DEF Connect, OpenCollector, StartPlayback, Select, Before, MainInv, MainTypes
  <2> QED
    BY <1>1, <2>1 DEF SwitchInv, Before
<1>4. CASE Downloaded
  <2>1. Rest /\ pc = "download" /\ pc' = (IF index # current THEN "switch" ELSE "put")
        /\ index' = index /\ rows' = rows
    BY <1>4 DEF Downloaded
  <2>2. Pending' = IF index # current THEN {Len(rows.segments) + 1} ELSE {}
    BY <1>1, <2>1 DEF SwitchInv, Pending
  <2> QED
    BY <1>1, <2>1, <2>2 DEF SwitchInv, Before
<1>5. CASE Put \/ PutReturns
  <2>1. /\ Rest /\ pc \in {"put", "putting"} /\ pc' \in {"putting", "record"}
        /\ index' = index /\ rows' = rows
    BY <1>5 DEF Put, PutReturns
  <2>2. Pending' = Pending
    BY <1>1, <2>1 DEF Pending
  <2> QED
    BY <1>1, <2>1, <2>2 DEF SwitchInv, Before
<1>6. CASE RecordSwitch
  BY <1>6, SwitchRecorded
<1>7. CASE RecordSegment
  BY <1>7, SegmentRecorded
<1>8. CASE \/ DownloadRaises \/ LoopEnds \/ Join \/ RecordRebuffer \/ ComputeQoe
           \/ RecordQoe \/ Summarise \/ DatabaseRaises
  <2>1. Rest /\ pc' \in After \cup {"joining", "unwinding", "raised"}
    BY <1>8 DEF DownloadRaises, LoopEnds, Join, RecordRebuffer, ComputeQoe, RecordQoe,
                Summarise, DatabaseRaises, After, MainInv, MainTypes
  <2> QED
    BY <1>1, <2>1 DEF SwitchInv, Before, After
<1>9. CASE PutBlocks \/ PlayerStep \/ GiveUp \/ Finished \/ UNCHANGED vars
  BY <1>2, <1>9 DEF PutBlocks, PlayerStep, GiveUp, Poll, PollWaits, PollTakes, PollMisses,
     StallIgnored, StallCounted, StallNoted, Played, Finished, vars
<1> QED
  BY <1>3, <1>4, <1>5, <1>6, <1>7, <1>8, <1>9 DEF Next, MainStep

\* The switches recorded are the quality changes between the segments recorded,
\* and at most one more, whatever fails and wherever (client.py:139-157).
THEOREM SwitchesCorrect == Spec => []SwitchesExplained
<1>1. SwitchInv => SwitchesExplained
  BY DEF SwitchInv
<1> QED
  BY <1>1, SwitchInitially, SwitchKept, MainAlways, PTL DEF Spec

-----------------------------------------------------------------------------
(* What put and get do to the threads and the deque *)

PC == {"idle", "calling", "waiting", "notified"}

Inside(t) == bufferPc[t] # "idle"

LEMMA TypedBuffer ==
  ASSUME Buffer!TypeOK
  PROVE  /\ deque \in Seq(SegmentIds) /\ level \in Nat
         /\ bufferPc \in [{Main, Player} -> PC]
         /\ DOMAIN offered = {Main} /\ Main # Player
BY SessionAssumption DEF Buffer!TypeOK, Buffer!Threads, PC, Main, Player

LEMMA PutCalled ==
  ASSUME Buffer!TypeOK, NEW s, Buffer!PutCall(Main, s, FALSE)
  PROVE  /\ ~Inside(Main) /\ Inside(Main)' /\ Inside(Player)' = Inside(Player)
         /\ offered'[Main] = s /\ deque' = deque
BY TypedBuffer DEF Buffer!PutCall, Inside

LEMMA PutWaited ==
  ASSUME Buffer!TypeOK, Buffer!PutWait(Main)
  PROVE  /\ Inside(Main) /\ Inside(Player)' = Inside(Player)
         /\ offered' = offered /\ deque' = deque
BY TypedBuffer DEF Buffer!PutWait, Inside

LEMMA PutAdmitted ==
  ASSUME Buffer!TypeOK, Buffer!PutAdmit(Main)
  PROVE  /\ ~Inside(Main)' /\ Inside(Player)' = Inside(Player)
         /\ deque' = Append(deque, offered[Main])
BY TypedBuffer DEF Buffer!PutAdmit, Buffer!Notify, Buffer!Waiters, Buffer!Leave, Inside

LEMMA GetCalled ==
  ASSUME Buffer!TypeOK, Buffer!GetCall(Player, TRUE)
  PROVE  /\ Inside(Main)' = Inside(Main) /\ offered' = offered /\ deque' = deque
BY TypedBuffer DEF Buffer!GetCall, Inside

LEMMA GetWaited ==
  ASSUME Buffer!TypeOK, Buffer!GetWait(Player)
  PROVE  /\ Inside(Player) /\ Inside(Main)' = Inside(Main)
         /\ offered' = offered /\ deque' = deque
BY TypedBuffer DEF Buffer!GetWait, Inside

LEMMA GetTaken ==
  ASSUME Buffer!TypeOK, Buffer!GetTake(Player)
  PROVE  /\ Inside(Player) /\ ~Inside(Player)' /\ Inside(Main)' = Inside(Main)
         /\ offered' = offered /\ deque # << >> /\ deque' = Tail(deque)
BY TypedBuffer DEF Buffer!GetTake, Buffer!Notify, Buffer!Waiters, Buffer!Leave,
                   Buffer!CanLock, Buffer!PopLeft, Inside

LEMMA GetMissed ==
  ASSUME Buffer!TypeOK, Buffer!GetNone(Player)
  PROVE  /\ Inside(Player) /\ ~Inside(Player)' /\ Inside(Main)' = Inside(Main)
         /\ offered' = offered /\ deque' = deque
BY TypedBuffer DEF Buffer!GetNone, Buffer!CanLock, Buffer!Leave, Inside

-----------------------------------------------------------------------------
(* The stream *)

\* Consecutive segments, from the one after k.
Consecutive(q, k) == q = [i \in 1..Len(q) |-> k + i]

LEMMA PutConsecutive ==
  ASSUME NEW q \in Seq(SegmentIds), NEW k \in Nat, Consecutive(q, k),
         NEW s \in SegmentIds, s = k + Len(q) + 1
  PROVE  Consecutive(Append(q, s), k) /\ Len(Append(q, s)) = Len(q) + 1
<1> DEFINE r == Append(q, s)
<1>1. PICK n \in Nat : n = Len(q)
  BY LenProperties
<1>2. /\ r \in Seq(SegmentIds) /\ Len(r) = n + 1
      /\ \A i \in 1..n : r[i] = q[i]
      /\ r[n + 1] = s
  BY <1>1, AppendProperties
<1>3. r = [i \in 1..(n + 1) |-> r[i]]
  BY <1>2, SeqDef, LenProperties
<1> HIDE DEF r
<1>4. \A i \in 1..(n + 1) : r[i] = k + i
  <2>1. \A i \in 1..n : q[i] = k + i
    BY <1>1 DEF Consecutive
  <2>2. \A i \in 1..(n + 1) : i \in 1..n \/ i = n + 1
    BY <1>1
  <2> QED
    BY <1>1, <1>2, <2>1, <2>2
<1>5. r = [i \in 1..(n + 1) |-> k + i]
  BY <1>3, <1>4
<1> QED
  BY <1>1, <1>2, <1>5 DEF Consecutive, r

LEMMA TakeConsecutive ==
  ASSUME NEW q \in Seq(SegmentIds), NEW k \in Nat, Consecutive(q, k), q # << >>
  PROVE  /\ Head(q) = k + 1
         /\ Consecutive(Tail(q), k + 1)
         /\ Len(Tail(q)) = Len(q) - 1 /\ Len(q) >= 1
<1> DEFINE t == Tail(q)
<1>1. PICK n \in Nat : n = Len(q) /\ n >= 1
  BY LenProperties, EmptySeq
<1>2. /\ t \in Seq(SegmentIds) /\ Len(t) = n - 1 /\ Head(q) = q[1]
      /\ \A i \in 1..(n - 1) : t[i] = q[i + 1]
  BY <1>1, HeadTailProperties
<1>3. t = [i \in 1..(n - 1) |-> t[i]]
  BY <1>2, SeqDef, LenProperties
<1>4. \A i \in 1..n : q[i] = k + i
  BY <1>1 DEF Consecutive
<1> HIDE DEF t
<1>5. \A i \in 1..(n - 1) : t[i] = (k + 1) + i
  <2> SUFFICES ASSUME NEW i \in 1..(n - 1) PROVE t[i] = (k + 1) + i
    OBVIOUS
  <2>1. i + 1 \in 1..n /\ k + (i + 1) = (k + 1) + i
    BY <1>1
  <2> QED
    BY <1>2, <1>4, <2>1
<1>6. t = [i \in 1..(n - 1) |-> (k + 1) + i]
  BY <1>3, <1>5
<1> QED
  BY <1>1, <1>2, <1>4, <1>6 DEF Consecutive, t

Taken == report.played + (IF held = 0 THEN 0 ELSE 1)

PlayerTypes ==
  /\ playerPc \in {"off", "startup", "steady", "stalled", "noting", "playing", "exited"}
  /\ held \in Nat /\ stall \in 0..MaxStall
  /\ report = [played |-> report.played, last |-> report.last,
               seconds |-> report.seconds, events |-> report.events]
  /\ report.played \in Nat /\ report.seconds \in Nat

\* Who is where, and who has closed the socket.
Places ==
  /\ pc \in Before => playerPc = "off"
  /\ Inside(Player) => playerPc \in {"startup", "steady", "stalled"}
  /\ Inside(Main) => pc = "putting"
  /\ pc = "putting" => offered[Main] = seg
  /\ held # 0 <=> playerPc = "noting"
  /\ pc = "raised" /\ playerPc # "off" => socket = "closed"

Stream ==
  /\ report.last = report.played
  /\ held # 0 => held = Taken
  /\ Consecutive(deque, Taken)
  /\ Taken + Len(deque) = Len(qualities)

PlayerInv == PlayerTypes /\ Places /\ Stream

LEMMA PlayerInitially == Init => PlayerInv
<1> SUFFICES ASSUME Init PROVE PlayerInv
  OBVIOUS
<1>1. Len(<< >>) = 0 /\ deque = << >> /\ qualities = << >>
  BY EmptySeq DEF Init, Buffer!Init
<1>2. bufferPc = [t \in {Main, Player} |-> "idle"]
  BY DEF Init, Buffer!Init, Buffer!Threads
<1>3. << >> = [i \in 1..0 |-> 0 + i]
  BY EmptySeq
<1>4. Consecutive(<< >>, 0)
  BY <1>1, <1>3 DEF Consecutive
<1>5. MaxStall \in Nat
  BY SessionAssumption
<1> QED
  BY <1>1, <1>2, <1>4, <1>5
     DEF Init, PlayerInv, PlayerTypes, Places, Stream, Taken, Inside, Before

\* The steps of run_session.
LEMMA MainKeepsPlayer ==
  ASSUME MainInv, PlayerInv, Buffer!TypeOK, MainStep
  PROVE  PlayerInv'
<1> USE DEF PlayerInv
<1>1. CASE StartPlayback
  BY <1>1 DEF StartPlayback, PlayerTypes, Places, Stream, Taken, bufferVars, Before, Inside
<1>2. CASE Put
  <2>1. /\ ~Inside(Main) /\ Inside(Main)' /\ Inside(Player)' = Inside(Player)
        /\ offered'[Main] = seg /\ deque' = deque
    BY <1>2, PutCalled DEF Put
  <2> QED
    BY <1>2, <2>1 DEF Put, PlayerTypes, Places, Stream, Taken, playerVars, Before
<1>3. CASE PutBlocks
  <2>1. /\ Inside(Main) /\ Inside(Player)' = Inside(Player)
        /\ offered' = offered /\ deque' = deque
    BY <1>3, PutWaited DEF PutBlocks
  <2> QED
    BY <1>3, <2>1 DEF PutBlocks, PlayerTypes, Places, Stream, Taken, playerVars, mainVars, Before
<1>4. CASE PutReturns
  <2>1. /\ ~Inside(Main)' /\ Inside(Player)' = Inside(Player)
        /\ deque' = Append(deque, offered[Main])
    BY <1>4, PutAdmitted DEF PutReturns
  <2>2. /\ pc = "putting" /\ pc' = "record" /\ qualities' = Append(qualities, index)
        /\ UNCHANGED playerVars /\ UNCHANGED <<seg, socket>>
    BY <1>4 DEF PutReturns
  <2>3. /\ Len(qualities') = Len(qualities) + 1 /\ Len(qualities) = seg - 1
        /\ seg \in SegmentIds /\ seg \in Nat /\ Len(qualities) \in Nat
    BY <2>2, AppendProperties, LenProperties, SessionAssumption
       DEF MainInv, MainTypes, Progress, Turn, SegmentIds
  <2>4. deque \in Seq(SegmentIds) /\ Len(deque) \in Nat /\ Taken \in Nat
    BY TypedBuffer, LenProperties DEF PlayerTypes, Taken
  <2>5. offered[Main] = seg /\ seg = Taken + Len(deque) + 1
    BY <2>2, <2>3, <2>4 DEF Places, Stream
  <2>6. Consecutive(deque', Taken) /\ Len(deque') = Len(deque) + 1
    BY <2>1, <2>3, <2>4, <2>5, PutConsecutive DEF Stream
  <2>7. Taken' = Taken
    BY <2>2 DEF Taken, playerVars
  <2>8. Stream'
    BY <2>2, <2>3, <2>4, <2>6, <2>7 DEF Stream, playerVars
  <2> QED
    BY <2>1, <2>2, <2>8 DEF PlayerTypes, Places, playerVars, Before
<1>5. ASSUME /\ UNCHANGED <<playerVars, bufferVars>> /\ qualities' = qualities
             /\ pc # "putting" /\ pc' # "putting"
             /\ pc' \in Before => pc \in Before
             /\ pc' = "raised" => playerPc = "off" \/ socket' = "closed"
      PROVE  PlayerInv'
  BY <1>5 DEF PlayerTypes, Places, Stream, Taken, playerVars, bufferVars, Inside
<1>6. CASE Connect \/ OpenCollector
  BY <1>5, <1>6 DEF Connect, OpenCollector, Before, Places
<1>7. CASE (\E choice \in Indexes : Select(choice)) \/ Downloaded \/ DownloadRaises
  BY <1>5, <1>7 DEF Select, Downloaded, DownloadRaises, Before
<1>8. CASE RecordSwitch \/ RecordSegment \/ LoopEnds \/ Join
  BY <1>5, <1>8 DEF RecordSwitch, RecordSegment, LoopEnds, Join, Before
<1>9. CASE RecordRebuffer \/ ComputeQoe \/ RecordQoe \/ Summarise
  BY <1>5, <1>9 DEF RecordRebuffer, ComputeQoe, RecordQoe, Summarise, Before
<1>10. CASE DatabaseRaises
  <2>1. pc \in After => socket = "closed"
    BY DEF MainInv, Progress
  <2> QED
    BY <1>5, <1>10, <2>1 DEF DatabaseRaises, Before, After
<1> QED
  BY <1>1, <1>2, <1>3, <1>4, <1>6, <1>7, <1>8, <1>9, <1>10 DEF MainStep

\* The steps of the playback thread.
LEMMA PlayerKeepsPlayer ==
  ASSUME MainInv, PlayerInv, Buffer!TypeOK, PlayerStep \/ GiveUp
  PROVE  PlayerInv'
<1> USE DEF PlayerInv
<1>0. /\ deque \in Seq(SegmentIds) /\ Len(deque) \in Nat /\ Taken \in Nat
      /\ Len(qualities) \in Nat
  BY TypedBuffer, LenProperties DEF PlayerTypes, Taken, MainInv, MainTypes
<1>1. CASE Poll
  <2>1. Inside(Main)' = Inside(Main) /\ offered' = offered /\ deque' = deque
    BY <1>1, GetCalled DEF Poll
  <2> QED
    BY <1>1, <2>1 DEF Poll, PlayerTypes, Places, Stream, Taken, mainVars, playerVars, Before
<1>2. CASE PollWaits
  <2>1. /\ Inside(Player) /\ Inside(Main)' = Inside(Main)
        /\ offered' = offered /\ deque' = deque
    BY <1>2, GetWaited DEF PollWaits
  <2> QED
    BY <1>2, <2>1 DEF PollWaits, PlayerTypes, Places, Stream, Taken, mainVars, playerVars, Before
<1>3. CASE PollMisses
  <2>1. /\ Inside(Player) /\ ~Inside(Player)' /\ Inside(Main)' = Inside(Main)
        /\ offered' = offered /\ deque' = deque
    BY <1>3, GetMissed DEF PollMisses
  <2> QED
    BY <1>3, <2>1 DEF PollMisses, PlayerTypes, Places, Stream, Taken, mainVars, Before
<1>4. CASE PollTakes
  <2>1. /\ Inside(Player) /\ ~Inside(Player)' /\ Inside(Main)' = Inside(Main)
        /\ offered' = offered /\ deque # << >> /\ deque' = Tail(deque)
    BY <1>4, GetTaken DEF PollTakes
  <2>2. /\ Head(deque) = Taken + 1 /\ Consecutive(deque', Taken + 1)
        /\ Len(deque') = Len(deque) - 1
    BY <1>0, <2>1, TakeConsecutive DEF Stream
  <2>3. playerPc \in {"startup", "steady", "stalled"} /\ held = 0 /\ Taken = report.played
    BY <2>1 DEF PlayerTypes, Places, Taken
  <2>4. CASE playerPc = "stalled"
    <3>1. /\ held' = Head(deque) /\ playerPc' = "noting"
          /\ UNCHANGED <<report, mainVars, stall>>
      BY <1>4, <2>4 DEF PollTakes
    <3>2. held' = Taken + 1 /\ held' # 0 /\ Taken' = Taken + 1
      BY <1>0, <2>2, <2>3, <3>1 DEF Taken
    <3>3. Stream'
      BY <1>0, <2>2, <3>1, <3>2 DEF Stream, mainVars
    <3> QED
      BY <1>0, <2>1, <2>3, <3>1, <3>2, <3>3 DEF PlayerTypes, Places, mainVars, Before
  <2>5. CASE playerPc # "stalled"
    <3>1. /\ report' = [report EXCEPT !.played = @ + 1, !.last = Head(deque)]
          /\ playerPc' = "playing" /\ UNCHANGED <<held, mainVars, stall>>
      BY <1>4, <2>5 DEF PollTakes, Consume
    <3>0. report' = [played |-> report.played + 1, last |-> Taken + 1,
                     seconds |-> report.seconds, events |-> report.events]
      BY <2>2, <3>1 DEF PlayerTypes
    <3>2. PlayerTypes' /\ report'.played = report.played + 1 /\ report'.last = Taken + 1
      BY <3>0, <3>1 DEF PlayerTypes
    <3>3. Taken' = Taken + 1
      BY <2>3, <3>1, <3>2 DEF Taken, PlayerTypes
    <3>4. Stream'
      BY <1>0, <2>2, <2>3, <3>1, <3>2, <3>3 DEF Stream, mainVars
    <3> QED
      BY <2>1, <2>3, <3>1, <3>2, <3>4 DEF Places, mainVars, Before
  <2> QED
    BY <2>4, <2>5
<1>5. CASE StallIgnored
  <2>1. /\ playerPc = "noting" /\ playerPc' = "playing" /\ held' = 0
        /\ report' = [report EXCEPT !.played = @ + 1, !.last = held]
        /\ UNCHANGED <<mainVars, stall, bufferVars>>
    BY <1>5 DEF StallIgnored, Consume
  <2>2. held # 0 /\ held = Taken /\ Taken = report.played + 1
    BY <2>1 DEF Places, Stream, Taken
  <2>0. report' = [played |-> report.played + 1, last |-> held,
                   seconds |-> report.seconds, events |-> report.events]
    BY <2>1 DEF PlayerTypes
  <2>3. /\ PlayerTypes' /\ report'.played = report.played + 1 /\ report'.last = held
        /\ Taken' = Taken
    BY <2>0, <2>1, <2>2 DEF PlayerTypes, Taken
  <2> QED
    BY <2>1, <2>2, <2>3 DEF Places, Stream, mainVars, bufferVars, Before, Inside
<1>6. ASSUME NEW length \in 1..MaxStall, StallCounted(length) PROVE PlayerInv'
  <2>1. /\ playerPc = "noting" /\ stall' = length
        /\ report' = [report EXCEPT !.seconds = @ + length]
        /\ UNCHANGED <<mainVars, playerPc, held, bufferVars>>
    BY <1>6 DEF StallCounted
  <2>2. /\ PlayerTypes' /\ report'.played = report.played /\ report'.last = report.last
        /\ Taken' = Taken
    BY <2>1, SessionAssumption DEF PlayerTypes, Taken
  <2> QED
    BY <2>1, <2>2 DEF Places, Stream, mainVars, bufferVars, Before, Inside
<1>7. CASE StallNoted
  <2>1. /\ playerPc = "noting" /\ playerPc' = "playing" /\ held' = 0 /\ stall' = 0
        /\ report' = [report EXCEPT
             !.events = Append(@, [segment_id |-> held, duration |-> stall]),
             !.played = @ + 1, !.last = held]
        /\ UNCHANGED <<mainVars, bufferVars>>
    BY <1>7 DEF StallNoted
  <2>2. held # 0 /\ held = Taken /\ Taken = report.played + 1
    BY <2>1 DEF Places, Stream, Taken
  <2>0. report' = [played |-> report.played + 1, last |-> held, seconds |-> report.seconds,
                   events |-> Append(report.events, [segment_id |-> held, duration |-> stall])]
    BY <2>1 DEF PlayerTypes
  <2>3. /\ PlayerTypes' /\ report'.played = report.played + 1 /\ report'.last = held
        /\ Taken' = Taken
    BY <2>0, <2>1, <2>2, SessionAssumption DEF PlayerTypes, Taken
  <2> QED
    BY <2>1, <2>2, <2>3 DEF Places, Stream, mainVars, bufferVars, Before, Inside
<1>8. CASE Played \/ GiveUp
  <2>1. /\ playerPc \in {"playing", "startup", "stalled"} /\ playerPc' \in {"steady", "exited"}
        /\ UNCHANGED <<mainVars, held, stall, report, bufferVars>>
        /\ playerPc' = "exited" /\ playerPc # "playing" => ~Inside(Player)
    BY <1>8 DEF Played, GiveUp, Inside
  <2> QED
    BY <1>8, <2>1 DEF PlayerTypes, Places, Stream, Taken, mainVars, bufferVars, Before, Inside, Played
<1> QED
  BY <1>1, <1>2, <1>3, <1>4, <1>5, <1>6, <1>7, <1>8 DEF PlayerStep

LEMMA PlayerKept ==
  MainInv /\ PlayerInv /\ Buffer!TypeOK /\ [Next]_vars => PlayerInv'
<1> SUFFICES ASSUME MainInv, PlayerInv, Buffer!TypeOK, [Next]_vars PROVE PlayerInv'
  OBVIOUS
<1>1. CASE Finished \/ UNCHANGED vars
  BY <1>1 DEF Finished, vars, mainVars, playerVars, bufferVars, PlayerInv, PlayerTypes,
              Places, Stream, Taken, Inside
<1> QED
  BY <1>1, MainKeepsPlayer, PlayerKeepsPlayer DEF Next

LEMMA Invariants == Spec => [](MainInv /\ PlayerInv /\ Buffer!TypeOK)
BY PlayerInitially, PlayerKept, MainAlways, BufferTyped, PTL DEF Spec

\* What is known of the numbers of segments in every state.
LEMMA Counts ==
  ASSUME MainInv, PlayerInv, Buffer!TypeOK
  PROVE  /\ Taken \in Nat /\ Len(deque) \in Nat /\ Len(qualities) \in Nat
         /\ SegmentCount \in Nat /\ report.played \in Nat /\ held \in Nat
         /\ Taken + Len(deque) = Len(qualities) /\ Len(qualities) <= SegmentCount
         /\ report.played <= Taken /\ Taken <= SegmentCount
         /\ held = 0 => report.played = Taken
<1>1. /\ Len(deque) \in Nat /\ Len(qualities) \in Nat /\ SegmentCount \in Nat
      /\ report.played \in Nat /\ held \in Nat
  BY TypedBuffer, LenProperties, SessionAssumption
     DEF MainInv, MainTypes, PlayerInv, PlayerTypes
<1>2. /\ Taken \in Nat /\ report.played <= Taken
      /\ held = 0 => report.played = Taken
  BY <1>1 DEF Taken
<1>3. Taken + Len(deque) = Len(qualities) /\ Len(qualities) <= SegmentCount
  BY DEF MainInv, Progress, PlayerInv, Stream
<1>4. Taken <= SegmentCount
  <2> DEFINE d == Len(deque)
             q == Len(qualities)
  <2>1. d \in Nat /\ q \in Nat /\ Taken \in Nat /\ SegmentCount \in Nat
        /\ Taken + d = q /\ q <= SegmentCount
    BY <1>1, <1>2, <1>3
  <2> HIDE DEF d, q
  <2> QED
    BY <2>1
<1> QED
  BY <1>1, <1>2, <1>3, <1>4

\* Every variable of the session has its type, and in particular no more segments
\* are put, played or switched to than there are (client.py:84-211,
\* playback_controller.py:44-87).
THEOREM TypeCorrect == Spec => []TypeOK
<1>1. MainInv /\ PlayerInv /\ Buffer!TypeOK => TypeOK
  <2> SUFFICES ASSUME MainInv, PlayerInv, Buffer!TypeOK PROVE TypeOK
    OBVIOUS
  <2>1. /\ Taken \in Nat /\ SegmentCount \in Nat /\ report.played \in Nat /\ held \in Nat
        /\ report.played <= Taken /\ Taken <= SegmentCount
    BY Counts
  <2>2. /\ report.last = report.played
        /\ held # 0 => held = Taken
    BY DEF PlayerInv, Stream
  <2>3. held \in 0..SegmentCount /\ report.played \in 0..SegmentCount
    BY <2>1, <2>2
  <2>4. nSwitches \in 0..SegmentCount
    BY <2>1 DEF MainInv, MainTypes
  <2> QED
    BY <2>2, <2>3, <2>4 DEF TypeOK, MainInv, MainTypes, PlayerInv, PlayerTypes,
       SegmentRows, SwitchRows, Before, Turn, After
<1> QED
  BY <1>1, Invariants, PTL

\* Segments are played once each, in order and without a gap, whatever raises or
\* times out on either side (client.py:114-153, playback_controller.py:44-87).
THEOREM StreamCorrect == Spec => []StreamIntact
<1>1. MainInv /\ PlayerInv /\ Buffer!TypeOK => StreamIntact
  BY DEF PlayerInv, Stream, StreamIntact, Taken, Consecutive
<1> QED
  BY <1>1, Invariants, PTL

\* However run_session ends, only an exception before playback is started leaves
\* the connection open, and only an exception the collector (client.py:84-113,
\* 182-184, 211).
THEOREM SocketCorrect == Spec => []SocketReleased
<1>1. MainInv /\ PlayerInv => SocketReleased
  BY DEF MainInv, Progress, PlayerInv, Places, After, SocketReleased, Ended
<1> QED
  BY <1>1, Invariants, PTL

-----------------------------------------------------------------------------
(* The end of playback *)

InTime == ~NetworkMayStall /\ ~PlaybackMayLag

AllTaken ==
  /\ playerPc = "exited" => report.played = SegmentCount \/ pc \in {"unwinding", "raised"}
  /\ pc \in After => report.played = SegmentCount

PlayedInRange == report.played \in Nat /\ report.played <= SegmentCount

LEMMA PlayedBound == MainInv /\ PlayerInv /\ Buffer!TypeOK => PlayedInRange
<1> SUFFICES ASSUME MainInv, PlayerInv, Buffer!TypeOK PROVE PlayedInRange
  OBVIOUS
<1>1. /\ Taken \in Nat /\ SegmentCount \in Nat /\ report.played \in Nat
      /\ report.played <= Taken /\ Taken <= SegmentCount
  BY Counts
<1> QED
  BY <1>1 DEF PlayedInRange

LEMMA EndKept ==
  InTime /\ MainInv /\ PlayerInv /\ Buffer!TypeOK /\ PlayedInRange'
    /\ AllTaken /\ [Next]_vars => AllTaken'
<1> SUFFICES ASSUME InTime, MainInv, PlayerInv, Buffer!TypeOK, PlayedInRange',
                    AllTaken, [Next]_vars
             PROVE  AllTaken'
  OBVIOUS
<1>1. /\ Taken \in Nat /\ Len(deque) \in Nat /\ SegmentCount \in Nat /\ report.played \in Nat
      /\ Taken + Len(deque) = Len(qualities)
      /\ held = 0 => report.played = Taken
  BY Counts
<1>2. report'.played \in Nat /\ report'.played <= SegmentCount
  BY DEF PlayedInRange
<1>3. ASSUME deque = << >>, held = 0, pc \in After \cup {"joining"}
      PROVE  report.played = SegmentCount
  <2>1. Len(deque) = 0 /\ Len(qualities) = SegmentCount
    BY <1>3, EmptySeq DEF MainInv, Progress
  <2> QED
    BY <1>1, <1>3, <2>1
<1>4. ASSUME UNCHANGED <<playerPc, report>>,
             pc' \in After => pc \in After \/ report.played = SegmentCount,
             pc \in {"unwinding", "raised"} => pc' \in {"unwinding", "raised"}
      PROVE  AllTaken'
  BY <1>4 DEF AllTaken
<1>5. CASE Connect \/ OpenCollector \/ \E choice \in Indexes : Select(choice)
  BY <1>4, <1>5 DEF Connect, OpenCollector, Select, playerVars, After
<1>6. CASE Downloaded \/ DownloadRaises \/ RecordSwitch \/ Put \/ PutBlocks
  BY <1>4, <1>6 DEF Downloaded, DownloadRaises, RecordSwitch, Put, PutBlocks,
                    playerVars, mainVars, After
<1>7. CASE PutReturns \/ RecordSegment \/ LoopEnds \/ RecordRebuffer \/ ComputeQoe
  BY <1>4, <1>7 DEF PutReturns, RecordSegment, LoopEnds, RecordRebuffer, ComputeQoe,
                    playerVars, After
<1>8. CASE RecordQoe \/ Summarise \/ DatabaseRaises
  BY <1>4, <1>8 DEF RecordQoe, Summarise, DatabaseRaises, playerVars, After
<1>9. CASE StartPlayback
  BY <1>9 DEF StartPlayback, AllTaken, After
<1>10. CASE Join
  <2>1. /\ pc \in {"joining", "unwinding"}
        /\ playerPc = "exited" \/ JoinTimeout
        /\ pc' = IF pc = "joining" THEN "rebuffers" ELSE "raised"
        /\ UNCHANGED <<playerPc, report>>
    BY <1>10 DEF Join, playerVars
  <2>2. ASSUME pc = "joining" PROVE report.played = SegmentCount
    <3>1. CASE playerPc = "exited"
      BY <2>2, <3>1 DEF AllTaken
    <3>2. CASE JoinTimeout
      <4>1. playerPc \in {"startup", "stalled"} /\ deque = << >>
        BY <3>2 DEF JoinTimeout, InTime
      <4>2. held = 0
        BY <4>1 DEF PlayerInv, Places
      <4> QED
        BY <1>3, <2>2, <4>1, <4>2
    <3> QED
      BY <2>1, <3>1, <3>2
  <2> QED
    BY <1>4, <2>1, <2>2 DEF After
<1>11. ASSUME UNCHANGED mainVars, playerPc' # "exited", report'.played >= report.played
       PROVE  AllTaken'
  BY <1>1, <1>2, <1>11 DEF AllTaken, mainVars
<1>12. CASE Poll \/ PollWaits
  BY <1>4, <1>12 DEF Poll, PollWaits, mainVars, playerVars
<1>13. CASE PollMisses
  <2>1. Inside(Player)
    BY <1>13, GetMissed DEF PollMisses
  <2>2. playerPc \in {"startup", "steady", "stalled"}
    BY <2>1 DEF PlayerInv, Places
  <2> QED
    BY <1>1, <1>11, <1>13, <2>2 DEF PollMisses
<1>14. CASE PollTakes
  <2>1. playerPc' \in {"noting", "playing"} /\ UNCHANGED mainVars
    BY <1>14 DEF PollTakes, Consume
  <2>2. report' = report \/ report' = [report EXCEPT !.played = @ + 1, !.last = Head(deque)]
    BY <1>14 DEF PollTakes, Consume
  <2>3. CASE report' = report
    BY <1>1, <1>11, <2>1, <2>3
  <2>4. CASE report' = [report EXCEPT !.played = @ + 1, !.last = Head(deque)]
    <3>1. report'.played = report.played + 1
      BY <2>4 DEF PlayerInv, PlayerTypes
    <3> QED
      BY <1>1, <1>11, <2>1, <3>1
  <2> QED
    BY <2>2, <2>3, <2>4
<1>15. CASE StallIgnored \/ StallNoted
  <2>1. playerPc' = "playing" /\ UNCHANGED mainVars
    BY <1>15 DEF StallIgnored, StallNoted, Consume
  <2>2. report'.played = report.played + 1
    BY <1>15 DEF StallIgnored, StallNoted, Consume, PlayerInv, PlayerTypes
  <2> QED
    BY <1>1, <1>11, <2>1, <2>2
<1>16. ASSUME NEW length \in 1..MaxStall, StallCounted(length) PROVE AllTaken'
  BY <1>1, <1>11, <1>16 DEF StallCounted, PlayerInv, PlayerTypes
<1>17. CASE Played
  BY <1>1, <1>2, <1>17 DEF Played, AllTaken, mainVars
<1>18. CASE GiveUp
  <2>1. /\ playerPc \in {"startup", "stalled"} /\ deque = << >> /\ ~Downloading
        /\ UNCHANGED <<mainVars, report>>
    BY <1>18 DEF GiveUp, InTime
  <2>2. held = 0 /\ pc \notin Before
    BY <2>1 DEF PlayerInv, Places
  <2>3. pc \in After \cup {"joining", "unwinding", "raised"}
    BY <2>1, <2>2 DEF Downloading, MainInv, MainTypes, Before, Turn
  <2> QED
    BY <1>3, <2>1, <2>2, <2>3 DEF AllTaken, mainVars
<1>19. CASE Finished \/ UNCHANGED vars
  BY <1>4, <1>19 DEF Finished, vars, mainVars, playerVars
<1> QED
  BY <1>5, <1>6, <1>7, <1>8, <1>9, <1>10, <1>12, <1>13, <1>14, <1>15, <1>16, <1>17,
     <1>18, <1>19 DEF Next, MainStep, PlayerStep

LEMMA EndAlways == InTime => (Spec => []AllTaken)
<1> SUFFICES ASSUME InTime PROVE Spec => []AllTaken
  OBVIOUS
<1>1. Init => AllTaken
  BY DEF Init, AllTaken, After
<1>2. MainInv /\ PlayerInv /\ Buffer!TypeOK /\ PlayedInRange'
        /\ AllTaken /\ [Next]_vars => AllTaken'
  BY EndKept
<1>3. MainInv /\ PlayerInv /\ Buffer!TypeOK => PlayedInRange
  BY PlayedBound
<1> QED
  BY <1>1, <1>2, <1>3, Invariants, PTL DEF Spec

\* If the network delivers within 600 s and playback keeps up, a session that ends
\* normally has played every segment: the join does not cut it short (client.py:183).
THEOREM EverythingPlayed == InTime => (Spec => []AllPlayed)
<1> SUFFICES ASSUME InTime PROVE Spec => []AllPlayed
  OBVIOUS
<1>1. AllTaken => AllPlayed
  BY DEF AllTaken, AllPlayed, After
<1> QED
  BY <1>1, EndAlways, PTL

-----------------------------------------------------------------------------
(* The stalls and the score *)

Events == [segment_id : Nat, duration : 1..MaxStall]

Durations(events) == [k \in 1..Len(events) |-> events[k].duration]

\* A list of events whose seconds can be summed.
EventList(events) ==
  events \in Seq(Events) /\ Summable(1..Len(events), Durations(events))

LEMMA StalledIsSum == \A events : StalledIn(events) = SumOver(1..Len(events), Durations(events))
BY DEF StalledIn, Durations

LEMMA NoStalls == EventList(<< >>) /\ StalledIn(<< >>) = 0
<1>1. << >> \in Seq(Events) /\ Len(<< >>) = 0
  BY EmptySeq
<1>2. 1..0 = {}
  OBVIOUS
<1> QED
  BY <1>1, <1>2, StalledIsSum, SumOfNone DEF EventList

\* One event more adds its duration.
LEMMA OneMoreStall ==
  ASSUME NEW e, EventList(e), NEW x \in Events
  PROVE  EventList(Append(e, x)) /\ StalledIn(Append(e, x)) = StalledIn(e) + x.duration
<1> DEFINE r == Append(e, x)
<1>1. PICK n \in Nat : n = Len(e)
  BY LenProperties DEF EventList
<1>2. /\ r \in Seq(Events) /\ Len(r) = n + 1 /\ r[n + 1] = x
      /\ \A k \in 1..n : r[k] = e[k]
  BY <1>1, AppendProperties DEF EventList
<1> HIDE DEF r
<1>3. /\ n + 1 \notin 1..n /\ 1..(n + 1) = (1..n) \cup {n + 1}
      /\ 1..n \subseteq 1..(n + 1) /\ n + 1 \in 1..(n + 1)
  BY <1>1
<1>4. \A k \in 1..n : Durations(r)[k] = Durations(e)[k]
  BY <1>1, <1>2, <1>3 DEF Durations
<1>5. Durations(r)[n + 1] = x.duration
  BY <1>2, <1>3 DEF Durations
<1>6. x.duration \in Nat
  BY SessionAssumption DEF Events
<1>7. IsAdded(1..n, Durations(e), n + 1, 1..(n + 1), Durations(r))
  BY <1>3, <1>4, <1>5, <1>6 DEF IsAdded
<1>8. Summable(1..n, Durations(e))
  BY <1>1 DEF EventList
<1>9. /\ Summable(1..(n + 1), Durations(r))
      /\ SumOver(1..(n + 1), Durations(r)) = SumOver(1..n, Durations(e)) + Durations(r)[n + 1]
  BY <1>7, <1>8, SumOfOneMore
<1>10. EventList(r)
  BY <1>2, <1>9 DEF EventList
<1>11. StalledIn(r) = StalledIn(e) + x.duration
  BY <1>1, <1>2, <1>5, <1>9, StalledIsSum
<1> QED
  BY <1>10, <1>11 DEF r

LEMMA StalledIsNat ==
  ASSUME NEW e, EventList(e)
  PROVE  StalledIn(e) \in Nat
BY SumIsNat, StalledIsSum DEF EventList

\* The seconds reported are those of the events, and those of the stall being
\* noted, if there is one.
Noted ==
  /\ EventList(report.events)
  /\ report.seconds = StalledIn(report.events) + stall
  /\ stall # 0 => playerPc = "noting"

\* After a join that playback keeps up with no stall begins, and none is noted any
\* more: the playback thread is gone, or waits for segments that will not come, or
\* finds all it needs.
Quiet ==
  pc \in After => \/ playerPc \in {"steady", "playing", "exited"}
                  \/ playerPc \in {"startup", "stalled"} /\ deque = << >>

LEMMA NotedInitially == Init => Noted /\ Quiet
<1> SUFFICES ASSUME Init PROVE Noted /\ Quiet
  OBVIOUS
<1>1. /\ report.events = << >> /\ report.seconds = 0 /\ stall = 0 /\ playerPc = "off"
      /\ pc = "connecting"
  BY DEF Init
<1> QED
  BY <1>1, NoStalls DEF Noted, Quiet, After

\* Steps that leave the report and the stall alone.
LEMMA NotedSame ==
  ASSUME Noted, report' = report, stall' = stall,
         playerPc' = playerPc \/ playerPc # "noting"
  PROVE  Noted'
BY DEF Noted

\* Steps that count a segment.
LEMMA NotedPlaying ==
  ASSUME Noted, playerPc' = "playing", stall' = 0, stall = 0,
         report'.events = report.events, report'.seconds = report.seconds
  PROVE  Noted'
BY DEF Noted

LEMMA NotedKept ==
  MainInv /\ PlayerInv /\ Buffer!TypeOK /\ Noted /\ [Next]_vars => Noted'
<1> SUFFICES ASSUME MainInv, PlayerInv, Buffer!TypeOK, Noted, [Next]_vars PROVE Noted'
  OBVIOUS
<1>0. /\ report = [played |-> report.played, last |-> report.last,
                   seconds |-> report.seconds, events |-> report.events]
      /\ report.played \in Nat /\ SegmentCount \in Nat
  BY SessionAssumption DEF PlayerInv, PlayerTypes
<1>1. CASE UNCHANGED playerVars
  BY <1>1, NotedSame DEF playerVars
<1>2. CASE MainStep /\ ~StartPlayback
  BY <1>1, <1>2 DEF MainStep, Connect, OpenCollector, Select, Downloaded, DownloadRaises,
     RecordSwitch, Put, PutBlocks, PutReturns, RecordSegment, LoopEnds, Join, RecordRebuffer,
     ComputeQoe, RecordQoe, Summarise, DatabaseRaises
<1>3. CASE StartPlayback
  <2>1. playerPc = "off"
    BY <1>3 DEF StartPlayback, PlayerInv, Places, Before
  <2> QED
    BY <1>3, <2>1, NotedSame DEF StartPlayback
<1>4. CASE Poll \/ PollWaits
  BY <1>1, <1>4 DEF Poll, PollWaits
<1>5. CASE PollMisses \/ GiveUp
  <2>1. Inside(Player) \/ playerPc \in {"startup", "stalled"}
    BY <1>5, GetMissed DEF PollMisses, GiveUp
  <2>2. playerPc \in {"startup", "steady", "stalled"}
    BY <2>1 DEF PlayerInv, Places
  <2>3. report' = report /\ stall' = stall
    BY <1>5 DEF PollMisses, GiveUp
  <2> QED
    BY <2>2, <2>3, NotedSame
<1>6. CASE PollTakes
  <2>1. Inside(Player)
    BY <1>6, GetTaken DEF PollTakes
  <2>2. playerPc \in {"startup", "steady", "stalled"}
    BY <2>1 DEF PlayerInv, Places
  <2>3. stall' = stall /\ stall = 0
    BY <1>6, <2>2 DEF PollTakes, Noted
  <2>4. CASE playerPc = "stalled"
    BY <1>6, <2>3, <2>4, NotedSame DEF PollTakes
  <2>5. CASE playerPc # "stalled"
    <3>1. /\ report' = [report EXCEPT !.played = @ + 1, !.last = Head(deque)]
          /\ playerPc' = "playing"
      BY <1>6, <2>5 DEF PollTakes, Consume
    <3>2. report'.events = report.events /\ report'.seconds = report.seconds
      BY <1>0, <3>1
    <3> QED
      BY <2>3, <3>1, <3>2, NotedPlaying
  <2> QED
    BY <2>4, <2>5
<1>7. CASE StallIgnored
  <2>1. /\ report' = [report EXCEPT !.played = @ + 1, !.last = held]
        /\ playerPc' = "playing" /\ stall = 0 /\ stall' = stall
    BY <1>7 DEF StallIgnored, Consume
  <2>2. report'.events = report.events /\ report'.seconds = report.seconds
    BY <1>0, <2>1
  <2> QED
    BY <2>1, <2>2, NotedPlaying
<1>8. ASSUME NEW length \in 1..MaxStall, StallCounted(length) PROVE Noted'
  <2>1. /\ playerPc = "noting" /\ stall = 0 /\ stall' = length /\ playerPc' = playerPc
        /\ report' = [report EXCEPT !.seconds = @ + length]
    BY <1>8 DEF StallCounted
  <2>2. report'.events = report.events /\ report'.seconds = report.seconds + length
    BY <1>0, <2>1
  <2>3. StalledIn(report.events) \in Nat /\ EventList(report.events)
        /\ report.seconds = StalledIn(report.events) + 0
    BY <2>1, StalledIsNat DEF Noted
  <2>4. StalledIn(report.events)' = StalledIn(report.events) /\ EventList(report.events)'
    BY <2>2, <2>3
  <2>5. report'.seconds = StalledIn(report.events)' + length
    BY <2>2, <2>3, <2>4
  <2> QED
    BY <2>1, <2>4, <2>5 DEF Noted
<1>9. CASE StallNoted
  <2> DEFINE event == [segment_id |-> held, duration |-> stall]
  <2>1. /\ playerPc = "noting" /\ stall # 0 /\ stall' = 0 /\ playerPc' = "playing"
        /\ report' = [report EXCEPT !.events = Append(@, event), !.played = @ + 1, !.last = held]
    BY <1>9 DEF StallNoted
  <2>2. event \in Events /\ event.duration = stall /\ stall \in Nat
    BY <2>1, SessionAssumption DEF Events, PlayerInv, PlayerTypes
  <2> HIDE DEF event
  <2>3. report'.events = Append(report.events, event) /\ report'.seconds = report.seconds
    BY <1>0, <2>1
  <2>4. EventList(report.events) /\ report.seconds = StalledIn(report.events) + stall
        /\ StalledIn(report.events) \in Nat
    BY StalledIsNat DEF Noted
  <2>5. /\ EventList(Append(report.events, event))
        /\ StalledIn(Append(report.events, event)) = StalledIn(report.events) + stall
    BY <2>2, <2>4, OneMoreStall
  <2>6. EventList(report.events)' /\ report'.seconds = StalledIn(report.events)' + 0
    BY <2>2, <2>3, <2>4, <2>5
  <2> QED
    BY <2>1, <2>6 DEF Noted
<1>10. CASE Played
  <2>1. /\ playerPc = "playing" /\ report' = report /\ stall' = stall
        /\ playerPc' = IF report.played < SegmentCount THEN "steady" ELSE "exited"
    BY <1>10 DEF Played
  <2> QED
    BY <2>1 DEF Noted
<1>11. CASE Finished \/ UNCHANGED vars
  BY <1>1, <1>11 DEF Finished, vars
<1> QED
  BY <1>2, <1>3, <1>4, <1>5, <1>6, <1>7, <1>8, <1>9, <1>10, <1>11 DEF Next, PlayerStep

\* The rows of the segments are the qualities downloaded, and all of them once the
\* loop is over.
Recorded ==
  /\ \A k \in 1..Len(rows.segments) : rows.segments[k].index = qualities[k]
  /\ pc = "record" => qualities[seg] = index
  /\ pc \in After \cup {"joining"} => Len(rows.segments) = SegmentCount
  /\ Len(rows.segments) <= Len(qualities)

\* Every switch counted is recorded, but for the one under way.
Counted ==
  /\ pc \notin {"switch", "unwinding", "raised"} => nSwitches = Len(rows.switches)
  /\ pc = "switch" => nSwitches = Len(rows.switches) + 1

\* The rebuffer rows are the first of the events, in order.
Copied ==
  /\ rows.rebuffers \in Seq(Events)
  /\ Len(rows.rebuffers) <= Len(report.events)
  /\ \A k \in 1..Len(rows.rebuffers) : rows.rebuffers[k] = report.events[k]

\* What the score, its row and the summary were computed from has not changed.
Score   == [qualities |-> qualities, seconds |-> report.seconds, switches |-> nSwitches]
Row     == [score |-> Score, seconds |-> report.seconds, switches |-> nSwitches]
Summary == [score |-> Score, seconds |-> report.seconds, switches |-> nSwitches,
            segments |-> Len(qualities)]

Written ==
  /\ pc \in {"qoe", "summary", "done"} =>
       Len(rows.rebuffers) = Len(report.events) /\ qoe = << Score >>
  /\ pc \in {"summary", "done"} => rows.qoe = << Row >>
  /\ pc = "done" => summary = << Summary >>

QoeInv == Noted /\ Quiet /\ Recorded /\ Counted /\ Copied /\ Written

LEMMA QoeInitially == Init => QoeInv
<1> SUFFICES ASSUME Init PROVE QoeInv
  OBVIOUS
<1>1. /\ rows.segments = << >> /\ rows.switches = << >> /\ rows.rebuffers = << >>
      /\ qualities = << >> /\ report.events = << >> /\ nSwitches = 0 /\ pc = "connecting"
  BY DEF Init
<1>2. << >> \in Seq(Events) /\ Len(<< >>) = 0
  BY EmptySeq
<1>3. Recorded /\ Counted /\ Copied /\ Written
  BY <1>1, <1>2 DEF Recorded, Counted, Copied, Written, After
<1> QED
  BY <1>3, NotedInitially DEF QoeInv

\* After the join nothing the score depends on changes on the player's side.
Frozen ==
  pc \in After => report'.events = report.events /\ report'.seconds = report.seconds

LEMMA PlayerQuiet ==
  ASSUME MainInv, PlayerInv, Buffer!TypeOK, Noted, Quiet, PlayerStep \/ GiveUp
  PROVE  Quiet' /\ Frozen
<1>0. /\ report = [played |-> report.played, last |-> report.last,
                   seconds |-> report.seconds, events |-> report.events]
      /\ report.played \in Nat /\ SegmentCount \in Nat
  BY SessionAssumption DEF PlayerInv, PlayerTypes
<1>1. pc' = pc
  BY DEF PlayerStep, GiveUp, Poll, PollWaits, PollTakes, PollMisses, StallIgnored,
         StallCounted, StallNoted, Played, mainVars
<1> SUFFICES ASSUME pc \in After PROVE Quiet' /\ Frozen
  BY <1>1 DEF Quiet, Frozen
<1>2. playerPc \in {"steady", "playing", "exited"}
        \/ (playerPc \in {"startup", "stalled"} /\ deque = << >>)
  BY DEF Quiet
<1>3. CASE Poll \/ PollWaits
  <2>1. deque' = deque /\ playerPc' = playerPc /\ report' = report
    BY <1>3, GetCalled, GetWaited DEF Poll, PollWaits, playerVars
  <2> QED
    BY <1>2, <2>1 DEF Quiet, Frozen
<1>4. CASE PollTakes
  <2>1. Inside(Player) /\ deque # << >>
    BY <1>4, GetTaken DEF PollTakes
  <2>2. playerPc = "steady"
    BY <1>2, <2>1 DEF PlayerInv, Places
  <2>3. /\ report' = [report EXCEPT !.played = @ + 1, !.last = Head(deque)]
        /\ playerPc' = "playing"
    BY <1>4, <2>2 DEF PollTakes, Consume
  <2>4. report'.events = report.events /\ report'.seconds = report.seconds
    BY <1>0, <2>3
  <2> QED
    BY <2>3, <2>4 DEF Quiet, Frozen
<1>5. CASE PollMisses
  <2>1. /\ Inside(Player) /\ deque = << >> /\ deque' = deque /\ report' = report
        /\ playerPc' = IF playerPc = "steady" THEN "stalled" ELSE playerPc
    BY <1>5, GetMissed DEF PollMisses, Buffer!GetNone
  <2>2. playerPc \in {"startup", "steady", "stalled"}
    BY <2>1 DEF PlayerInv, Places
  <2> QED
    BY <2>1, <2>2 DEF Quiet, Frozen
<1>6. CASE StallIgnored \/ StallNoted \/ \E length \in 1..MaxStall : StallCounted(length)
  <2>1. playerPc = "noting"
    BY <1>6 DEF StallIgnored, StallNoted, StallCounted
  <2> QED
    BY <1>2, <2>1
<1>7. CASE Played \/ GiveUp
  <2>1. playerPc' \in {"steady", "exited"} /\ report' = report
    BY <1>7 DEF Played, GiveUp
  <2> QED
    BY <2>1 DEF Quiet, Frozen
<1> QED
  BY <1>3, <1>4, <1>5, <1>6, <1>7 DEF PlayerStep

\* run_session leaves the report alone, and goes past the join only when the
\* playback thread is out of the way, unless playback may lag.
LEMMA MainQuiet ==
  ASSUME ~PlaybackMayLag, MainInv, PlayerInv, Buffer!TypeOK, Noted, Quiet, MainStep
  PROVE  Quiet' /\ report' = report
<1>1. CASE Join
  <2>1. /\ playerPc = "exited" \/ JoinTimeout
        /\ UNCHANGED playerVars /\ UNCHANGED bufferVars
    BY <1>1 DEF Join
  <2> QED
    BY <2>1 DEF Quiet, JoinTimeout, playerVars, bufferVars
<1>2. CASE StartPlayback
  BY <1>2 DEF StartPlayback, Quiet, After
<1>3. CASE \/ Connect \/ OpenCollector \/ Downloaded \/ DownloadRaises \/ RecordSwitch
           \/ RecordSegment \/ LoopEnds \/ \E choice \in Indexes : Select(choice)
  <2>1. pc' \notin After /\ UNCHANGED playerVars
    BY <1>3 DEF Connect, OpenCollector, Select, Downloaded, DownloadRaises, RecordSwitch,
                RecordSegment, LoopEnds, After
  <2> QED
    BY <2>1 DEF Quiet, playerVars
<1>4. CASE Put \/ PutBlocks \/ PutReturns
  <2>1. pc' \notin After /\ UNCHANGED playerVars
    BY <1>4 DEF Put, PutBlocks, PutReturns, After, mainVars
  <2> QED
    BY <2>1 DEF Quiet, playerVars
<1>5. CASE RecordRebuffer \/ ComputeQoe \/ RecordQoe \/ Summarise
  <2>1. pc \in After /\ UNCHANGED playerVars /\ UNCHANGED bufferVars
    BY <1>5 DEF RecordRebuffer, ComputeQoe, RecordQoe, Summarise, After
  <2> QED
    BY <2>1 DEF Quiet, playerVars, bufferVars
<1>6. CASE DatabaseRaises
  <2>1. pc' \notin After /\ UNCHANGED playerVars
    BY <1>6 DEF DatabaseRaises, After
  <2> QED
    BY <2>1 DEF Quiet, playerVars
<1> QED
  BY <1>1, <1>2, <1>3, <1>4, <1>5, <1>6 DEF MainStep

LEMMA QuietKept ==
  ~PlaybackMayLag /\ MainInv /\ PlayerInv /\ Buffer!TypeOK /\ Noted /\ Quiet /\ [Next]_vars
    => Quiet' /\ Frozen
<1> SUFFICES ASSUME ~PlaybackMayLag, MainInv, PlayerInv, Buffer!TypeOK, Noted, Quiet,
                    [Next]_vars
             PROVE  Quiet' /\ Frozen
  OBVIOUS
<1>1. CASE MainStep
  BY <1>1, MainQuiet DEF Frozen
<1>2. CASE PlayerStep \/ GiveUp
  BY <1>2, PlayerQuiet
<1>3. CASE Finished \/ UNCHANGED vars
  BY <1>3 DEF Finished, vars, mainVars, playerVars, bufferVars, Quiet, Frozen
<1> QED
  BY <1>1, <1>2, <1>3 DEF Next

\* Steps that leave alone what the rows are compared with.
Same ==
  /\ UNCHANGED <<seg, index, nSwitches, qualities>>
  /\ rows'.segments = rows.segments /\ rows'.switches = rows.switches

LEMMA RecordedKept ==
  MainInv /\ Recorded /\ Counted /\ [Next]_vars => Recorded' /\ Counted'
<1> SUFFICES ASSUME MainInv, Recorded, Counted, [Next]_vars PROVE Recorded' /\ Counted'
  OBVIOUS
<1>0. /\ SegmentCount \in Nat /\ Len(qualities) \in Nat /\ Len(rows.segments) \in Nat
      /\ Len(rows.switches) \in Nat /\ nSwitches \in Nat /\ seg \in Nat
      /\ qualities \in Seq(Indexes) /\ index \in Indexes
      /\ rows.segments \in Seq(SegmentRows) /\ rows.switches \in Seq(SwitchRows)
  BY SessionAssumption, LenProperties DEF MainInv, MainTypes
<1>1. CASE UNCHANGED mainVars
  BY <1>1 DEF mainVars, Recorded, Counted
<1>2. CASE PutBlocks \/ PlayerStep \/ GiveUp \/ Finished \/ UNCHANGED vars
  BY <1>1, <1>2 DEF PutBlocks, PlayerStep, GiveUp, Poll, PollWaits, PollTakes, PollMisses,
     StallIgnored, StallCounted, StallNoted, Played, Finished, vars
<1>3. ASSUME Same, pc' # "record", pc' # "switch", pc # "switch" \/ pc' = "unwinding",
             pc' \in {"unwinding", "raised"} \/ pc \notin {"unwinding", "raised"},
             pc' \in After \cup {"joining"} => Len(rows.segments) = SegmentCount
      PROVE  Recorded' /\ Counted'
  BY <1>3 DEF Same, Recorded, Counted
<1>4. CASE Connect \/ OpenCollector \/ StartPlayback \/ Put \/ DownloadRaises
  <2>1. Same /\ pc \in Before \cup {"download", "put"} /\ pc' \notin After \cup {"joining"}
        /\ pc' \notin {"record", "switch"}
    BY <1>4 DEF Connect, OpenCollector, StartPlayback, Put, DownloadRaises, Same, Before, After,
                MainInv, MainTypes
  <2> QED
    BY <1>3, <2>1 DEF Before
<1>5. ASSUME NEW choice \in Indexes, Select(choice) PROVE Recorded' /\ Counted'
  BY <1>5 DEF Select, Recorded, Counted, After
<1>6. CASE Downloaded
  BY <1>0, <1>6 DEF Downloaded, Recorded, Counted, After
<1>7. CASE RecordSwitch
  <2> DEFINE row == [segment_id |-> seg, from |-> current, to |-> index]
  <2>1. /\ pc = "switch" /\ pc' = "put" /\ rows' = [rows EXCEPT !.switches = Append(@, row)]
        /\ UNCHANGED <<seg, index, nSwitches, qualities>>
    BY <1>7 DEF RecordSwitch
  <2>2. row \in SwitchRows
    BY <1>7, <2>1, <1>0 DEF MainInv, MainTypes, Progress, Turn, SwitchRows, SegmentIds
  <2> HIDE DEF row
  <2>3. Len(Append(rows.switches, row)) = Len(rows.switches) + 1
    BY <1>0, <2>2, AppendProperties
  <2>4. rows'.segments = rows.segments /\ rows'.switches = Append(rows.switches, row)
    BY <2>1 DEF MainInv, MainTypes
  <2> QED
    BY <2>1, <2>3, <2>4 DEF Recorded, Counted, After
<1>8. CASE PutReturns
  <2>1. /\ pc = "putting" /\ pc' = "record" /\ qualities' = Append(qualities, index)
        /\ UNCHANGED <<seg, index, nSwitches, rows>>
    BY <1>8 DEF PutReturns
  <2>2. PICK n \in Nat : n = Len(qualities)
    BY <1>0
  <2>3. /\ Len(qualities') = n + 1 /\ qualities'[n + 1] = index
        /\ \A k \in 1..n : qualities'[k] = qualities[k]
    BY <1>0, <2>1, <2>2, AppendProperties
  <2>4. PICK m \in Nat : m = Len(rows.segments)
    BY <1>0
  <2>5. m <= n /\ n = seg - 1
    BY <2>1, <2>2, <2>4 DEF Recorded, MainInv, Progress
  <2>6. \A k \in 1..m : k \in 1..n
    BY <2>5
  <2>7. seg = n + 1 /\ m <= n + 1
    BY <1>0, <2>5
  <2> QED
    BY <2>1, <2>3, <2>4, <2>6, <2>7 DEF Recorded, Counted, After
<1>9. CASE RecordSegment
  <2> DEFINE row == [segment_id |-> seg, index |-> index]
  <2>1. /\ pc = "record" /\ pc' = "select" /\ rows' = [rows EXCEPT !.segments = Append(@, row)]
        /\ UNCHANGED <<seg, index, nSwitches, qualities>>
    BY <1>9 DEF RecordSegment
  <2>2. row \in SegmentRows /\ row.index = index
    BY <1>0, <2>1 DEF MainInv, MainTypes, Progress, Turn, SegmentRows, SegmentIds
  <2> HIDE DEF row
  <2>3. PICK m \in Nat : m = Len(rows.segments)
    BY <1>0
  <2>4. /\ Len(Append(rows.segments, row)) = m + 1
        /\ Append(rows.segments, row)[m + 1] = row
        /\ \A k \in 1..m : Append(rows.segments, row)[k] = rows.segments[k]
    BY <1>0, <2>2, <2>3, AppendProperties
  <2>5. rows'.segments = Append(rows.segments, row) /\ rows'.switches = rows.switches
    BY <2>1 DEF MainInv, MainTypes
  <2>6. m = seg - 1 /\ Len(qualities) = seg
    BY <2>1, <2>3 DEF MainInv, Progress, Turn
  <2>7. m + 1 = seg /\ \A k \in 1..(m + 1) : k \in 1..m \/ k = seg
    BY <1>0, <2>6
  <2>8. qualities[seg] = index /\ \A k \in 1..m : rows.segments[k].index = qualities[k]
    BY <2>1, <2>3 DEF Recorded
  <2>9. \A k \in 1..(m + 1) : rows'.segments[k].index = qualities[k]
    BY <2>2, <2>4, <2>5, <2>7, <2>8
  <2> QED
    BY <1>0, <2>1, <2>4, <2>5, <2>6, <2>7, <2>9 DEF Recorded, Counted, After
<1>10. CASE LoopEnds
  <2>1. pc = "select" /\ seg = SegmentCount /\ pc' = "joining" /\ Same
    BY <1>10 DEF LoopEnds, Same
  <2>2. Len(rows.segments) = SegmentCount
    BY <2>1 DEF MainInv, Progress
  <2> QED
    BY <1>3, <2>1, <2>2
<1>11. CASE Join
  <2>1. Same /\ pc \in {"joining", "unwinding"}
        /\ pc' = (IF pc = "joining" THEN "rebuffers" ELSE "raised")
    BY <1>11 DEF Join, Same
  <2> QED
    BY <1>3, <2>1 DEF Recorded, After
<1>12. CASE RecordRebuffer \/ ComputeQoe \/ RecordQoe \/ Summarise
  <2>1. Same /\ pc \in After /\ pc' \in After
    BY <1>12 DEF RecordRebuffer, ComputeQoe, RecordQoe, Summarise, Same, After, MainInv, MainTypes
  <2> QED
    BY <1>3, <2>1 DEF Recorded, After
<1>13. CASE DatabaseRaises
  <2>1. Same /\ pc' \in {"unwinding", "raised"} /\ (pc # "switch" \/ pc' = "unwinding")
    BY <1>13 DEF DatabaseRaises, Same
  <2> QED
    BY <1>3, <2>1 DEF After
<1> QED
  BY <1>2, <1>4, <1>5, <1>6, <1>7, <1>8, <1>9, <1>10, <1>11, <1>12, <1>13
     DEF Next, MainStep

\* The playback thread appends to the events, and only before the join returns.
LEMMA EventsGrow ==
  ASSUME PlayerInv, Noted, PlayerStep \/ GiveUp
  PROVE  \/ report'.events = report.events
         \/ \E event \in Events : report'.events = Append(report.events, event)
<1>0. report = [played |-> report.played, last |-> report.last,
                seconds |-> report.seconds, events |-> report.events]
  BY DEF PlayerInv, PlayerTypes
<1>1. CASE StallNoted
  <2> DEFINE event == [segment_id |-> held, duration |-> stall]
  <2>1. /\ stall # 0
        /\ report' = [report EXCEPT !.events = Append(@, event), !.played = @ + 1, !.last = held]
    BY <1>1 DEF StallNoted
  <2>2. event \in Events
    BY <2>1, SessionAssumption DEF Events, PlayerInv, PlayerTypes
  <2> HIDE DEF event
  <2>3. report'.events = Append(report.events, event)
    BY <1>0, <2>1
  <2> QED
    BY <2>2, <2>3
<1>2. CASE PollTakes \/ StallIgnored
  BY <1>0, <1>2 DEF PollTakes, StallIgnored, Consume
<1>3. ASSUME NEW length \in 1..MaxStall, StallCounted(length)
      PROVE  report'.events = report.events
  BY <1>0, <1>3 DEF StallCounted
<1>4. CASE Poll \/ PollWaits \/ PollMisses \/ Played \/ GiveUp
  BY <1>4 DEF Poll, PollWaits, PollMisses, Played, GiveUp, playerVars
<1> QED
  BY <1>1, <1>2, <1>3, <1>4 DEF PlayerStep

LEMMA CopiedKept ==
  MainInv /\ PlayerInv /\ Noted /\ Copied /\ [Next]_vars => Copied'
<1> SUFFICES ASSUME MainInv, PlayerInv, Noted, Copied, [Next]_vars PROVE Copied'
  OBVIOUS
<1>0. /\ report.events \in Seq(Events) /\ Len(report.events) \in Nat
      /\ rows.rebuffers \in Seq(Events) /\ Len(rows.rebuffers) \in Nat
  BY LenProperties DEF Noted, EventList, Copied
<1>1. ASSUME rows'.rebuffers = rows.rebuffers, report'.events = report.events PROVE Copied'
  BY <1>1 DEF Copied
<1>2. CASE MainStep /\ ~RecordRebuffer
  <2>1. rows'.rebuffers = rows.rebuffers
    BY <1>2 DEF MainStep, Connect, OpenCollector, StartPlayback, Select, Downloaded,
       DownloadRaises, RecordSwitch, Put, PutBlocks, PutReturns, RecordSegment, LoopEnds, Join,
       ComputeQoe, RecordQoe, Summarise, DatabaseRaises, MainInv, MainTypes, mainVars
  <2>2. report' = report
    BY <1>2 DEF MainStep, Connect, OpenCollector, StartPlayback, Select, Downloaded,
       DownloadRaises, RecordSwitch, Put, PutBlocks, PutReturns, RecordSegment, LoopEnds, Join,
       ComputeQoe, RecordQoe, Summarise, DatabaseRaises, playerVars
  <2> QED
    BY <1>1, <2>1, <2>2
<1>3. CASE RecordRebuffer
  <2> DEFINE n == Len(rows.rebuffers)
             x == report.events[n + 1]
  <2>1. /\ n < Len(report.events) /\ report' = report
        /\ rows' = [rows EXCEPT !.rebuffers = Append(@, x)]
    BY <1>3 DEF RecordRebuffer, playerVars
  <2>2. x \in Events
    BY <1>0, <2>1, ElementOfSeq
  <2> HIDE DEF x
  <2>3. rows'.rebuffers = Append(rows.rebuffers, x)
    BY <2>1 DEF MainInv, MainTypes
  <2>4. /\ rows'.rebuffers \in Seq(Events) /\ Len(rows'.rebuffers) = n + 1
        /\ rows'.rebuffers[n + 1] = x
        /\ \A k \in 1..n : rows'.rebuffers[k] = rows.rebuffers[k]
    BY <1>0, <2>2, <2>3, AppendProperties
  <2>5. x = report.events[n + 1] /\ \A k \in 1..n : rows.rebuffers[k] = report.events[k]
    BY DEF x, Copied
  <2> HIDE DEF n
  <2>6. n \in Nat /\ n + 1 <= Len(report.events) /\ \A k \in 1..(n + 1) : k \in 1..n \/ k = n + 1
    BY <1>0, <2>1 DEF n
  <2>7. \A k \in 1..(n + 1) : rows'.rebuffers[k] = report.events[k]
    BY <2>4, <2>5, <2>6
  <2> QED
    BY <2>1, <2>4, <2>6, <2>7 DEF Copied
<1>4. CASE PlayerStep \/ GiveUp
  <2>1. rows' = rows
    BY <1>4 DEF PlayerStep, GiveUp, Poll, PollWaits, PollTakes, PollMisses, StallIgnored,
       StallCounted, StallNoted, Played, mainVars
  <2>2. CASE report'.events = report.events
    BY <1>1, <2>1, <2>2
  <2>3. ASSUME NEW event \in Events, report'.events = Append(report.events, event)
        PROVE  Copied'
    <3>1. PICK m \in Nat : m = Len(report.events)
      BY <1>0
    <3>2. /\ Len(report'.events) = m + 1
          /\ \A k \in 1..m : report'.events[k] = report.events[k]
      BY <1>0, <2>3, <3>1, AppendProperties
    <3>3. PICK n \in Nat : n = Len(rows.rebuffers)
      BY <1>0
    <3>4. n <= m + 1 /\ \A k \in 1..n : k \in 1..m
      BY <3>1, <3>3 DEF Copied
    <3>5. \A k \in 1..n : rows.rebuffers[k] = report'.events[k]
      BY <3>2, <3>3, <3>4 DEF Copied
    <3> QED
      BY <1>0, <2>1, <3>2, <3>3, <3>4, <3>5 DEF Copied
  <2> QED
    BY <1>4, <2>2, <2>3, EventsGrow
<1>5. CASE Finished \/ UNCHANGED vars
  BY <1>1, <1>5 DEF Finished, vars, mainVars, playerVars
<1> QED
  BY <1>2, <1>3, <1>4, <1>5 DEF Next

\* compute_qoe, record_qoe and the summary read the same report.
LEMMA WrittenKept ==
  MainInv /\ PlayerInv /\ Written /\ Frozen /\ [Next]_vars => Written'
<1> SUFFICES ASSUME MainInv, PlayerInv, Written, Frozen, [Next]_vars PROVE Written'
  OBVIOUS
<1>1. ASSUME pc' \notin {"qoe", "summary", "done"} PROVE Written'
  BY <1>1 DEF Written
<1>2. ASSUME pc \in After, report'.events = report.events, report'.seconds = report.seconds,
             UNCHANGED <<nSwitches, qualities>>
      PROVE  UNCHANGED <<Score, Row, Summary>>
  BY <1>2 DEF Score, Row, Summary
<1>3. CASE ComputeQoe
  <2>1. /\ pc' = "qoe" /\ qoe' = << Score >> /\ UNCHANGED <<rows, report, qualities, nSwitches>>
        /\ Len(rows.rebuffers) = Len(report.events)
    BY <1>3 DEF ComputeQoe, playerVars, Score
  <2>2. Score' = Score
    BY <2>1 DEF Score
  <2> QED
    BY <2>1, <2>2 DEF Written
<1>4. CASE RecordQoe
  <2>1. /\ pc = "qoe" /\ pc' = "summary" /\ UNCHANGED <<qoe, report, qualities, nSwitches>>
        /\ rows' = [rows EXCEPT !.qoe = << [score |-> qoe[1], seconds |-> report.seconds,
                                            switches |-> nSwitches] >>]
    BY <1>4 DEF RecordQoe, playerVars
  <2>2. Len(rows.rebuffers) = Len(report.events) /\ qoe = << Score >>
    BY <2>1 DEF Written
  <2>3. qoe[1] = Score
    BY <2>2
  <2>4. rows' = [rows EXCEPT !.qoe = << Row >>]
    BY <2>1, <2>3 DEF Row
  <2>5. rows'.qoe = << Row >> /\ rows'.rebuffers = rows.rebuffers
    BY <2>4 DEF MainInv, MainTypes
  <2>6. UNCHANGED <<Score, Row>>
    BY <2>1 DEF Score, Row
  <2> QED
    BY <2>1, <2>2, <2>5, <2>6 DEF Written
<1>5. CASE Summarise
  <2>1. /\ pc = "summary" /\ pc' = "done" /\ UNCHANGED <<qoe, report, qualities, nSwitches>>
        /\ rows' = [rows EXCEPT !.collector = "closed"]
        /\ summary' = << [score |-> qoe[1], seconds |-> report.seconds,
                          switches |-> nSwitches, segments |-> Len(qualities)] >>
    BY <1>5 DEF Summarise, playerVars
  <2>2. /\ Len(rows.rebuffers) = Len(report.events) /\ qoe = << Score >>
        /\ rows.qoe = << Row >>
    BY <2>1 DEF Written
  <2>3. qoe[1] = Score
    BY <2>2
  <2>4. summary' = << Summary >>
    BY <2>1, <2>3 DEF Summary
  <2>5. rows'.qoe = rows.qoe /\ rows'.rebuffers = rows.rebuffers
    BY <2>1 DEF MainInv, MainTypes
  <2>6. UNCHANGED <<Score, Row, Summary>>
    BY <2>1 DEF Score, Row, Summary
  <2> QED
    BY <2>1, <2>2, <2>4, <2>5, <2>6 DEF Written
<1>6. CASE \/ Connect \/ OpenCollector \/ StartPlayback \/ Downloaded \/ DownloadRaises
           \/ \E choice \in Indexes : Select(choice)
  BY <1>1, <1>6 DEF Connect, OpenCollector, StartPlayback, Downloaded, DownloadRaises, Select
<1>7. CASE RecordSwitch \/ Put \/ PutBlocks \/ PutReturns \/ RecordSegment
  BY <1>1, <1>7 DEF RecordSwitch, Put, PutBlocks, PutReturns, RecordSegment, mainVars
<1>8. CASE LoopEnds \/ Join \/ RecordRebuffer \/ DatabaseRaises
  BY <1>1, <1>8 DEF LoopEnds, Join, RecordRebuffer, DatabaseRaises
<1>9. CASE PlayerStep \/ GiveUp \/ Finished \/ UNCHANGED vars
  <2>1. UNCHANGED mainVars
    BY <1>9 DEF PlayerStep, GiveUp, Poll, PollWaits, PollTakes, PollMisses, StallIgnored,
       StallCounted, StallNoted, Played, Finished, vars
  <2>2. CASE pc \in After
    <3>1. report'.events = report.events /\ report'.seconds = report.seconds
      BY <2>2 DEF Frozen
    <3>2. UNCHANGED <<Score, Row, Summary>>
      BY <1>2, <2>1, <2>2, <3>1 DEF mainVars
    <3> QED
      BY <2>1, <3>1, <3>2 DEF Written, mainVars
  <2>3. CASE pc \notin After
    BY <1>1, <2>1, <2>3 DEF After, mainVars
  <2> QED
    BY <2>2, <2>3
<1> QED
  BY <1>3, <1>4, <1>5, <1>6, <1>7, <1>8, <1>9 DEF Next, MainStep

LEMMA QoeKept ==
  ~PlaybackMayLag /\ MainInv /\ PlayerInv /\ Buffer!TypeOK /\ QoeInv /\ [Next]_vars
    => QoeInv'
BY NotedKept, QuietKept, RecordedKept, CopiedKept, WrittenKept DEF QoeInv

\* The recorded qualities are those of the segments.
LEMMA QualitiesRecorded ==
  ASSUME MainInv, Recorded, pc = "done"
  PROVE  /\ [k \in 1..Len(rows.segments) |-> IndexOf(k)] = qualities
         /\ Len(rows.segments) = Len(qualities)
<1>1. Len(rows.segments) = SegmentCount /\ Len(qualities) = SegmentCount
  BY DEF Recorded, After, MainInv, Progress
<1>2. qualities = [k \in 1..SegmentCount |-> qualities[k]]
  BY <1>1, SeqDef, LenProperties DEF MainInv, MainTypes
<1>3. \A k \in 1..SegmentCount : IndexOf(k) = qualities[k]
  BY <1>1, SessionAssumption DEF Recorded, IndexOf
<1>4. [k \in 1..SegmentCount |-> IndexOf(k)] = [k \in 1..SegmentCount |-> qualities[k]]
  BY <1>3
<1> QED
  BY <1>1, <1>2, <1>4

\* The rebuffer rows hold the seconds of the events they were copied from.
LEMMA RowsStalled ==
  ASSUME Copied
  PROVE  StalledIn(rows.rebuffers)
           = SumOver(1..Len(rows.rebuffers), Durations(report.events))
<1> DEFINE n == Len(rows.rebuffers)
<1>1. n \in Nat /\ Len(report.events) >= n
  BY LenProperties DEF Copied
<1>2. \A k \in 1..n : Durations(rows.rebuffers)[k] = rows.rebuffers[k].duration
  BY DEF Durations
<1>3. \A k \in 1..n : Durations(report.events)[k] = report.events[k].duration
  <2> SUFFICES ASSUME NEW k \in 1..n PROVE k \in 1..Len(report.events)
    BY DEF Durations
  <2> QED
    BY <1>1
<1>4. \A k \in 1..n : Durations(rows.rebuffers)[k] = Durations(report.events)[k]
  BY <1>2, <1>3 DEF Copied
<1>5. SumOver(1..n, Durations(rows.rebuffers)) = SumOver(1..n, Durations(report.events))
  BY <1>4, SumExtensional
<1> QED
  BY <1>5, StalledIsSum

\* Copied in full, they are the events.
LEMMA RowsComplete ==
  ASSUME Noted, Copied, Len(rows.rebuffers) = Len(report.events)
  PROVE  report.seconds = StalledIn(rows.rebuffers) + stall
BY RowsStalled, StalledIsSum DEF Noted

\* If playback keeps up with the join, the score agrees with the rows and the
\* summary with both: what the playback thread may still do after it changes neither
\* the seconds nor the events (client.py:183-206, playback_controller.py:65-68).
THEOREM QoeAgrees == ~PlaybackMayLag => (Spec => []QoeMatchesRows)
<1> SUFFICES ASSUME ~PlaybackMayLag PROVE Spec => []QoeMatchesRows
  OBVIOUS
<1>1. MainInv /\ QoeInv => QoeMatchesRows
  <2> SUFFICES ASSUME MainInv, QoeInv, pc = "done" PROVE QoeMatchesRows
    BY DEF QoeMatchesRows
  <2> DEFINE stalled == StalledIn(rows.rebuffers)
  <2>1. /\ Len(rows.rebuffers) = Len(report.events)
        /\ rows.qoe = << Row >> /\ summary = << Summary >>
    BY DEF QoeInv, Written
  <2>2. report.seconds = stalled
    <3>1. stall = 0 /\ report.seconds = StalledIn(report.events) + stall
      BY DEF QoeInv, Noted, Quiet, After
    <3>2. report.seconds = stalled + stall
      BY <2>1, RowsComplete DEF QoeInv
    <3>3. stalled \in Nat
      BY <2>1, RowsStalled, StalledIsSum, StalledIsNat DEF QoeInv, Noted
    <3> QED
      BY <3>1, <3>2, <3>3
  <2>3. /\ Len(rows.segments) = Len(qualities)
        /\ [k \in 1..Len(rows.segments) |-> IndexOf(k)] = qualities
    BY QualitiesRecorded DEF QoeInv
  <2>4. nSwitches = Len(rows.switches)
    BY DEF QoeInv, Counted
  <2> HIDE DEF stalled
  <2>5. Score = ScoreOf(stalled)
    BY <2>2, <2>3, <2>4 DEF Score, ScoreOf
  <2>6. /\ rows.qoe = << [score |-> ScoreOf(stalled), seconds |-> stalled,
                          switches |-> Len(rows.switches)] >>
        /\ summary = << [score |-> ScoreOf(stalled), seconds |-> stalled,
                         switches |-> Len(rows.switches), segments |-> Len(rows.segments)] >>
    BY <2>1, <2>2, <2>3, <2>4, <2>5 DEF Row, Summary
  <2> QED
    BY <2>2, <2>6 DEF QoeMatchesRows, stalled
<1>2. MainInv /\ PlayerInv /\ Buffer!TypeOK /\ QoeInv /\ [Next]_vars => QoeInv'
  BY QoeKept
<1> QED
  BY <1>1, <1>2, QoeInitially, Invariants, PTL DEF Spec

-----------------------------------------------------------------------------
(* The score, when the join gives up on a thread that still plays *)

\* A stall that has begun and is not noted yet.
StallComing == playerPc \in {"stalled", "noting"}

\* The playback thread asks for more only while there is more to play.
Hungry == playerPc = "steady" => report.played < SegmentCount

\* A reading of the seconds stalled, from before the last stall was counted or after.
Reading(x) ==
  LET stalled == StalledIn(rows.rebuffers) IN
  x \in Nat /\ x \in {stalled, report.seconds} /\ stalled <= x /\ x <= report.seconds

ScoreRead == [qualities |-> qualities, seconds |-> qoe[1].seconds, switches |-> nSwitches]

\* Once the rows are copied one event more may come, that of the stall under way.
OneStallMore ==
  /\ Len(report.events) <= Len(rows.rebuffers) + 1
  /\ StallComing => Len(report.events) = Len(rows.rebuffers)

Near ==
  /\ pc \in {"qoe", "summary", "done"} =>
       OneStallMore /\ qoe = << ScoreRead >> /\ Reading(qoe[1].seconds)
  /\ pc \in {"summary", "done"} =>
       /\ rows.qoe = << [score |-> ScoreRead, seconds |-> rows.qoe[1].seconds,
                         switches |-> nSwitches] >>
       /\ Reading(rows.qoe[1].seconds) /\ qoe[1].seconds <= rows.qoe[1].seconds
  /\ pc = "done" =>
       /\ summary = << [score |-> ScoreRead, seconds |-> summary[1].seconds,
                        switches |-> nSwitches, segments |-> Len(qualities)] >>
       /\ Reading(summary[1].seconds) /\ rows.qoe[1].seconds <= summary[1].seconds

NearInv == Noted /\ Recorded /\ Counted /\ Copied /\ Hungry /\ Near

LEMMA NearInitially == Init => NearInv
<1> SUFFICES ASSUME Init PROVE NearInv
  OBVIOUS
<1>1. Hungry /\ Near
  BY DEF Init, Hungry, Near
<1> QED
  BY <1>1, QoeInitially DEF NearInv, QoeInv

LEMMA HungryKept == Hungry /\ [Next]_vars => Hungry'
<1> SUFFICES ASSUME Hungry, [Next]_vars PROVE Hungry'
  OBVIOUS
<1>1. CASE UNCHANGED playerVars
  BY <1>1 DEF Hungry, playerVars
<1>2. CASE MainStep
  BY <1>1, <1>2 DEF MainStep, Connect, OpenCollector, Select, Downloaded, DownloadRaises,
     RecordSwitch, Put, PutBlocks, PutReturns, RecordSegment, LoopEnds, Join, RecordRebuffer,
     ComputeQoe, RecordQoe, Summarise, DatabaseRaises, StartPlayback, Hungry
<1>3. CASE Poll \/ PollWaits \/ Finished \/ UNCHANGED vars
  BY <1>1, <1>3 DEF Poll, PollWaits, Finished, vars
<1>4. CASE PollMisses \/ PollTakes \/ Played \/ GiveUp
  BY <1>4 DEF PollMisses, PollTakes, Played, GiveUp, Consume, Hungry
<1>5. CASE StallIgnored \/ StallNoted \/ \E length \in 1..MaxStall : StallCounted(length)
  BY <1>5 DEF StallIgnored, StallNoted, StallCounted, Consume, Hungry
<1> QED
  BY <1>2, <1>3, <1>4, <1>5 DEF Next, PlayerStep

\* After the join no stall begins, since everything has been put: the playback
\* thread can add the seconds of the stall under way, and then its event.
LEMMA LateStall ==
  ASSUME MainInv, PlayerInv, Buffer!TypeOK, Noted, Hungry, pc \in After,
         PlayerStep \/ GiveUp
  PROVE  \/ /\ report'.events = report.events /\ report'.seconds = report.seconds
            /\ StallComing' => StallComing
         \/ /\ StallComing /\ stall = 0 /\ report'.events = report.events
            /\ report'.seconds \in Nat /\ report.seconds <= report'.seconds
         \/ /\ StallComing /\ ~StallComing' /\ report'.seconds = report.seconds
            /\ \E event \in Events : report'.events = Append(report.events, event)
<1>0. /\ report = [played |-> report.played, last |-> report.last,
                   seconds |-> report.seconds, events |-> report.events]
      /\ report.played \in Nat /\ report.seconds \in Nat /\ MaxStall \in Nat
  BY SessionAssumption DEF PlayerInv, PlayerTypes
<1>1. CASE Poll \/ PollWaits \/ Played \/ GiveUp
  BY <1>1 DEF Poll, PollWaits, Played, GiveUp, StallComing, playerVars
<1>2. CASE PollMisses
  <2>1. deque = << >> /\ Inside(Player) /\ report' = report
    BY <1>2, GetMissed DEF PollMisses, Buffer!GetNone
  <2>2. playerPc \in {"startup", "steady", "stalled"}
    BY <2>1 DEF PlayerInv, Places
  <2>3. playerPc # "steady"
    <3>1. held = 0
      BY <2>2 DEF PlayerInv, Places
    <3>2. Len(deque) = 0 /\ Len(qualities) = SegmentCount
      BY <2>1, EmptySeq DEF MainInv, Progress
    <3>3. report.played = SegmentCount
      BY <3>1, <3>2, Counts
    <3> QED
      BY <3>3, Counts DEF Hungry
  <2>4. playerPc' = playerPc
    BY <1>2, <2>3 DEF PollMisses
  <2> QED
    BY <2>1, <2>4 DEF StallComing
<1>3. CASE PollTakes
  <2>1. playerPc' = "noting" => StallComing
    BY <1>3 DEF PollTakes, Consume, StallComing
  <2>2. report'.events = report.events /\ report'.seconds = report.seconds
    BY <1>0, <1>3 DEF PollTakes, Consume
  <2>3. playerPc' \in {"noting", "playing"}
    BY <1>3 DEF PollTakes, Consume
  <2> QED
    BY <2>1, <2>2, <2>3 DEF StallComing
<1>4. CASE StallIgnored
  <2>1. report'.events = report.events /\ report'.seconds = report.seconds
    BY <1>0, <1>4 DEF StallIgnored, Consume
  <2>2. playerPc' = "playing"
    BY <1>4 DEF StallIgnored, Consume
  <2> QED
    BY <2>1, <2>2 DEF StallComing
<1>5. ASSUME NEW length \in 1..MaxStall, StallCounted(length)
      PROVE  /\ StallComing /\ stall = 0 /\ report'.events = report.events
             /\ report'.seconds \in Nat /\ report.seconds <= report'.seconds
  <2>1. /\ playerPc = "noting" /\ stall = 0
        /\ report' = [report EXCEPT !.seconds = @ + length]
    BY <1>5 DEF StallCounted
  <2>2. report'.events = report.events /\ report'.seconds = report.seconds + length
    BY <1>0, <2>1
  <2> QED
    BY <1>0, <2>1, <2>2 DEF StallComing
<1>6. CASE StallNoted
  <2>1. StallComing /\ ~StallComing'
    BY <1>6 DEF StallNoted, StallComing
  <2>2. report'.seconds = report.seconds
    BY <1>0, <1>6 DEF StallNoted
  <2>3. report'.events = report.events
          \/ \E event \in Events : report'.events = Append(report.events, event)
    BY <1>6, EventsGrow DEF PlayerStep
  <2> QED
    BY <2>1, <2>2, <2>3
<1> QED
  BY <1>1, <1>2, <1>3, <1>4, <1>5, <1>6 DEF PlayerStep

\* The seconds of the report lie between those of the rows and those of the rows and
\* a stall.
LEMMA OneStallApart ==
  ASSUME PlayerInv, Noted, Copied, OneStallMore
  PROVE  /\ StalledIn(rows.rebuffers) \in Nat /\ report.seconds \in Nat
         /\ StalledIn(rows.rebuffers) <= report.seconds
         /\ report.seconds <= StalledIn(rows.rebuffers) + MaxStall
         /\ Len(report.events) = Len(rows.rebuffers) =>
              report.seconds = StalledIn(rows.rebuffers) + stall
<1> DEFINE n == Len(rows.rebuffers)
           m == Len(report.events)
           D == Durations(report.events)
           stalled == StalledIn(rows.rebuffers)
<1>1. n \in Nat /\ m \in Nat /\ n <= m /\ m <= n + 1
  BY LenProperties DEF Copied, Noted, EventList, OneStallMore
<1>2. stalled = SumOver(1..n, D)
  BY RowsStalled
<1>3. Summable(1..m, D) /\ report.seconds = SumOver(1..m, D) + stall
  BY StalledIsSum DEF Noted, EventList
<1>4. stall \in Nat /\ stall <= MaxStall /\ MaxStall \in Nat
  BY SessionAssumption DEF PlayerInv, PlayerTypes
<1>5. SumOver(1..m, D) \in Nat
  BY <1>3, SumIsNat
<1>6. CASE m = n
  BY <1>2, <1>3, <1>4, <1>5, <1>6
<1>7. CASE m # n
  <2>1. m = n + 1
    BY <1>1, <1>7
  <2>2. stall = 0
    <3>1. ~StallComing
      BY <1>7 DEF OneStallMore
    <3> QED
      BY <3>1 DEF Noted, StallComing
  <2>3. D[m] \in 1..MaxStall
    <3>1. m \in 1..m /\ report.events \in Seq(Events)
      BY <1>1, <2>1 DEF Noted, EventList
    <3>2. report.events[m] \in Events
      BY <3>1, ElementOfSeq
    <3>3. D[m] = report.events[m].duration
      BY <3>1 DEF Durations
    <3> QED
      BY <3>2, <3>3 DEF Events
  <2> HIDE DEF n, m, D, stalled
  <2>4. Summable(1..n, D) /\ SumOver(1..m, D) = SumOver(1..n, D) + D[m]
    <3>1. 1..n \subseteq 1..m /\ m \notin 1..n /\ 1..m = (1..n) \cup {m}
      BY <1>1, <2>1
    <3>2. Summable(1..n, D)
      BY <1>3, <3>1, SumOfFewer
    <3>3. D[m] \in Nat
      BY <1>4, <2>3
    <3>4. IsAdded(1..n, D, m, 1..m, D)
      BY <3>1, <3>3 DEF IsAdded
    <3> QED
      BY <3>2, <3>4, SumOfOneMore
  <2>5. SumOver(1..n, D) \in Nat
    BY <2>4, SumIsNat
  <2>6. /\ stalled \in Nat /\ report.seconds = stalled + D[m]
        /\ D[m] \in Nat /\ D[m] <= MaxStall
    BY <1>2, <1>3, <1>4, <2>2, <2>3, <2>4, <2>5
  <2> QED
    BY <1>4, <1>7, <2>6 DEF n, m, stalled
<1> QED
  BY <1>6, <1>7

\* A reading stays one.
LEMMA ReadingKept ==
  ASSUME NEW x, Reading(x), rows'.rebuffers = rows.rebuffers,
         report'.seconds \in Nat, report.seconds <= report'.seconds,
         report'.seconds = report.seconds \/ report.seconds = StalledIn(rows.rebuffers)
  PROVE  /\ report'.seconds \in Nat
         /\ x \in Nat /\ x \in {StalledIn(rows.rebuffers)', report'.seconds}
         /\ StalledIn(rows.rebuffers)' <= x /\ x <= report'.seconds
<1> DEFINE stalled == StalledIn(rows.rebuffers)
           before == report.seconds
           after == report'.seconds
<1>1. stalled' = stalled
  OBVIOUS
<1>2. /\ x \in Nat /\ x \in {stalled, before} /\ stalled <= x /\ x <= before
      /\ after \in Nat /\ before <= after /\ (after = before \/ before = stalled)
  BY DEF Reading
<1> HIDE DEF stalled, before, after
<1>3. x \in {stalled, after} /\ stalled <= x /\ x <= after
  <2>1. CASE after = before
    BY <1>2, <2>1
  <2>2. CASE before = stalled
    <3>1. before \in Nat
      BY <1>2, <2>2
    <3> QED
      BY <1>2, <2>2, <3>1
  <2> QED
    BY <1>2, <2>1, <2>2
<1> QED
  BY <1>1, <1>2, <1>3 DEF stalled, after

\* What run_session has written stays as it was read, while the report may go on.
LEMMA NearSame ==
  ASSUME Near, UNCHANGED mainVars, OneStallMore', report'.seconds \in Nat,
         report.seconds <= report'.seconds,
         report'.seconds = report.seconds \/ report.seconds = StalledIn(rows.rebuffers)
  PROVE  Near'
<1>1. \A x : Reading(x) => Reading(x)'
  <2> SUFFICES ASSUME NEW x, Reading(x) PROVE Reading(x)'
    OBVIOUS
  <2>1. rows'.rebuffers = rows.rebuffers
    BY DEF mainVars
  <2> QED
    BY <2>1, ReadingKept DEF Reading
<1>2. /\ pc' = pc /\ qoe' = qoe /\ rows' = rows /\ summary' = summary
      /\ nSwitches' = nSwitches /\ qualities' = qualities
  BY DEF mainVars
<1> QED
  BY <1>1, <1>2 DEF Near, ScoreRead

LEMMA NearKept ==
  MainInv /\ PlayerInv /\ Buffer!TypeOK /\ NearInv /\ [Next]_vars => Near'
<1> SUFFICES ASSUME MainInv, PlayerInv, Buffer!TypeOK, NearInv, [Next]_vars PROVE Near'
  OBVIOUS
<1>0. Noted /\ Copied /\ Near
  BY DEF NearInv
<1>1. ASSUME pc' \notin {"qoe", "summary", "done"} PROVE Near'
  BY <1>1 DEF Near
<1>2. OneStallMore => Reading(report.seconds)
  BY <1>0, OneStallApart DEF Reading
<1>3. CASE ComputeQoe
  <2>1. /\ pc' = "qoe" /\ Len(report.events) = Len(rows.rebuffers)
        /\ qoe' = << [qualities |-> qualities, seconds |-> report.seconds,
                      switches |-> nSwitches] >>
        /\ UNCHANGED <<rows, qualities, nSwitches, report, playerPc>>
    BY <1>3 DEF ComputeQoe, playerVars
  <2>2. Len(report.events) \in Nat
    BY <1>0, LenProperties DEF Noted, EventList
  <2>3. OneStallMore
    BY <2>1, <2>2 DEF OneStallMore
  <2>4. OneStallMore' /\ Reading(report.seconds)'
    BY <1>2, <2>1, <2>3 DEF OneStallMore, StallComing, Reading
  <2>5. qoe'[1].seconds = report'.seconds /\ qoe' = << ScoreRead' >>
    BY <2>1 DEF ScoreRead
  <2> QED
    BY <2>1, <2>4, <2>5 DEF Near
<1>4. CASE RecordQoe
  <2> DEFINE row == [score |-> qoe[1], seconds |-> report.seconds, switches |-> nSwitches]
  <2>1. /\ pc = "qoe" /\ pc' = "summary" /\ rows' = [rows EXCEPT !.qoe = << row >>]
        /\ UNCHANGED <<qoe, qualities, nSwitches, report, playerPc>>
    BY <1>4 DEF RecordQoe, playerVars
  <2>2. rows'.qoe = << row >> /\ rows'.rebuffers = rows.rebuffers
    BY <2>1 DEF MainInv, MainTypes
  <2>3. OneStallMore /\ qoe = << ScoreRead >> /\ Reading(qoe[1].seconds)
    BY <1>0, <2>1 DEF Near
  <2>4. OneStallMore' /\ Reading(qoe[1].seconds)' /\ Reading(report.seconds)'
    BY <1>2, <2>1, <2>2, <2>3 DEF OneStallMore, StallComing, Reading
  <2>5. ScoreRead' = ScoreRead /\ qoe[1] = ScoreRead
    BY <2>1, <2>3 DEF ScoreRead
  <2>6. rows'.qoe[1].seconds = report'.seconds /\ qoe'[1].seconds <= report'.seconds
    BY <2>1, <2>2, <2>3 DEF Reading
  <2> QED
    BY <2>1, <2>2, <2>3, <2>4, <2>5, <2>6 DEF Near
<1>5. CASE Summarise
  <2>1. /\ pc = "summary" /\ pc' = "done" /\ rows' = [rows EXCEPT !.collector = "closed"]
        /\ summary' = << [score |-> qoe[1], seconds |-> report.seconds,
                          switches |-> nSwitches, segments |-> Len(qualities)] >>
        /\ UNCHANGED <<qoe, qualities, nSwitches, report, playerPc>>
    BY <1>5 DEF Summarise, playerVars
  <2>2. rows'.qoe = rows.qoe /\ rows'.rebuffers = rows.rebuffers
    BY <2>1 DEF MainInv, MainTypes
  <2>3. /\ OneStallMore /\ qoe = << ScoreRead >> /\ Reading(qoe[1].seconds)
        /\ rows.qoe = << [score |-> ScoreRead, seconds |-> rows.qoe[1].seconds,
                          switches |-> nSwitches] >>
        /\ Reading(rows.qoe[1].seconds) /\ qoe[1].seconds <= rows.qoe[1].seconds
    BY <1>0, <2>1 DEF Near
  <2>4. /\ OneStallMore' /\ Reading(qoe[1].seconds)' /\ Reading(rows.qoe[1].seconds)'
        /\ Reading(report.seconds)'
    BY <1>2, <2>1, <2>2, <2>3 DEF OneStallMore, StallComing, Reading
  <2>5. ScoreRead' = ScoreRead /\ qoe[1] = ScoreRead
    BY <2>1, <2>3 DEF ScoreRead
  <2>6. summary'[1].seconds = report'.seconds /\ rows.qoe[1].seconds <= report.seconds
    BY <2>1, <2>3 DEF Reading
  <2> QED
    BY <2>1, <2>2, <2>3, <2>4, <2>5, <2>6 DEF Near
<1>6. CASE \/ Connect \/ OpenCollector \/ StartPlayback \/ Downloaded \/ DownloadRaises
           \/ \E choice \in Indexes : Select(choice)
  BY <1>1, <1>6 DEF Connect, OpenCollector, StartPlayback, Downloaded, DownloadRaises, Select
<1>7. CASE RecordSwitch \/ Put \/ PutBlocks \/ PutReturns \/ RecordSegment
  BY <1>1, <1>7 DEF RecordSwitch, Put, PutBlocks, PutReturns, RecordSegment, mainVars
<1>8. CASE LoopEnds \/ Join \/ RecordRebuffer \/ DatabaseRaises
  BY <1>1, <1>8 DEF LoopEnds, Join, RecordRebuffer, DatabaseRaises
<1>9. CASE PlayerStep \/ GiveUp
  <2>1. UNCHANGED mainVars
    BY <1>9 DEF PlayerStep, GiveUp, Poll, PollWaits, PollTakes, PollMisses, StallIgnored,
       StallCounted, StallNoted, Played
  <2> SUFFICES ASSUME pc \in {"qoe", "summary", "done"} PROVE Near'
    BY <1>1, <2>1 DEF mainVars
  <2>2. pc \in After /\ OneStallMore /\ rows' = rows
    BY <1>0, <2>1 DEF After, Near, mainVars
  <2>3. /\ report.seconds \in Nat /\ report.seconds <= report.seconds
        /\ Len(report.events) = Len(rows.rebuffers) =>
             report.seconds = StalledIn(rows.rebuffers) + stall
        /\ StalledIn(rows.rebuffers) \in Nat
    BY <1>0, <2>2, OneStallApart
  <2>4. CASE /\ report'.events = report.events /\ report'.seconds = report.seconds
             /\ StallComing' => StallComing
    <3>1. OneStallMore'
      BY <2>2, <2>4 DEF OneStallMore
    <3> QED
      BY <1>0, <2>1, <2>3, <2>4, <3>1, NearSame
  <2>5. CASE /\ StallComing /\ stall = 0 /\ report'.events = report.events
             /\ report'.seconds \in Nat /\ report.seconds <= report'.seconds
    <3>1. Len(report.events) = Len(rows.rebuffers) /\ Len(rows.rebuffers) \in Nat
      BY <1>0, <2>2, <2>5, LenProperties DEF OneStallMore, Copied
    <3>2. report.seconds = StalledIn(rows.rebuffers)
      BY <2>3, <2>5, <3>1
    <3>3. OneStallMore'
      BY <2>2, <2>5, <3>1 DEF OneStallMore
    <3> QED
      BY <1>0, <2>1, <2>5, <3>2, <3>3, NearSame
  <2>6. CASE /\ StallComing /\ ~StallComing' /\ report'.seconds = report.seconds
             /\ \E event \in Events : report'.events = Append(report.events, event)
    <3>1. Len(report.events) = Len(rows.rebuffers) /\ Len(rows.rebuffers) \in Nat
      BY <1>0, <2>2, <2>6, LenProperties DEF OneStallMore, Copied
    <3>2. Len(report'.events) = Len(report.events) + 1
      BY <1>0, <2>6, AppendProperties DEF Noted, EventList
    <3>3. OneStallMore'
      BY <2>2, <2>6, <3>1, <3>2 DEF OneStallMore
    <3> QED
      BY <1>0, <2>1, <2>3, <2>6, <3>3, NearSame
  <2>7. Hungry
    BY DEF NearInv
  <2> QED
    BY <1>0, <1>9, <2>2, <2>4, <2>5, <2>6, <2>7, LateStall
<1>10. CASE Finished \/ UNCHANGED vars
  BY <1>0, <1>10 DEF Finished, vars, mainVars, playerVars, Near, OneStallMore, StallComing,
                     ScoreRead, Reading
<1> QED
  BY <1>3, <1>4, <1>5, <1>6, <1>7, <1>8, <1>9, <1>10 DEF Next, MainStep

\* However the join ended, the score, its row and the summary differ from the rebuffer
\* rows, and from each other, by at most the one stall under way when it gave up, and
\* agree with the rows in everything else (client.py:183-206,
\* playback_controller.py:57-70).
THEOREM QoeAlmostAgrees == Spec => []QoeNearRows
<1>1. MainInv /\ PlayerInv /\ NearInv => QoeNearRows
  <2> SUFFICES ASSUME MainInv, PlayerInv, NearInv, pc = "done" PROVE QoeNearRows
    BY DEF QoeNearRows
  <2> DEFINE stalled == StalledIn(rows.rebuffers)
             row == rows.qoe[1]
             sum == summary[1]
  <2>1. /\ OneStallMore /\ qoe = << ScoreRead >>
        /\ rows.qoe = << [score |-> ScoreRead, seconds |-> row.seconds,
                          switches |-> nSwitches] >>
        /\ summary = << [score |-> ScoreRead, seconds |-> sum.seconds,
                         switches |-> nSwitches, segments |-> Len(qualities)] >>
    BY DEF NearInv, Near
  <2>2. /\ Reading(qoe[1].seconds) /\ Reading(row.seconds) /\ Reading(sum.seconds)
        /\ qoe[1].seconds <= row.seconds /\ row.seconds <= sum.seconds
    BY DEF NearInv, Near
  <2>3. /\ Len(rows.segments) = Len(qualities)
        /\ [k \in 1..Len(rows.segments) |-> IndexOf(k)] = qualities
    BY QualitiesRecorded DEF NearInv
  <2>4. nSwitches = Len(rows.switches)
    BY DEF NearInv, Counted
  <2>5. report.seconds <= stalled + MaxStall
    BY <2>1, OneStallApart DEF NearInv
  <2>6. /\ row.score = ScoreRead /\ row.switches = nSwitches
        /\ sum.score = ScoreRead /\ sum.switches = nSwitches
        /\ sum.segments = Len(qualities) /\ qoe[1].seconds = row.score.seconds
    BY <2>1
  <2>7. ScoreRead = ScoreOf(ScoreRead.seconds)
    BY <2>3, <2>4 DEF ScoreRead, ScoreOf
  <2>8. /\ stalled <= row.score.seconds /\ sum.seconds <= report.seconds
        /\ {row.score.seconds, row.seconds, sum.seconds} \subseteq {stalled, report.seconds}
    BY <2>2, <2>6 DEF Reading
  <2> QED
    BY <2>2, <2>3, <2>4, <2>5, <2>6, <2>7, <2>8 DEF QoeNearRows
<1>2. MainInv /\ PlayerInv /\ Buffer!TypeOK /\ NearInv /\ [Next]_vars => NearInv'
  BY NotedKept, RecordedKept, CopiedKept, HungryKept, NearKept DEF NearInv
<1> QED
  BY <1>1, <1>2, NearInitially, Invariants, PTL DEF Spec

-----------------------------------------------------------------------------
(* What holds of the buffer *)

\* Each instance has a Cardinality of its own.
LEMMA SameCardinality ==
  ASSUME NEW S
  PROVE  B!Cardinality(S) = Cardinality(S) /\ Buffer!Cardinality(S) = Cardinality(S)
BY Zenon DEF B!Cardinality, Buffer!Cardinality, Cardinality

\* In a session no wakeup is lost and no room is missed, and the level the ABR rule
\* is given is what the deque holds (buffer_manager.py:53-64, 70-79; client.py:127).
THEOREM BufferSound ==
  Spec => [](Buffer!NoLostWakeup /\ Buffer!NoMissedSpace /\ Buffer!LevelIsSum)
<1>1. B!OneDuration \/ B!OneProducer
  BY DEF B!OneDuration
<1>2. B!Spec => []B!NoLostWakeup
  BY Parameters, B!NoWakeupLost
<1>3. B!Spec => []B!NoMissedSpace
  BY <1>1, Parameters, B!NoSpaceMissed
<1>4. B!Spec => []B!LevelIsSum
  BY Parameters, B!LevelCorrect
<1>5. Buffer!Init => B!Init
  BY SameBuffer
<1>6. [Buffer!Next]_Buffer!vars => [B!Next]_B!vars
  BY SameBuffer DEF Buffer!vars, B!vars
<1>7. /\ B!NoLostWakeup => Buffer!NoLostWakeup
      /\ B!NoMissedSpace => Buffer!NoMissedSpace
  <2>1. \A S : B!Waiters(S) = Buffer!Waiters(S) /\ B!Notified(S) = Buffer!Notified(S)
    BY DEF B!Waiters, Buffer!Waiters, B!Notified, Buffer!Notified
  <2>2. \A S : B!Cardinality(S) = Buffer!Cardinality(S)
    BY SameCardinality
  <2> QED
    BY <2>1, <2>2 DEF B!NoLostWakeup, Buffer!NoLostWakeup, B!NoMissedSpace,
                      Buffer!NoMissedSpace
<1>8. B!LevelIsSum => Buffer!LevelIsSum
  BY DEF B!LevelIsSum, Buffer!LevelIsSum, B!Fifo!HasTotal, Buffer!Fifo!HasTotal
<1> QED
  BY <1>2, <1>3, <1>4, <1>5, <1>6, <1>7, <1>8, UsesBuffer, PTL DEF Buffer!Spec, B!Spec

Started == playerPc = "off" => pc \in Before \cup {"raised"}

LEMMA StartedAlways == Spec => []Started
<1>1. Init => Started
  BY DEF Init, Started, Before
<1>2. MainInv /\ Started /\ [Next]_vars => Started'
  <2> SUFFICES ASSUME MainInv, Started, [Next]_vars PROVE Started'
    OBVIOUS
  <2>1. CASE Connect \/ OpenCollector \/ StartPlayback
    BY <2>1 DEF Connect, OpenCollector, StartPlayback, playerVars, Started, Before
  <2>2. CASE \/ Downloaded \/ DownloadRaises \/ RecordSwitch \/ Put \/ PutBlocks
             \/ \E choice \in Indexes : Select(choice)
    BY <2>2 DEF Select, Downloaded, DownloadRaises, RecordSwitch, Put, PutBlocks,
                mainVars, playerVars, Started, Before
  <2>3. CASE PutReturns \/ RecordSegment \/ LoopEnds \/ Join \/ RecordRebuffer
    BY <2>3 DEF PutReturns, RecordSegment, LoopEnds, Join, RecordRebuffer,
                playerVars, Started, Before
  <2>4. CASE ComputeQoe \/ RecordQoe \/ Summarise \/ DatabaseRaises
    BY <2>4 DEF ComputeQoe, RecordQoe, Summarise, DatabaseRaises,
                playerVars, Started, Before
  <2>5. CASE PlayerStep \/ GiveUp
    BY <2>5 DEF PlayerStep, GiveUp, Poll, PollWaits, PollTakes, PollMisses, Consume,
                StallIgnored, StallCounted, StallNoted, Played,
                mainVars, playerVars, Started
  <2>6. CASE Finished \/ UNCHANGED vars
    BY <2>6 DEF Finished, vars, mainVars, playerVars, Started
  <2> QED
    BY <2>1, <2>2, <2>3, <2>4, <2>5, <2>6 DEF Next, MainStep
<1> QED
  BY <1>1, <1>2, MainAlways, PTL DEF Spec

PutServed ==
  bufferPc[Main] = "waiting" => deque # << >> /\ playerPc \notin {"off", "exited"}

\* If the network delivers within 600 s and playback keeps up, then whenever
\* run_session waits in put, which has no timeout, there is a segment to take and a
\* playback thread that is alive to take it (client.py:145; buffer_manager.py:53-60;
\* playback_controller.py:44-87).
THEOREM PutIsServed == InTime => (Spec => []PutServed)
<1> SUFFICES ASSUME InTime PROVE Spec => []PutServed
  OBVIOUS
<1>1. MainInv /\ PlayerInv /\ Buffer!TypeOK /\ AllTaken /\ Started
        /\ Buffer!NoMissedSpace /\ Buffer!LevelIsSum => PutServed
  <2> SUFFICES ASSUME MainInv, PlayerInv, Buffer!TypeOK, AllTaken, Started,
                      Buffer!NoMissedSpace, Buffer!LevelIsSum
               PROVE  PutServed
    OBVIOUS
  <2> SUFFICES ASSUME bufferPc[Main] = "waiting"
               PROVE  deque # << >> /\ playerPc \notin {"off", "exited"}
    BY DEF PutServed
  <2>1. pc = "putting" /\ offered[Main] = seg /\ seg \in SegmentIds
    <3>1. pc = "putting" /\ offered[Main] = seg
      BY DEF PlayerInv, Places, Inside
    <3> QED
      BY <3>1 DEF MainInv, MainTypes, Progress, Turn, SegmentIds
  <2>2. level + 1 > BufferSegments
    <3>1. Main \in Buffer!Waiters({Main}) /\ Buffer!Notified({Main}) = {}
      BY DEF Buffer!Waiters, Buffer!Notified
    <3>2. Buffer!Cardinality({}) = 0
      BY FS_EmptySet, SameCardinality
    <3>3. level + 1 * (0 + 1) > BufferSegments
      BY <2>1, <3>1, <3>2 DEF Buffer!NoMissedSpace
    <3> QED
      BY <3>3
  <2>3. deque # << >>
    <3>1. SUFFICES ASSUME deque = << >> PROVE FALSE
      OBVIOUS
    <3>2. Len(deque) = 0
      BY <3>1, EmptySeq
    <3>3. level = 0
      BY <3>2 DEF Buffer!LevelIsSum, Buffer!Fifo!HasTotal
    <3> QED
      BY <2>2, <3>3, SessionAssumption
  <2>4. playerPc # "off"
    BY <2>1 DEF Started, Before
  <2>5. playerPc # "exited"
    <3>1. SUFFICES ASSUME playerPc = "exited" PROVE FALSE
      OBVIOUS
    <3>2. report.played = SegmentCount
      BY <2>1, <3>1 DEF AllTaken
    <3>3. Len(qualities) = seg - 1 /\ seg \in 1..SegmentCount
      BY <2>1 DEF MainInv, Progress, SegmentIds
    <3> DEFINE q == Len(qualities)
               d == Len(deque)
    <3>4. /\ q \in Nat /\ d \in Nat /\ Taken \in Nat /\ SegmentCount \in Nat
          /\ Taken + d = q /\ report.played <= Taken
      BY Counts
    <3> HIDE DEF q, d
    <3> QED
      BY <3>2, <3>3, <3>4 DEF q
  <2> QED
    BY <2>3, <2>4, <2>5
<1> QED
  BY <1>1, Invariants, EndAlways, StartedAlways, BufferSound, PTL
================================================================================
