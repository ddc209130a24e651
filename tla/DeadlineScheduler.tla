-------------------------- MODULE DeadlineScheduler --------------------------
(***************************************************************************)
(* client/scheduler: the heap of download tasks, and next_segment, which   *)
(* pushes a task for each of the next lookahead segments and pops the most *)
(* urgent one.  Tasks pushed in earlier calls stay in the heap with the    *)
(* priorities they were given then.                                        *)
(*                                                                         *)
(* Only run_session's thread uses the scheduler, so a call is one step.    *)
(* run_session asks for segment i + 1 in round i, with whatever level the  *)
(* buffer has at that moment.  Weights and priorities are multiplied by    *)
(* Scale to be whole numbers.                                              *)
(***************************************************************************)
EXTENDS Integers, FiniteSets

CONSTANTS Lookaheads,       \* the values of next_segment(lookahead) in use
          SegmentDuration,  \* DeadlineScheduler(segment_duration)
          UrgencyWeight,    \* Scale times urgency_weight
          BufferBonus,      \* Scale times buffer_bonus
          Scale,
          NoTask,           \* pop() of an empty heap
          MaxRounds,        \* bound on the calls, run_session's segment_count
          MaxLevel,         \* bound on the buffer level a call can find
          MaxDelay          \* bound on the time between two calls

ASSUME SchedulerAssumption ==
  /\ Lookaheads \subseteq Nat /\ MaxRounds \in Nat
  /\ \E widest \in Lookaheads : \A lookahead \in Lookaheads : lookahead <= widest
  /\ SegmentDuration \in Nat \ {0} /\ UrgencyWeight \in Nat \ {0}
  /\ Scale \in Nat \ {0} /\ BufferBonus \in Nat
  /\ MaxLevel \in Nat /\ MaxDelay \in Nat

Task == [priority : Int, deadline : Nat, sequence : Nat, segment_id : Nat]

ASSUME NoTaskAssumption == NoTask \notin Task

VARIABLES heap,      \* _heap, as the set of its tasks
          sequence,  \* _seq, the next sequence number
          now,       \* time.monotonic() at the last call
          round,     \* calls made: the segment the last one was asked for
          task       \* the task the last call popped last

vars == <<heap, sequence, now, round, task>>

TypeOK ==
  /\ heap \in SUBSET Task
  /\ sequence \in Nat
  /\ now \in Nat
  /\ round \in 0..MaxRounds
  /\ task \in Task \cup {NoTask}

Init ==
  /\ heap = {}
  /\ sequence = 0
  /\ now = 0
  /\ round = 0
  /\ task = NoTask

-----------------------------------------------------------------------------
\* ScheduledTask(order=True): by priority, then deadline, sequence and id.
Less(t, u) ==
  \/ t.priority < u.priority
  \/ /\ t.priority = u.priority
     /\ \/ t.deadline < u.deadline
        \/ /\ t.deadline = u.deadline
           /\ \/ t.sequence < u.sequence
              \/ t.sequence = u.sequence /\ t.segment_id < u.segment_id

\* Not cut off at zero (a fault).
SignedSlack(level, offset) == level - offset * SegmentDuration

\* Seconds the buffer still covers once offset more segments have played.
Slack(level, offset) ==
  IF level - offset * SegmentDuration > 0
  THEN level - offset * SegmentDuration
  ELSE 0

\* Later segments first (a fault).
ReversedPriority(level, offset) ==
  Scale * Slack(level, offset) - UrgencyWeight * (offset * SegmentDuration)
    - BufferBonus * level

\* Without the deadline's own offset (a fault).
SlackOnly(level, offset) == 0 - Scale * Slack(level, offset) - BufferBonus * level

\* urgency - buffer_bonus * buffer_level
Priority(level, offset) ==
  UrgencyWeight * (offset * SegmentDuration) - Scale * Slack(level, offset)
    - BufferBonus * level

\* schedule_upcoming(from, count, time)
Upcoming(from, count, level, time) ==
  { [ priority   |-> Priority(level, offset),
      deadline   |-> time + Slack(level, offset),
      sequence   |-> sequence + offset,
      segment_id |-> from + offset ] : offset \in 0..(count - 1) }

\* The task popped is left in the heap (a fault).
NotPopped(h, t) == {u \in h : ~Less(u, t)}

\* What is left of heap h once pops have returned t: everything smaller was
\* popped before it.
AfterPop(h, t) == {u \in h : Less(t, u)}

\* Tasks that the pops do not skip as stale.
Live(h, from) == {t \in h : t.segment_id >= from}

Smallest(h, t) == \A u \in h \ {t} : Less(t, u)

\* next_segment(from_segment = round + 1): push, pop until a task is not stale.
NextSegment(lookahead, level, delay) ==
  LET from   == round + 1
      pushed == heap \cup Upcoming(from, lookahead, level, now + delay)
  IN
  /\ round < MaxRounds
  /\ round' = from
  /\ now' = now + delay
  /\ sequence' = sequence + lookahead
  /\ \/ /\ Live(pushed, from) = {}
        /\ heap' = {}
        /\ task' = NoTask
     \/ \E t \in Live(pushed, from) :
          /\ Smallest(Live(pushed, from), t)
          /\ heap' = AfterPop(pushed, t)
          /\ task' = t

Next ==
  \E lookahead \in Lookaheads, level \in 0..MaxLevel, delay \in 0..MaxDelay :
    NextSegment(lookahead, level, delay)

Spec == Init /\ [][Next]_vars

\* The segment next_segment returned last.
Returned == IF task = NoTask THEN round ELSE task.segment_id

-----------------------------------------------------------------------------
(* Properties *)

\* Segments are downloaded in order, each exactly once, although the heap mixes
\* the priorities of several calls made at different buffer levels: no stale
\* priority ever lets a later segment overtake the one asked for
\* (deadline_scheduler.py:45-57; client/client.py:115).
InOrder == Returned = round

\* Why: each task in the heap has, for every segment between the one asked for
\* and its own, a task of that segment with a strictly smaller priority.
SiblingsFirst ==
  \A t \in heap : \A id \in (round + 1)..(t.segment_id - 1) :
    \E u \in heap : u.segment_id = id /\ u.priority < t.priority

\* Tasks that are not needed any more stay in the heap until a pop comes across
\* them, but a call leaves at most lookahead - 1 more of them than it found
\* (deadline_scheduler.py:53-56).
HeapBound ==
  \E widest \in Lookaheads :
    /\ \A lookahead \in Lookaheads : lookahead <= widest
    /\ Cardinality(heap) <= IF widest = 0 THEN 0 ELSE round * (widest - 1)

\* "Segments whose deadline is near are fetched first" (deadline_scheduler.py:13):
\* no task that could have been returned instead has an earlier deadline.
NearestDeadlineFirst ==
  \A u \in Live(heap, round) : task # NoTask => task.deadline <= u.deadline
=============================================================================
