----------------------------- MODULE TimedSession -----------------------------
(***************************************************************************)
(* A session against the clock: run_session's downloads, slowed down by    *)
(* the NetworkShaper and measured by Downloader.download and the EWMA, and *)
(* the PlaybackController, which plays what has arrived and times its      *)
(* stalls.  Session has the same two threads step by step and without time.*)
(*                                                                         *)
(* now is the time since the first download, when the profile starts too.  *)
(* Only sleeps, timeouts and the network take time: whatever is due is     *)
(* done before time goes on.  The buffer is the queue that BufferManager   *)
(* implements for segments of one duration.                                *)
(***************************************************************************)
EXTENDS Integers, Sequences, NetworkShaper, Ewma

CONSTANTS SegmentCount, BufferSegments, Duration,
          Latency,     \* of the profile
          MaxFetch,    \* the longest the network takes for a segment
          Poll,        \* the 0.05 s of the steady state's get
          Threshold,   \* the 0.02 s up to which a stall is ignored
          WaitPoll,    \* the 0.1 s of a get inside _wait_for_segment
          WaitLimit,   \* its 600 s
          JoinLimit    \* the timeout of the join, 10 s a segment and 60 s

ASSUME TimedAssumption ==
  /\ SegmentCount \in Nat \ {0} /\ BufferSegments \in Nat \ {0}
  /\ Duration \in Nat \ {0} /\ Latency \in Nat /\ MaxFetch \in Nat
  /\ Poll \in Nat \ {0} /\ Threshold \in Nat /\ WaitPoll \in Nat \ {0}
  /\ WaitLimit \in Nat \ {0}
  /\ JoinLimit \in Nat

VARIABLES
  now,
  mainPc, seg,     \* where run_session is, the segment it has asked for
  size, took,      \* the size of that segment, the time measured for it so far
  wake,            \* when its sleep, its fetch or its join ends
  estimate,        \* the EWMA
  queue,           \* the buffer
  playerPc,        \* where the playback thread is
  until,           \* when what it plays, or its get, ends
  since, deadline, \* of the wait it is in
  report           \* PlaybackReport: segments played, startup delay, stalled seconds

mainVars   == <<mainPc, seg, size, took, wake, estimate>>
playerVars == <<playerPc, until, since, deadline, report>>
vars       == <<now, mainVars, queue, playerVars>>

Init ==
  /\ now = 0 /\ queue = << >>
  /\ mainPc = "ready" /\ seg = 0 /\ size = 0 /\ took = 0 /\ wake = 0
  /\ estimate = NoEstimate
  /\ playerPc = "startup" /\ since = 0 /\ until = WaitPoll /\ deadline = WaitLimit
  /\ report = [played |-> 0, startup |-> 0, seconds |-> 0]

-----------------------------------------------------------------------------
(* run_session and Downloader.download *)

\* The next segment, of any quality; apply_request_latency sleeps first.
Download ==
  /\ mainPc = "ready" /\ seg < SegmentCount
  /\ seg' = seg + 1
  /\ size' \in Sizes
  /\ wake' = now + Latency
  /\ mainPc' = "latency"
  /\ UNCHANGED <<now, took, estimate, queue, playerVars>>

\* t0, and the fetch, which takes the time it takes.
Fetch ==
  /\ mainPc = "latency" /\ now = wake
  /\ took' \in 0..MaxFetch
  /\ wake' = now + took'
  /\ mainPc' = "fetch"
  /\ UNCHANGED <<now, seg, size, estimate, queue, playerVars>>

\* The sleep is not added to the time measured (a fault).
ShapeOnly ==
  /\ mainPc = "fetch" /\ now = wake
  /\ wake' = now + DownloadDelay(size, took, now)
  /\ mainPc' = "delay"
  /\ UNCHANGED <<now, seg, size, took, estimate, queue, playerVars>>

\* The shaper slows the download down to the cap now in force.
Shape ==
  /\ mainPc = "fetch" /\ now = wake
  /\ LET extra == DownloadDelay(size, took, now) IN
       /\ wake' = now + extra
       /\ took' = took + extra
  /\ mainPc' = "delay"
  /\ UNCHANGED <<now, seg, size, estimate, queue, playerVars>>

\* The fetch raises: on to finally, and its join.
FetchRaises ==
  /\ mainPc = "fetch" /\ now = wake
  /\ wake' = now + JoinLimit
  /\ mainPc' = "unwinding"
  /\ UNCHANGED <<now, seg, size, took, estimate, queue, playerVars>>

\* Throughput of a download: 0.0 if it took no time.
Throughput(n, time) ==
  IF time = 0 THEN [num |-> 0, den |-> 1] ELSE [num |-> n, den |-> time]

Measure ==
  /\ mainPc = "delay" /\ now = wake
  /\ estimate' = Smoothed(estimate, Throughput(size, took))
  /\ mainPc' = "put"
  /\ UNCHANGED <<now, seg, size, took, wake, queue, playerVars>>

\* The buffer is taken to have room (a fault).
PutAnyway ==
  /\ mainPc = "put"
  /\ queue' = Append(queue, seg)
  /\ mainPc' = "ready"
  /\ UNCHANGED <<now, seg, size, took, wake, estimate, playerVars>>

Put ==
  /\ mainPc = "put" /\ Len(queue) < BufferSegments
  /\ queue' = Append(queue, seg)
  /\ mainPc' = "ready"
  /\ UNCHANGED <<now, seg, size, took, wake, estimate, playerVars>>

\* A timeout that does not grow with the number of segments (a fault).
CallShortJoin ==
  /\ mainPc = "ready" /\ seg = SegmentCount
  /\ wake' = now + Duration
  /\ mainPc' = "joining"
  /\ UNCHANGED <<now, seg, size, took, estimate, queue, playerVars>>

CallJoin ==
  /\ mainPc = "ready" /\ seg = SegmentCount
  /\ wake' = now + JoinLimit
  /\ mainPc' = "joining"
  /\ UNCHANGED <<now, seg, size, took, estimate, queue, playerVars>>

PlayerGone == playerPc \in {"exited", "gaveUp"}

\* The join returns when the thread has ended or its timeout has come; an
\* exception under way goes on.
Join ==
  /\ mainPc \in {"joining", "unwinding"} /\ (PlayerGone \/ now = wake)
  /\ mainPc' = IF mainPc = "joining" THEN "done" ELSE "raised"
  /\ UNCHANGED <<now, seg, size, took, wake, estimate, queue, playerVars>>

-----------------------------------------------------------------------------
(* PlaybackController.run *)

\* get returns a segment and _consume plays it, upon report r.
Consume(r) ==
  /\ queue # << >>
  /\ queue' = Tail(queue)
  /\ report' = [r EXCEPT !.played = @ + 1]
  /\ until' = now + Duration
  /\ playerPc' = "playing"
  /\ UNCHANGED <<now, mainVars, since, deadline>>

First ==
  /\ playerPc = "startup"
  /\ Consume([report EXCEPT !.startup = now - since])

\* The segment has been played: on to the next get, or out of the loop.
Played ==
  /\ playerPc = "playing" /\ now = until
  /\ IF report.played < SegmentCount
     THEN playerPc' = "polling" /\ until' = now + Poll
     ELSE playerPc' = "exited" /\ UNCHANGED until
  /\ UNCHANGED <<now, mainVars, queue, since, deadline, report>>

\* There was a segment, or one has come within the timeout of get.
InTime ==
  /\ playerPc = "polling"
  /\ Consume(report)

\* None: a stall begins, and with it _wait_for_segment.
Miss ==
  /\ playerPc = "polling" /\ queue = << >> /\ now = until
  /\ since' = now /\ deadline' = now + WaitLimit /\ until' = now + WaitPoll
  /\ playerPc' = "stalled"
  /\ UNCHANGED <<now, mainVars, queue, report>>

\* A get inside _wait_for_segment times out: once more, or giving up.
WaitAgain ==
  /\ playerPc \in {"startup", "stalled"} /\ queue = << >> /\ now = until
  /\ IF now < deadline
     THEN until' = now + WaitPoll /\ UNCHANGED playerPc
     ELSE playerPc' = "gaveUp" /\ UNCHANGED until
  /\ UNCHANGED <<now, mainVars, queue, since, deadline, report>>

\* The stall is counted, however short or long, from the last get on (a fault).
ResumeLastWait ==
  /\ playerPc = "stalled"
  /\ Consume([report EXCEPT !.seconds = @ + (now - (until - WaitPoll))])

\* A segment ends the stall, which counts if it was long enough.
Resume ==
  /\ playerPc = "stalled"
  /\ Consume(IF now - since > Threshold
             THEN [report EXCEPT !.seconds = @ + (now - since)]
             ELSE report)

-----------------------------------------------------------------------------
(* The clock *)

MainDue ==
  \/ mainPc = "ready"
  \/ mainPc \in {"latency", "fetch", "delay"} /\ now = wake
  \/ mainPc = "put" /\ Len(queue) < BufferSegments
  \/ mainPc \in {"joining", "unwinding"} /\ (PlayerGone \/ now = wake)

PlayerDue ==
  \/ playerPc \in {"startup", "polling", "stalled"} /\ (queue # << >> \/ now = until)
  \/ playerPc = "playing" /\ now = until

\* Time goes on while some thread waits for a time to come.
Tick ==
  /\ ~MainDue /\ ~PlayerDue
  /\ mainPc \in {"latency", "fetch", "delay", "joining", "unwinding"} \/ ~PlayerGone
  /\ now' = now + 1
  /\ UNCHANGED <<mainVars, queue, playerVars>>

\* Both threads have ended, or put waits for a playback thread that gave up.
Over ==
  /\ mainPc \in {"done", "raised", "put"} /\ PlayerGone
  /\ ~MainDue
  /\ UNCHANGED vars

Next ==
  \/ Download \/ Fetch \/ FetchRaises \/ Shape \/ Measure \/ Put \/ CallJoin \/ Join
  \/ First \/ Played \/ InTime \/ Miss \/ WaitAgain \/ Resume
  \/ Tick \/ Over

Spec == Init /\ [][Next]_vars

-----------------------------------------------------------------------------
(* Properties *)

TypeOK ==
  /\ now \in Nat /\ wake \in Nat /\ until \in Nat /\ since \in Nat /\ deadline \in Nat
  /\ mainPc \in {"ready", "latency", "fetch", "delay", "put", "joining", "unwinding",
                 "done", "raised"}
  /\ seg \in 0..SegmentCount /\ size \in Sizes \cup {0} /\ took \in Nat
  /\ estimate \in Fraction \cup {NoEstimate}
  /\ queue \in Seq(1..SegmentCount) /\ Len(queue) <= BufferSegments
  /\ playerPc \in {"startup", "playing", "polling", "stalled", "exited", "gaveUp"}
  /\ report \in [played : 0..SegmentCount, startup : Nat, seconds : Nat]

\* The stalled seconds of the report against the clock: whenever a segment begins
\* to play, the time spent waiting since the first one, which is what the
\* segments played so far do not explain, is at least what was counted, and at
\* most 0.05 s and 0.02 s per segment more (playback_controller.py:53-70).
StallsAccounted ==
  playerPc = "playing" =>
    LET waited == until - report.startup - report.played * Duration IN
    /\ report.seconds <= waited
    /\ waited <= report.seconds + (report.played - 1) * (Poll + Threshold)

\* Step i of the profile is in force at time x, the first one from the start on.
InForce(i, x) ==
  /\ i = 1 \/ Timeline[i].t <= x
  /\ i = Len(Timeline) \/ x < Timeline[i + 1].t

\* A download never runs faster, by the time measured for it, than some cap that
\* was in force while it ran, and the estimate is never above all the caps that
\* have been in force since the start, whatever the network does and wherever in
\* a download a step of the profile falls.  It says this of the profile itself,
\* not of the cap that the loop over it finds (shaper.py:52-85,
\* downloader.py:39-46, ewma.py:18-24).
EstimateUnderCaps ==
  /\ mainPc = "delay" =>
       \E x \in (wake - took)..wake, i \in 1..Len(Timeline) :
         InForce(i, x) /\ (Timeline[i].cap = 0 \/ size <= Timeline[i].cap * took)
  /\ estimate # NoEstimate =>
       \E x \in 0..now, i \in 1..Len(Timeline) :
         InForce(i, x) /\ (Timeline[i].cap = 0 \/ AtMost(estimate, Timeline[i].cap))

\* What there can be to play when the join begins, the rest of the buffer and the
\* segment being played, takes less time than the timeout.
JoinCovers ==
  LET left == IF BufferSegments < SegmentCount THEN BufferSegments + 1 ELSE SegmentCount
  IN JoinLimit > left * Duration

\* The timeout of the join never cuts playback short: when a session ends
\* normally the playback thread has ended, after the last segment, or before it
\* because a wait of its own has lasted 600 s; no wait is ended by a deadline of
\* an earlier one, and no thread that still plays is left behind (client.py:183,
\* playback_controller.py:54-62, 75-81).  This is what Session assumes when
\* PlaybackMayLag is false, and it needs JoinCovers.
JoinSuffices ==
  mainPc = "done" =>
    \/ playerPc = "exited" /\ report.played = SegmentCount
    \/ playerPc = "gaveUp" /\ report.played < SegmentCount /\ until - since >= WaitLimit
=============================================================================
