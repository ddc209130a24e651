------------------------------- MODULE Session -------------------------------
(***************************************************************************)
(* One streaming session: run_session (client/client.py) downloads, records *)
(* and buffers the segments in its own thread; PlaybackController          *)
(* (client/playback) takes them from the same BufferManager and notes the  *)
(* stalls; MetricsCollector (client/metrics) keeps the rows.               *)
(*                                                                         *)
(* Abstracted: the ABR rule, to any choice of an index; the download, to   *)
(* success or an exception; DeadlineScheduler, to the segment it is proved *)
(* to return (DeadlineSchedulerProofs!DownloadsInOrder); the length of a   *)
(* stall, to 0 for one of at most 0.02 s and 1..MaxStall for the others;   *)
(* the QoE score, to the three inputs of its formula.  The time limits of  *)
(* the code appear as the assumptions NetworkMayStall and PlaybackMayLag.  *)
(***************************************************************************)
EXTENDS Integers, Sequences, FiniteSets, Sums

CONSTANTS SegmentCount,     \* run_session(segment_count)
          Indexes,          \* indexes of the quality ladder, 0 the lowest
          BufferSegments,   \* segments that fit the buffer
          MaxStall,         \* longest stall told apart
          NetworkMayStall,  \* a segment may take 600 s to arrive
          PlaybackMayLag    \* playing what is buffered may outlast the join

Main == "main"
Player == "playback"
SegmentIds == 1..SegmentCount

ASSUME SessionAssumption ==
  /\ SegmentCount \in Nat /\ BufferSegments \in Nat \ {0} /\ MaxStall \in Nat
  /\ 0 \in Indexes /\ Indexes \subseteq Nat
  /\ NetworkMayStall \in BOOLEAN /\ PlaybackMayLag \in BOOLEAN

VARIABLES
  \* run_session
  pc, seg, index, current, nSwitches, qualities, qoe, summary,
  socket,    \* whether the SocketClient is connected
  rows,      \* the tables of the session, and whether the collector is open
  \* PlaybackController
  playerPc, held, stall, report,
  \* BufferManager
  deque, level, dropped, bufferPc, offered, timed

mainVars   == <<pc, seg, index, current, nSwitches, qualities, qoe, summary, socket, rows>>
playerVars == <<playerPc, held, stall, report>>
bufferVars == <<deque, level, dropped, bufferPc, offered, timed>>
vars       == <<mainVars, playerVars, bufferVars>>

Buffer == INSTANCE BufferManager WITH
            Producers  <- {Main},
            Consumers  <- {Player},
            Segments   <- SegmentIds,
            NoSegment  <- 0,
            Duration   <- [s \in SegmentIds |-> 1],
            MaxSeconds <- BufferSegments,
            MaxDropped <- 0,
            pc         <- bufferPc

Init ==
  /\ pc = "connecting" /\ seg = 0 /\ index = 0 /\ current = 0 /\ nSwitches = 0
  /\ qualities = << >> /\ qoe = << >> /\ summary = << >> /\ socket = "closed"
  /\ rows = [collector |-> "closed", segments |-> << >>, switches |-> << >>,
             rebuffers |-> << >>, qoe |-> << >>]
  /\ playerPc = "off" /\ held = 0 /\ stall = 0
  /\ report = [played |-> 0, last |-> 0, seconds |-> 0, events |-> << >>]
  /\ Buffer!Init

-----------------------------------------------------------------------------
(* run_session: before the try *)

\* SocketClient.connect, outside any try.
Connect ==
  /\ pc = "connecting"
  /\ \/ pc' = "opening" /\ socket' = "connected"
     \/ pc' = "raised" /\ UNCHANGED socket
  /\ UNCHANGED <<seg, index, current, nSwitches, qualities, qoe, summary, rows,
                 playerVars, bufferVars>>

\* MetricsCollector() and start_session: if either raises, nothing closes the
\* socket again, nor the collector.
OpenCollector ==
  /\ pc = "opening"
  /\ \/ pc' \in {"starting", "raised"} /\ rows' = [rows EXCEPT !.collector = "open"]
     \/ pc' = "raised" /\ UNCHANGED rows
  /\ UNCHANGED <<seg, index, current, nSwitches, qualities, qoe, summary, socket,
                 playerVars, bufferVars>>

\* playback.start()
StartPlayback ==
  /\ pc = "starting"
  /\ pc' = "select"
  /\ playerPc' = "startup"
  /\ UNCHANGED <<seg, index, current, nSwitches, qualities, qoe, summary, socket,
                 rows, held, stall, report, bufferVars>>

-----------------------------------------------------------------------------
(* run_session: the download loop *)

\* One turn too many (a fault).
SelectPastEnd(choice) ==
  /\ pc = "select"
  /\ seg <= SegmentCount
  /\ seg' = seg + 1
  /\ index' = choice
  /\ pc' = "download"
  /\ UNCHANGED <<current, nSwitches, qualities, qoe, summary, socket, rows,
                 playerVars, bufferVars>>

\* next_segment and abr.select.
Select(choice) ==
  /\ pc = "select"
  /\ seg < SegmentCount
  /\ seg' = seg + 1
  /\ index' = choice
  /\ pc' = "download"
  /\ UNCHANGED <<current, nSwitches, qualities, qoe, summary, socket, rows,
                 playerVars, bufferVars>>

\* downloader.download returned a segment; the switch is counted at once and
\* recorded next.
Downloaded ==
  /\ pc = "download"
  /\ IF index # current
     THEN pc' = "switch" /\ nSwitches' = nSwitches + 1
     ELSE pc' = "put" /\ UNCHANGED nSwitches
  /\ UNCHANGED <<seg, index, current, qualities, qoe, summary, socket, rows,
                 playerVars, bufferVars>>

\* The loop goes on with the next segment instead of raising (a fault).
DownloadSkipped ==
  /\ pc = "download"
  /\ pc' = "select"
  /\ UNCHANGED <<seg, index, current, nSwitches, qualities, qoe, summary, socket,
                 rows, playerVars, bufferVars>>

\* A connection error, a timeout or a status other than 200: on to finally.
DownloadRaises ==
  /\ pc = "download"
  /\ pc' = "unwinding"
  /\ UNCHANGED <<seg, index, current, nSwitches, qualities, qoe, summary, socket,
                 rows, playerVars, bufferVars>>

\* The last index is not remembered (a fault).
RecordSwitchOnly ==
  /\ pc = "switch"
  /\ rows' = [rows EXCEPT !.switches =
                Append(@, [segment_id |-> seg, from |-> current, to |-> index])]
  /\ pc' = "put"
  /\ UNCHANGED <<seg, index, current, nSwitches, qualities, qoe, summary, socket,
                 playerVars, bufferVars>>

\* collector.record_switch, then current_index = index.
RecordSwitch ==
  /\ pc = "switch"
  /\ rows' = [rows EXCEPT !.switches =
                Append(@, [segment_id |-> seg, from |-> current, to |-> index])]
  /\ current' = index
  /\ pc' = "put"
  /\ UNCHANGED <<seg, index, nSwitches, qualities, qoe, summary, socket,
                 playerVars, bufferVars>>

\* buffer_manager.put(segment), without a timeout: the call, the waits, and the
\* return, upon which the quality is appended.
Put ==
  /\ pc = "put"
  /\ pc' = "putting"
  /\ Buffer!PutCall(Main, seg, FALSE)
  /\ UNCHANGED <<seg, index, current, nSwitches, qualities, qoe, summary, socket,
                 rows, playerVars>>

PutBlocks ==
  /\ pc = "putting"
  /\ Buffer!PutWait(Main)
  /\ UNCHANGED <<mainVars, playerVars>>

PutReturns ==
  /\ pc = "putting"
  /\ Buffer!PutAdmit(Main)
  /\ qualities' = Append(qualities, index)
  /\ pc' = "record"
  /\ UNCHANGED <<seg, index, current, nSwitches, qoe, summary, socket, rows,
                 playerVars>>

\* collector.record_segment; the next turn of the loop.
RecordSegment ==
  /\ pc = "record"
  /\ rows' = [rows EXCEPT !.segments =
                Append(@, [segment_id |-> seg, index |-> index])]
  /\ pc' = "select"
  /\ UNCHANGED <<seg, index, current, nSwitches, qualities, qoe, summary, socket,
                 playerVars, bufferVars>>

LoopEnds ==
  /\ pc = "select"
  /\ seg = SegmentCount
  /\ pc' = "joining"
  /\ UNCHANGED <<seg, index, current, nSwitches, qualities, qoe, summary, socket,
                 rows, playerVars, bufferVars>>

-----------------------------------------------------------------------------
(* run_session: finally, and after *)

\* The join's timeout, 10 s a segment and 60 s, can run out while the playback
\* thread waits for segments that will not come or, if playback may lag, wherever
\* that thread is, in the middle of noting a stall too.
JoinTimeout ==
  \/ playerPc \in {"startup", "stalled"} /\ deque = << >>
  \/ PlaybackMayLag

\* The report is read without waiting for the playback thread (a fault).
JoinNobody ==
  /\ pc \in {"joining", "unwinding"}
  /\ socket' = "closed"
  /\ pc' = IF pc = "joining" THEN "rebuffers" ELSE "raised"
  /\ UNCHANGED <<seg, index, current, nSwitches, qualities, qoe, summary, rows,
                 playerVars, bufferVars>>

\* playback.join_session and client.close; an exception under way goes on.
Join ==
  /\ pc \in {"joining", "unwinding"}
  /\ playerPc = "exited" \/ JoinTimeout
  /\ socket' = "closed"
  /\ pc' = IF pc = "joining" THEN "rebuffers" ELSE "raised"
  /\ UNCHANGED <<seg, index, current, nSwitches, qualities, qoe, summary, rows,
                 playerVars, bufferVars>>

\* One turn of the loop over report.rebuffer_events, the list itself.
RecordRebuffer ==
  LET done == Len(rows.rebuffers) IN
  /\ pc = "rebuffers"
  /\ done < Len(report.events)
  /\ rows' = [rows EXCEPT !.rebuffers = Append(@, report.events[done + 1])]
  /\ UNCHANGED <<pc, seg, index, current, nSwitches, qualities, qoe, summary,
                 socket, playerVars, bufferVars>>

\* compute_qoe reads report.rebuffer_seconds once ...
ComputeQoe ==
  /\ pc = "rebuffers"
  /\ Len(rows.rebuffers) = Len(report.events)
  /\ qoe' = << [qualities |-> qualities, seconds |-> report.seconds,
                switches |-> nSwitches] >>
  /\ pc' = "qoe"
  /\ UNCHANGED <<seg, index, current, nSwitches, qualities, summary, socket, rows,
                 playerVars, bufferVars>>

\* ... record_qoe reads it again ...
RecordQoe ==
  /\ pc = "qoe"
  /\ rows' = [rows EXCEPT !.qoe =
                << [score |-> qoe[1], seconds |-> report.seconds,
                    switches |-> nSwitches] >>]
  /\ pc' = "summary"
  /\ UNCHANGED <<seg, index, current, nSwitches, qualities, qoe, summary, socket,
                 playerVars, bufferVars>>

\* ... and so does the summary; collector.close() and return.
Summarise ==
  /\ pc = "summary"
  /\ summary' = << [score |-> qoe[1], seconds |-> report.seconds,
                    switches |-> nSwitches, segments |-> Len(qualities)] >>
  /\ rows' = [rows EXCEPT !.collector = "closed"]
  /\ pc' = "done"
  /\ UNCHANGED <<seg, index, current, nSwitches, qualities, qoe, socket,
                 playerVars, bufferVars>>

\* The exception passes by the finally block (a fault).
DatabaseEscapes ==
  /\ \/ pc \in {"switch", "record", "qoe"}
     \/ pc = "rebuffers" /\ Len(rows.rebuffers) < Len(report.events)
  /\ pc' = "raised"
  /\ UNCHANGED <<seg, index, current, nSwitches, qualities, qoe, summary, socket,
                 rows, playerVars, bufferVars>>

\* A statement of the collector raises: inside the try, on to finally; after
\* it, out of run_session, with the collector still open.
DatabaseRaises ==
  /\ \/ pc \in {"switch", "record"} /\ pc' = "unwinding"
     \/ pc = "rebuffers" /\ Len(rows.rebuffers) < Len(report.events) /\ pc' = "raised"
     \/ pc = "qoe" /\ pc' = "raised"
  /\ UNCHANGED <<seg, index, current, nSwitches, qualities, qoe, summary, socket,
                 rows, playerVars, bufferVars>>

-----------------------------------------------------------------------------
(* PlaybackController.run *)

\* _consume: count the segment and sleep for its duration.
Consume(s) ==
  /\ report' = [report EXCEPT !.played = @ + 1, !.last = s]
  /\ playerPc' = "playing"

\* get(timeout) of the startup, the steady state or a stall.
Poll ==
  /\ playerPc \in {"startup", "steady", "stalled"}
  /\ Buffer!GetCall(Player, TRUE)
  /\ UNCHANGED <<mainVars, playerVars>>

PollWaits ==
  /\ Buffer!GetWait(Player)
  /\ UNCHANGED <<mainVars, playerVars>>

\* get returned a segment: play it, unless a stall has to be noted first.
PollTakes ==
  /\ Buffer!GetTake(Player)
  /\ IF playerPc = "stalled"
     THEN /\ held' = Head(deque)
          /\ playerPc' = "noting"
          /\ UNCHANGED report
     ELSE /\ Consume(Head(deque))
          /\ UNCHANGED held
  /\ UNCHANGED <<mainVars, stall>>

\* get returned None: in the steady state a stall begins.
PollMisses ==
  /\ Buffer!GetNone(Player)
  /\ playerPc' = IF playerPc = "steady" THEN "stalled" ELSE playerPc
  /\ UNCHANGED <<mainVars, held, stall, report>>

Downloading ==
  pc \in {"select", "download", "switch", "put", "putting", "record"}

\* _wait_for_segment returned None after 600 s: the thread ends.
GiveUp ==
  /\ playerPc \in {"startup", "stalled"}
  /\ bufferPc[Player] = "idle"
  /\ NetworkMayStall \/ (~Downloading /\ deque = << >>)
  /\ playerPc' = "exited"
  /\ UNCHANGED <<mainVars, held, stall, report, bufferVars>>

\* The event replaces the ones before it (a fault).
StallReplaced ==
  /\ playerPc = "noting" /\ stall # 0
  /\ report' = [report EXCEPT
       !.events = << [segment_id |-> held, duration |-> stall] >>,
       !.played = @ + 1, !.last = held]
  /\ playerPc' = "playing"
  /\ held' = 0
  /\ stall' = 0
  /\ UNCHANGED <<mainVars, bufferVars>>

\* The stall ended with held.  A short one is not counted; for a longer one the
\* seconds are added first, the event after.
StallIgnored ==
  /\ playerPc = "noting" /\ stall = 0
  /\ Consume(held)
  /\ held' = 0
  /\ UNCHANGED <<mainVars, stall, bufferVars>>

StallCounted(length) ==
  /\ playerPc = "noting" /\ stall = 0
  /\ report' = [report EXCEPT !.seconds = @ + length]
  /\ stall' = length
  /\ UNCHANGED <<mainVars, playerPc, held, bufferVars>>

StallNoted ==
  /\ playerPc = "noting" /\ stall # 0
  /\ report' = [report EXCEPT
       !.events = Append(@, [segment_id |-> held, duration |-> stall]),
       !.played = @ + 1, !.last = held]
  /\ playerPc' = "playing"
  /\ held' = 0
  /\ stall' = 0
  /\ UNCHANGED <<mainVars, bufferVars>>

\* The segment has been played: on with the next one, or out of the loop.
Played ==
  /\ playerPc = "playing"
  /\ playerPc' = IF report.played < SegmentCount THEN "steady" ELSE "exited"
  /\ UNCHANGED <<mainVars, held, stall, report, bufferVars>>

-----------------------------------------------------------------------------
MainStep ==
  \/ Connect \/ OpenCollector \/ StartPlayback
  \/ \E choice \in Indexes : Select(choice)
  \/ Downloaded \/ DownloadRaises \/ RecordSwitch
  \/ Put \/ PutBlocks \/ PutReturns \/ RecordSegment
  \/ LoopEnds \/ Join
  \/ RecordRebuffer \/ ComputeQoe \/ RecordQoe \/ Summarise \/ DatabaseRaises

PlayerStep ==
  \/ Poll \/ PollWaits \/ PollTakes \/ PollMisses
  \/ StallIgnored \/ (\E length \in 1..MaxStall : StallCounted(length)) \/ StallNoted
  \/ Played

Ended == pc \in {"done", "raised"}

\* Once run_session has returned or raised and the daemon thread is gone.
Finished == Ended /\ playerPc \in {"off", "exited"} /\ UNCHANGED vars

Next == MainStep \/ PlayerStep \/ GiveUp \/ Finished

\* Both threads keep running; a download ends, one way or the other, because
\* every recv has a timeout.  No wait of 600 s has to be seen through.
Spec == Init /\ [][Next]_vars /\ WF_vars(MainStep) /\ WF_vars(PlayerStep)

-----------------------------------------------------------------------------
(* Properties *)

TypeOK ==
  /\ pc \in {"connecting", "opening", "starting", "select", "download", "switch",
             "put", "putting", "record", "joining", "unwinding", "rebuffers",
             "qoe", "summary", "done", "raised"}
  /\ seg \in 0..SegmentCount /\ index \in Indexes /\ current \in Indexes
  /\ nSwitches \in 0..SegmentCount
  /\ qualities \in Seq(Indexes)
  /\ socket \in {"closed", "connected"}
  /\ rows.segments \in Seq([segment_id : SegmentIds, index : Indexes])
  /\ rows.switches \in Seq([segment_id : SegmentIds, from : Indexes, to : Indexes])
  /\ playerPc \in {"off", "startup", "steady", "stalled", "noting", "playing", "exited"}
  /\ held \in 0..SegmentCount /\ stall \in 0..MaxStall
  /\ report.played \in 0..SegmentCount /\ report.last \in 0..SegmentCount
  /\ report.seconds \in Nat
  /\ Buffer!TypeOK

\* Segments are played once each, in order, without a gap: what has been put is
\* what has been played, then the segment the playback thread holds, then the
\* deque, whatever failed on either side (client.py:114-153,
\* playback_controller.py:44-87).
StreamIntact ==
  LET taken == report.played + (IF held = 0 THEN 0 ELSE 1) IN
  /\ report.last = report.played
  /\ held # 0 => held = taken
  /\ deque = [i \in 1..Len(deque) |-> taken + i]
  /\ taken + Len(deque) = Len(qualities)

\* The quality of segment k, the lowest one before the first segment.
IndexOf(k) == IF k = 0 THEN 0 ELSE rows.segments[k].index

\* The switches recorded are the quality changes between the segments recorded,
\* and one more at most, for the segment under way: record_switch runs before
\* the segment is buffered and recorded, and either may fail
\* (client.py:139-157).
SwitchesExplained ==
  LET changes == {k \in 1..Len(rows.segments) : IndexOf(k) # IndexOf(k-1)}
      known   == {rows.switches[j].segment_id : j \in 1..Len(rows.switches)}
  IN
  /\ Len(rows.switches) = Cardinality(known)
  /\ changes \subseteq known
  /\ known \ changes \subseteq {Len(rows.segments) + 1}
  /\ \A j \in 2..Len(rows.switches) :
       rows.switches[j].from = rows.switches[j-1].to

\* The seconds stalled in a list of rebuffer events.
StalledIn(events) ==
  SumOver(1..Len(events), [k \in 1..Len(events) |-> events[k].duration])

\* The score that can be recomputed from the rows, with a number of stalled seconds.
ScoreOf(seconds) ==
  [qualities |-> [k \in 1..Len(rows.segments) |-> IndexOf(k)],
   seconds   |-> seconds,
   switches  |-> Len(rows.switches)]

\* The score agrees with the rows it can be recomputed from, and the summary
\* with both, although the report is read at four places, if playback keeps up
\* with the join (client.py:187-206; tests/test_e2e.py:88-92).
QoeMatchesRows ==
  pc = "done" =>
    LET stalled == StalledIn(rows.rebuffers) IN
    /\ rows.qoe = << [score |-> ScoreOf(stalled), seconds |-> stalled,
                      switches |-> Len(rows.switches)] >>
    /\ summary = << [score |-> ScoreOf(stalled), seconds |-> stalled,
                     switches |-> Len(rows.switches), segments |-> Len(rows.segments)] >>
    /\ report.seconds = stalled

\* If the join may give up on a thread that still plays, the four readings of the
\* report can fall before, between and after the two updates of a stall.  They
\* still differ by no more than one stall, the one being waited out or noted when
\* the join gave up: everything has been put by then, so no other begins.  Each
\* reading has the seconds of the rebuffer rows or those of the report in the end,
\* never fewer than an earlier one, and qualities and switches are exact
\* (client.py:183-206, playback_controller.py:57-70).
QoeNearRows ==
  pc = "done" =>
    LET stalled == StalledIn(rows.rebuffers)
        row     == rows.qoe[1]
        sum     == summary[1]
    IN
    /\ row.score = ScoreOf(row.score.seconds) /\ sum.score = row.score
    /\ row.switches = Len(rows.switches) /\ sum.switches = Len(rows.switches)
    /\ sum.segments = Len(rows.segments)
    /\ stalled <= row.score.seconds /\ row.score.seconds <= row.seconds
    /\ row.seconds <= sum.seconds /\ sum.seconds <= report.seconds
    /\ {row.score.seconds, row.seconds, sum.seconds} \subseteq {stalled, report.seconds}
    /\ report.seconds <= stalled + MaxStall

\* When a session ends normally everything has been played: the join's timeout
\* does not cut playback short.  It needs a network that delivers and playback
\* that keeps up (client.py:183).
AllPlayed == pc = "done" => report.played = SegmentCount

\* However run_session ends, the connection is closed, except by an exception
\* between connect and the try, before playback is started; the collector is left
\* open by an exception only (client.py:84-113, 182-184, 211).
SocketReleased ==
  /\ Ended /\ socket = "connected" => pc = "raised" /\ playerPc = "off"
  /\ Ended /\ rows.collector = "open" => pc = "raised"

\* run_session returns or raises: no put, no get and no join waits for a thread
\* that waits for it or is gone (client.py:114-184).
SessionEnds == <>Ended

\* Without those assumptions, only a playback thread that gave up its wait of
\* 600 s can keep run_session from ending: nobody empties the buffer any more
\* and put has no timeout (client.py:145, playback_controller.py:60-62).
EndsUnlessGivenUp ==
  <>Ended \/ <>(playerPc = "exited" /\ report.played < SegmentCount)
=============================================================================
