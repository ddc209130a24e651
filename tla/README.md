# A verification project for the adaptive streaming client and server

The program streams a video in segments over TCP. A server answers requests for
segments; a client chooses a quality for each segment, downloads it, buffers it,
plays it in a second thread, and records what happened in SQLite with a quality
score. This directory holds TLA+ modules for its core logic, TLC configurations
that check them on small instances, and TLAPS proofs of what can be proved for
every instance. `PROJECT.json` lists the components, runs, hazards and theorems,
and maps every definition to the lines it models.

To use it: `tlc -config <run>.cfg <MC module>` for a run, `tlapm <module>Proofs.tla`
for the proofs. Line numbers below are those of the repository's files.

## 1. The system

| Component | State | Operations | What makes it correct |
|---|---|---|---|
| Playback buffer `client/buffer` | deque, cached level in seconds, one lock, two conditions, `dropped` | `put(segment, timeout)`, `get(timeout)`, readers | a bounded FIFO; the level is what the deque holds; no lost wakeups; nobody waits for ever needlessly |
| Deadline scheduler `client/scheduler` | heap of tasks, sequence number | `next_segment` (pushes a few tasks, pops until one is not stale) | segments come out in order, each once; the heap stays bounded |
| ABR rules `client/abr` | none; the hysteresis controller: a candidate and a count | `select(state)` | an index of the ladder; more buffer never means less quality; switches up only after agreement |
| Streaming session `client/client.py` | index, switch count, qualities; owns all the others | `run_session`: one loop of select, download, put, record; then join, score, summary | every exception ends it; rows, score and summary agree |
| Playback controller `client/playback` | report: played, last segment, rebuffering | `run` (a thread), `join_session` | segments are played once each, in order; stalls are accounted for |
| Metrics collector, QoE `client/metrics` | SQLite connection and tables | `record_*`, `close`; `compute_qoe` | the score can be recomputed from the rows |
| Socket client, protocol `client/network`, `common/protocol.py` | socket, receive buffer | `fetch` | the answer to its own request, whole, or an exception |
| Connection handler, request parser `server` | one thread per connection; shared statistics | loop: read a line, parse, reply, count | one reply per request, in order; exact counts |
| Segment manager `server/segment_manager.py` | manifest, file cache under a lock | `resolve` | the same bytes for the same segment, once they are cached |
| Video server `server/server.py` | listening socket, accept thread, the flag `_accepting` | `start`, `stop`, `serve_forever`, the accept loop | up as a whole or down as a whole; stops; answers whoever has connected |
| Throughput estimators `client/throughput` | running estimate | `update`, `estimate` | never above what the network allowed |
| Network shaper `client/network/shaper.py` | profile, start time | delays around a download | the cap in force is the profile's |

How they interact. `run_session` runs in the main thread and calls everything
else directly; the playback thread shares only the `BufferManager` (under its
lock) and the `report` (under none) with it. Client and server share only the two
byte streams of each connection. Handler threads share the statistics dictionary
(under `stats_lock`) and the segment cache. The server's accept thread shares `_sock`,
`_accepting` and `_thread` with whoever calls `stop`, under no lock at all.

What is hard here: two conditions on one lock with one `notify` each; a `get` that
waits once; a `put` without a timeout whose only reader may have given up;
priorities in a heap computed at different times; streams cut into arbitrary
pieces, with timeouts on both sides; exceptions in the middle of a session; a
report read while its writer may be alive; a stop in the middle of an accept loop; a file
read outside the cache's lock; waits with thresholds below which time is not counted.
`PROJECT.json` lists these hazards at
their lines, each with the properties that cover it.

## 2. The modules

**BoundedFifo** is the abstract buffer: a queue whose total duration is bounded,
`Put` at the end, `Get` from the front. `HasTotal` says what a total is without
recursion (a function of prefix sums), so that it can be reasoned about in proofs.

**BufferManager** (`buffer_manager.py`). A thread's `pc` is `idle`, `calling`
(inside the call, before the lock), `waiting` (in a condition's wait set) or
`notified` (to be given the lock back). Each action is one stretch of code under
the lock: `PutAdmit`, `PutWait`, `PutExpire`, `GetTake`, `GetWait`, `GetNone`;
`PutCall` and `GetCall` enter. `notify` wakes any one waiter, which is all the
documentation of `threading.Condition` promises. A timed wait may end at any time.

**DeadlineScheduler** (`deadline_scheduler.py`, `priority_queue.py`). The heap is
the set of its tasks; `Less` is the order of the dataclass; `NextSegment` is one
whole call, since only the session's thread uses the scheduler. Weights are
scaled to whole numbers.

**Abr** (`client/abr`, `make_abr`). The rules are operators; `Select` is one
decision of `run_session` with any buffer level and estimate. The loops with a
`break` become `LastWhile` and `Least`. Fractions are cross-multiplied, so
comparisons are exact where the code rounds. `recent` is a history variable of
the last `Stable` decisions, against which the controller's counter is judged.

**Session** (`client.py`, `playback_controller.py`, rows of `collector.py`)
composes the main thread, the playback thread and an instance of BufferManager
with one producer and one consumer. Every call that can raise has an action for
it. The two-step update of the report (`StallCounted`, `StallNoted`), the
recording of a switch before its segment is buffered, and the separate reads of
the report by `compute_qoe`, `record_qoe` and the summary are separate steps. The
ABR rule is any choice; the scheduler is replaced by the segment it is proved to
return.

**Exchange** (`socket_client.py`, `protocol.py`, `connection_handler.py`,
`request_parser.py`). Each connection is two sequences of units: a request is its
text and its newline, a header its fields and its `DATA` line, a payload its
bytes. `recv` takes any prefix of what has arrived. A handler replies 200, 404 or
400, or fails after any part of its reply has left, or times out. The statistics are read and
written in two steps, `LockStats` and `UpdateStats`; only `stats_lock`, which the first
takes and the second releases, keeps two handlers from counting on the same reading.

**Rpc** is what a client promises its caller, without streams or handlers: one call at a
time on each connection, which returns the answer of its request, or ends the
connection. `ImplementsCalls` maps Exchange to it: `header` and `body` are both "calling", what
has been asked is the call, and what the fetches have returned are the answers.

**Sums** states a sum over a finite set as the size of a set of copies, so that, like a
`HasTotal`, it can be reasoned about in proofs; the statistics and the stalls are summed with it.

**SegmentManager** (`segment_manager.py`). `resolve` by several handlers at once: the
look into the cache and the store are under the lock, the existence check and the
read of the file between them are not. Files may appear, change and go at any time; a
file that goes between the check and the read raises, which ends the handler. A file
that is not there is replaced by synthetic bytes, the same every time. The manifest is a
constant: it is read once, by the constructor.

**VideoServer** (`server.py`) composes the accept loop, any number of `stop` calls and
`serve_forever`, over several starts, with the handlers and SegmentManager. Every read
and write of `_sock`, `_accepting` and `_thread` is a step of its own: the assertion
at server.py:48, the second read of `_sock` for the call of `accept`, the two reads in
`stop`. A loop waits on the socket it has loaded, not on the field. Closing a socket
resets what is queued on it and does not wake an `accept` that waits already, which
returns when its 0.5 s are over. A join may run out on an acceptor in `Laggards`; such a loop
is `overdue`, and if the server is started before it has looked at the flag it goes on, on
the new socket.

**NetworkShaper** and **Ewma** hold the arithmetic of `shaper.py` and `ewma.py`: the cap in force
at a time, the delay that makes a download respect it, and the smoothed estimate as a
fraction.

**TimedSession** (`client.py`, `downloader.py`, `playback_controller.py`) is a session with a
clock: the main thread's downloads, with the shaper's latency and delay and the time
measured, and the playback thread with its polls, stalls and limits. Only sleeps,
timeouts and the network take time, so `Tick` waits until no thread can run. A fetch that raises
goes through the same join, in `finally`; a playback thread that has waited 600 s is `gaveUp`, which
is told apart from one that has `exited`. It complements
Session, which has every statement and every exception but no time.

**MC...** modules give the constants of the runs; **...Proofs** modules hold the
theorems. An operator marked *(a fault)* in a comment is used by no specification: it is a
plausible mistake in the definition that follows it, kept to show that a property
notices it.

## 3. The runs

| Run | Instance | Shows |
|---|---|---|
| `buffer_pair` | 1 producer, 1 consumer, capacity 3, durations 1, 2 and 4, the last longer than the buffer | refinement of BoundedFifo, exact level, no standoff, an untimed `get` blocks, a waiting `put` returns |
| `buffer_many` | 2 producers, 2 consumers, capacity 3, durations 1 (symmetric threads) | no lost wakeup, no missed space, no deadlock |
| `get_none` | 2 consumers | *violated*: an untimed `get` can return `None` |
| `scheduler` | 4 rounds, lookahead 0, 1, 3, levels 0..3 | order, the reason for it, the bound on the heap |
| `deadline_first` | the same | *violated*: the nearest deadline is not first |
| `abr` | the ladder and thresholds of the code, `Stable` = 3, all four rules, bare and wrapped | rules on the ladder, monotone or maximal; hysteresis as documented |
| `session` | 4 segments, 3 qualities, room for 2 | order, rows, switches, score, everything played, it ends |
| `session_slow` | the same, the playback thread may give up and may lag | score, row, summary and rows one stall apart at most; the only way not to end |
| `exchange` | 2 clients (1 and 2 fetches), stored, missing and malformed requests, payloads of 1 and 2 bytes | implements Rpc; each fetch its own response, the two ends in step, exact statistics, each fetch ends |
| `stats_race` | the same | *violated*: all segments received, not all counted |
| `video_server` | `serve_forever` twice, one more thread that calls `stop`, 2 connections, 1 segment whose file changes, a first accept loop that may outlive its join | up or down as a whole, the loop ends, connections are answered, cached bytes stay |
| `timed_session` | 5 segments of 2 sizes, room for 2, a profile with 4 steps, fetches of 0 to 3 | stalls counted up to the thresholds, downloads and estimate under the profile's caps, the join long enough |

Why the bounds suffice. The buffer needs one segment that fits, one that fits
only when another has left and one that never fits; wakeups are lost between two
threads of one side, so two of each side show it. With a lookahead of 3, a
call meets the leftovers of two earlier calls for the same segment from the third
round on, and four rounds follow each other at any levels. Four segments with room for two
make the producer block, the consumer stall and both catch up again. Payloads of
two bytes are the shortest that can be cut; a second fetch on one connection is
where leftovers of the first would show. The thresholds of the ABR rules are taken
from both sides. `MaxDropped`, `MaxRounds`, `MaxLevel`, `MaxDelay`, `MaxFetches`,
`MaxStall` and `SegmentCount` are the only bounds; `MaxRounds`, `MaxFetches` and
`SegmentCount` bound loops that the code bounds as well. A second start is where the
thread, the socket or the bytes of the first one could do harm; a file has to change
once between two reads. In the timed session the second is chosen so that every limit
is a whole number of them and keeps its place in the order of the code's limits: a segment
plays for 4, a poll is 1, the threshold 1, a wait polls every 2 and gives up after 5, and the
profile goes from slow through slower (a segment of 12 takes 12, so that stalls are counted, ignored
and given up) and fast to unlimited: it rises and falls, so that a step taken too early or too late shows.
The join's limit is 13, just above the 12 that a full buffer and the segment being played last.
`MaxFetch` is its bound, `MaxStarts`, `MaxConnections` and `MaxContents` are those of the server. Of its two
acceptors only the first may be overdue: it is the one that a second start can find alive.

Deadlock is checked wherever it means something. It is off in `buffer_pair`
(a producer whose segment can never fit waits for ever, by design of `put`), in the scheduler's runs
(the calls end after the last round) and in `session_slow` (the session may hang,
which is what the run describes).

Fairness. Buffer: a thread that can take the lock eventually does, and the
consumer keeps calling `get`, as the two loops of the playback thread do; nobody has
to call `put`. Session: both threads keep running, and a download ends because
every `recv` has a timeout; giving up after 600 s is never forced. Exchange: bytes
that were sent arrive and both ends keep running; no timeout or failure is ever
forced, so `FetchEnds` does not lean on them; a handler gets `stats_lock` in the end, for it is taken only once for
each segment sent and `MaxFetches` bounds these. Video server: every thread goes on with the call
it is in, and `accept` returns within its 0.5 s; nobody has to start or stop the server, to
connect, or to fail. TimedSession needs no fairness: its properties are safety properties of time.
Two assumptions of Session stand for
time limits and are constants, varied between the two runs: `NetworkMayStall` (the
600 s of the playback thread can pass while downloads continue) and
`PlaybackMayLag` (the join's 10 s per segment and 60 s can pass wherever the playback thread is, in the
middle of its update of the report too). That `PlaybackMayLag` may be false in `session` is what `JoinSuffices` of
the timed session shows, and the theorem `JoinLongEnough`, for every session in which `JoinCovers` holds: what the
buffer and the segment being played last is less than the timeout. With segments of 2 s and a buffer of 60 s
(config.py) that is so for every number of segments if `--speed`, 4 by default, is above about 0.17; below it,
`session_slow` is the run that applies. There `QoeMatchesRows` fails, because the four readings of the report can fall
before, between and after the two updates of a stall, and `QoeNearRows` says by how much. The server's `Laggards` says
which accept loops a join of 2 s may run out on, although `accept` lets go after 0.5 s; the theorems hold for any.
Assumed throughout: a thread can be started, and no `start` overlaps another
call of the server (the program makes one thread call it).

### What the violated runs say

* `get_none`: `get` waits once (buffer_manager.py:71) and answers `None` if the
  deque is empty afterwards; with two consumers another one may have taken the
  segment. The module says that `get` "blocks while the buffer is empty". The
  client has one consumer, and for one consumer the statement is proved
  (`SoleGetBlocks`).
* `deadline_first`: deadlines fall as offsets rise (deadline_scheduler.py:42-44),
  against the documented formula and against "segments whose deadline is near are
  fetched first". Order is right nevertheless, because priorities rise with offsets
  (`DownloadsInOrder`).
* `stats_race`: the handler counts after it has sent (connection_handler.py:75-81);
  tests/test_e2e.py:73 asserts the count as soon as the clients have ended.

Also seen while modelling, and not stated as properties:

* the socket stays open if the collector's constructor or `start_session` raises
  (client.py:83-99), which `SocketReleased` allows for, and the collector stays open after any exception;
* a `stop` right after `start` can trip the assertion at server.py:48 or make the loop
  call `accept` on `None`, and two concurrent `stop`s can raise `AttributeError` (server.py:74-80): the
  accept thread or one of the callers ends with a traceback, and yet, as `UpOrDown` shows, the server is down;
* an accept loop that outlives the join of its stop goes on if the server is started again in time, so that two loops
  accept on the new socket; `AcceptorsEnd` and `ConnectionsAnswered` hold all the same, and `UpOrDown` excuses such a loop;
* any `OSError` of `accept` ends the loop while `serve_forever` goes on waiting and the
  port stays open (server.py:54-55), so clients connect and are not answered until somebody stops the server.
  The code is written so; no property says that it does not happen, `ConnectionsAnswered` names it as its exception,
  and `UpOrDown` says that a later stop takes such a server down like any other;
* two handlers that miss the cache for one segment may return different bytes while its
  file changes, and the older ones may stay in the cache; afterwards nothing changes any more
  (`SettledBytes`);
* a stall that is given up is not counted at all, and 0.07 s of waiting per segment can go uncounted
  (`StallsAccounted` gives the bound); the shaper's latency is slept before the clock of the
  measurement starts (downloader.py:35-39), so it lowers no estimate;
* `PlaybackController._finished` is set and never read; buffer_based.py:9 says "first
  threshold c_i <= B" where the code takes the last; MPC, which replans each time, may ask
  for less with more in the buffer.

## 4. The proofs

For every number of threads, every duration, every capacity, ladder, weight and
threshold that satisfies the modules' assumptions.

**BufferManagerProofs.** `TypeCorrect`: the level stays in `0..MaxSeconds`.
`LevelCorrect`: the cached level is the total of the deque, by the lemmas
`TotalOfAppend` and `TotalOfTail`, which extend and shift the witness of prefix sums;
hence the clamp at zero never applies. `FifoImplemented`: from these two, every
step is a step of BoundedFifo. `NoWakeupLost` and `NoSpaceMissed` are inductive
given type correctness: they count notified threads against segments, and against
room; the second assumes that all segments have one duration (`OneDuration`) or
that one thread puts (`OneProducer`, the program's case, whatever the durations), without which one
`notify` per `get` is not enough. `NoStandoffEver`
follows from both. `SoleGetBlocks` assumes a single consumer.

**DeadlineSchedulerProofs.** `InOrder` is not inductive: nothing in it speaks of
the tasks left over. `SiblingsFirst` is the strengthening: for each task in the heap,
every segment between the next one and its own has a task of smaller priority. A
call preserves it since priorities rise strictly with the offset (weights are positive) and a
pop removes a task only with all the smaller ones. Then the smallest live task
is the segment asked for. `HeapStaysSmall` (`HeapBound`) is proved with `Bounded`: the tasks
left over are at most `round * (w - 1)` for the largest lookahead `w`, since a call adds at
most `w` and pops at least one; that a largest lookahead exists is an assumption on the
constants. `CallReturns`: the live tasks of a call have a smallest one (`SmallestExists`, from the
order `Less` on a finite set), and with a positive lookahead there are some, so the pops of
`next_segment` do find a segment.

**AbrProofs.** `TypeCorrect`: every rule returns an index. `HysteresisCorrect`: the
rule, stated over the history, is not inductive; `HoldCounts` relates the counter
to the history (exactly the latest `_hold_count` decisions wished for the candidate)
and is. `RateCorrect` and `BufferRulesMonotone` come from the properties of
`LastWhile` and `Least`, whose existence rests on the well-foundedness of the natural
numbers, and from `AskedChoice` (the last decision is what the rule gives).

**VideoServerProofs.** `WholeOrNothing` (`UpOrDown`) needs to know what each pending call still
has to do. `Lifecycle` is the strengthening: only the latest socket listens
(`OneListens`); while the flag is up nothing of the current start has been taken
down (`Accepting`); while it is down, as long as a socket listens somebody is on the way to
close it (`Closing`), and as long as an acceptor runs that nobody has given up, somebody is
on the way to join it (`Joining`); at most one acceptor is not done or overdue (`OneRuns`). `BytesSettle`
(`SettledBytes`) rests on `Settlement`, which ties the bytes that later calls have
returned to those in the cache. `TypeCorrect` includes that no loop calls `accept` on `None`.

**TimedSessionProofs.** Lemmas on the shaper (the cap in force is that of a step of the
profile; the delay makes a download take its size over the cap) and on fractions (an average of two
fractions is not above a bound of both) precede the theorems. `TypeCorrect` conserves segments: what is
played and what is buffered add up to what was put. `EstimateStaysUnder` adds that a
download being measured has taken its time at a cap that was in force; the property speaks of the steps of the
profile, so a lemma shows that the cap which the loop of `current_cap_bps` finds is that of the step in force.
`StallsCounted` is inductive over `Waits`: at the end of each segment, and through the poll and
the stall that may follow, the waited time is accounted for within the bound. `JoinLongEnough` adds
`Fits`: while the main thread joins, what is left to play ends before the timeout, from
`JoinCovers`; and that a deadline is always that of the wait it ends, so that a thread that gives up has waited its 600 s.

**ExchangeProofs.** The properties speak of what a client has got at the end; the invariant `Inv` says,
for each connection (`Conn`), where the request and the response are at any moment: the
request is on its way up or with the handler, and what is on its way down, in the client's buffer and still
to be sent is one response, whole, or cut short where a failure has ended it. A receive
only moves the boundary between a stream and a buffer (`RecvKeeps`, `TakeKeeps`), so the
invariant speaks of their concatenation. `ResponsesMatch` and `TypeCorrect` follow
from it, for any number of connections and any sizes. `CallsImplemented` is the refinement of Rpc, step by
step (`StepOfCall`): only `ReadBody` returns, and by `BodyIsWhole` what it returns is the answer of
the request. `Inv` does not say that a response will be complete; `Coming` adds that, while a fetch
waits, its request has not been read, or is being served, or has ended the connection, or else the units on their
way are all that is missing. `StaysInStep` (`InStep`) follows: `recv` never waits for bytes that
nobody is going to send. It is the part of `FetchEnds` that needs no fairness.
`StatisticsSettle` (`StatsSettle`) compares two sums, over the segments received and over
the segments counted. What is inductive is `Accounted`: the counters and what handlers between their
send and their count still have to add cover what is *owed*, the segments received and those
on their way as a whole to a client that waits for them, and equal it as long as no client has given up. With it goes
`Locked`: one handler at most is between its reading of the statistics and its writing, and what it has read is what they
still are. A step adds one element to
one of the sums, moves one, or takes some away; the lemmas of SumsProofs say what this does to a sum.

**SumsProofs.** The sum over no element, one more element, fewer elements, and of ones, for any finite
set; they rest on the cardinality theorems of the library, so no induction is needed in this project.

**SessionProofs.** `UsesBuffer` comes first: under `MainInv`, which says how far `run_session`, the
buffer and the rows are, every step of the session is a step of BufferManager or a stutter. The theorems of
BufferManagerProofs, taken by an INSTANCE with one producer and one consumer, then hold in the
session (`BufferSound`; type correctness is used by the rest). `PlayerInv` adds that the deque holds the consecutive
segments after those taken, and that what is taken and what is buffered add up to what was put;
`StreamCorrect`, `SocketCorrect` and `TypeCorrect` follow. `SwitchInv` is the strengthening of
`SwitchesExplained`: it knows which change of quality has been recorded and which is pending at each
statement. `EverythingPlayed` assumes what the run `session` does (neither of the two time limits passes) and is inductive with
`AllTaken`: the playback thread ends only when all segments are played or the main thread
unwinds. Under the same assumption `PutIsServed` combines this with the buffer's theorems: whenever
`run_session` waits in `put`, there is a segment in the buffer and a live playback thread to take it, which is the part of
`SessionEnds` that needs no fairness. `QoeAgrees` (`QoeMatchesRows`) assumes that playback keeps up, not that the network does. It follows
the stalls on their way: the report's seconds are the sum of its events and of the stall being noted
(`Noted`); once the join has returned in a session that goes on, no stall is being noted nor ever will be, even if the playback thread
is alive (`Quiet`: the join runs out only on a thread that waits for a segment, and everything was put
before it, so none begins or is noted afterwards); the rebuffer rows are the first events (`Copied`); the qualities
and switches are those of the rows (`Recorded`, `Counted`), and the score, its row and the summary were made
of them (`Written`). `QoeAlmostAgrees` (`QoeNearRows`) assumes nothing: the join may run out anywhere. Its `Near` follows the
readings one by one: once the join has returned, at most one stall is still to be noted, because everything has been
put by then and the thread asks for a segment only while some are left (`Hungry`), so each reading has the seconds before it or after it (`LateStall`, `OneStallApart`).

Every safety property that a passing run checks, the type invariants, the action property and the two
refinements included, is stated by a theorem. Only model-checked: liveness (`BlockedPutReturns`,
`SessionEnds`, `EndsUnlessGivenUp`, `FetchEnds`, `AcceptorsEnd`, `ConnectionsAnswered`), which needs fairness and
ENABLED. MPC is modelled and its type is proved, but no property says more of it.

## 5. What is not modelled

The text of messages and rows (they are data that no property distinguishes beyond
the units above), SQL, plotting, the analysis and comparison scripts, the command
lines, configuration values (they appear as constants). Of `segment_manager.py` the reading of the
manifest and the pattern of the synthetic bytes, of `shaper.py` the reading of a profile.
`MovingAverage` is not used by the program. Time is a number only in the
scheduler and in TimedSession; elsewhere timeouts are choices. TimedSession takes
units in which every delay is whole, and computing takes no time in it. Which waiter a
`notify` picks is left open. Floating-point rounding is not modelled.

## 6. The order of the work, and what is left

Done, in this order: BufferManager with BoundedFifo and its proofs (the one object
shared between the client's threads); DeadlineScheduler and its proofs; Session, which
composes the buffer with its two users; Exchange; Abr and its proofs; SegmentManager and VideoServer with
their proofs; NetworkShaper, Ewma and TimedSession with theirs; the proofs of Exchange; the
proofs of Session, which build on those of BufferManager.
The sums (Sums and its lemmas) followed, and with them the proofs of the statistics and of the score, the
refinement of Rpc, the bound on the heap, and the two theorems that nobody waits in vain
(`StaysInStep`, `PutIsServed`).

Left: what is only model-checked (section 4), and properties of MPC beyond its type.
