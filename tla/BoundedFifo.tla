----------------------------- MODULE BoundedFifo -----------------------------
(***************************************************************************)
(* What the playback buffer promises its two sides, free of locks, waits   *)
(* and cached levels: a first-in first-out queue of segments whose total   *)
(* duration never exceeds MaxSeconds.                                      *)
(***************************************************************************)
EXTENDS Integers, Sequences

CONSTANTS Segments,    \* the segments that may be buffered
          Duration,    \* playable seconds of each segment
          MaxSeconds   \* capacity of the queue, in seconds

VARIABLE queue

\* n is the sum of the durations of q: f[i] is the total of the first i
\* segments.  Stated with a witness and not by recursion, so that it can be
\* proved about; that f never decreases follows from the rest by induction.
HasTotal(q, n) ==
  \E f \in [0..Len(q) -> 0..n] :
    /\ f[0] = 0
    /\ \A i \in 1..Len(q) : f[i] = f[i-1] + Duration[q[i]]
    /\ \A i, j \in 0..Len(q) : i <= j => f[i] <= f[j]
    /\ f[Len(q)] = n

Init == queue = << >>

Put(s) ==
  /\ \E n \in 0..MaxSeconds : /\ HasTotal(queue, n)
                              /\ n + Duration[s] <= MaxSeconds
  /\ queue' = Append(queue, s)

Get ==
  /\ queue # << >>
  /\ queue' = Tail(queue)

Next == Get \/ \E s \in Segments : Put(s)

Spec == Init /\ [][Next]_queue
=============================================================================
