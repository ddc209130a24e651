----------------------------- MODULE MCTimedSession -----------------------------
(* Instances of TimedSession for TLC. *)
EXTENDS TimedSession

\* Slow, slower, fast and then unlimited, the first step some time after the start.
MCTimeline == << [t |-> 1, cap |-> 2], [t |-> 9, cap |-> 1], [t |-> 18, cap |-> 4],
                 [t |-> 30, cap |-> 0] >>
=============================================================================
