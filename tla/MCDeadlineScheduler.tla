------------------------- MODULE MCDeadlineScheduler -------------------------
(***************************************************************************)
(* Instance of DeadlineScheduler for TLC: the weights of client.py (1.0 and *)
(* 0.1), its lookahead of 3, and the edges 0 and 1.  Time is counted in     *)
(* segments.                                                               *)
(***************************************************************************)
EXTENDS DeadlineScheduler

CONSTANT none

MCScale         == 10
MCUrgencyWeight == 1 * MCScale
MCBufferBonus   == MCScale \div 10
MCLookaheads    == {0, 1, 3}
=============================================================================
