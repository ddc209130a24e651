-------------------------------- MODULE MCAbr --------------------------------
(***************************************************************************)
(* Instance of Abr for TLC: the ladder and the defaults of the code, in    *)
(* seconds and 100 kbit/s, with buffer levels and estimates on both sides  *)
(* of every threshold.                                                     *)
(***************************************************************************)
EXTENDS Abr

CONSTANT none

MCRules        == {"rate", "buffer", "bola", "mpc"}
MCBitrate      == [i \in 0..3 |-> <<5, 10, 25, 50>>[i+1]]
MCBufferLevels == {0, 6, 7, 9, 10, 12, 14, 18, 22, 30, 34, 36}
MCThroughputs  == {0, 3, 12, 30, 59}
=============================================================================
