--------------------------------- MODULE Ewma ---------------------------------
(***************************************************************************)
(* EWMA (client/throughput): the smoothed throughput.  Throughputs and     *)
(* estimates are fractions, [num, den] with den > 0; no rounding.          *)
(***************************************************************************)
EXTENDS Integers

CONSTANTS AlphaNum, AlphaDen   \* alpha = AlphaNum / AlphaDen

ASSUME AlphaAssumption ==
  /\ AlphaNum \in Nat \ {0} /\ AlphaDen \in Nat \ {0}
  /\ AlphaNum <= AlphaDen

Fraction == [num : Nat, den : Nat \ {0}]
NoEstimate == [num |-> 0, den |-> 0]

\* update: the first sample is taken as it is.
Smoothed(value, sample) ==
  IF value = NoEstimate
  THEN sample
  ELSE [num |-> AlphaNum * sample.num * value.den
                  + (AlphaDen - AlphaNum) * value.num * sample.den,
        den |-> AlphaDen * sample.den * value.den]

\* f <= n
AtMost(f, n) == f.num <= n * f.den
=============================================================================
