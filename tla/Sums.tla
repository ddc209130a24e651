--------------------------------- MODULE Sums ---------------------------------
(***************************************************************************)
(* The sum of a function over a finite set, as the size of a set: an       *)
(* element s is counted f[s] times, as <<s, 1>> ... <<s, f[s]>>.  Unlike a *)
(* fold, it can be reasoned about without induction (SumsProofs).          *)
(***************************************************************************)
EXTENDS Integers, FiniteSets

Copies(S, f) == UNION {{s} \X (1..f[s]) : s \in S}

SumOver(S, f) == Cardinality(Copies(S, f))
=============================================================================
