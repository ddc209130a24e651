--------------------------- MODULE MCBufferManager ---------------------------
(* Instances of BufferManager for TLC. *)
EXTENDS BufferManager, TLC

CONSTANTS p1, p2, c1, c2, none

\* A short and a long segment, and one that is longer than the whole buffer.
MixedDurations   == "short" :> 1 @@ "long" :> 2 @@ "oversized" :> 4
MixedSegments    == DOMAIN MixedDurations

\* Two segments told apart by name only.
EqualDurations   == "a" :> 1 @@ "b" :> 1
EqualSegments    == DOMAIN EqualDurations

Symmetry == Permutations({p1, p2}) \cup Permutations({c1, c2})
=============================================================================
