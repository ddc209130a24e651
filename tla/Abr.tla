--------------------------------- MODULE Abr ---------------------------------
(***************************************************************************)
(* client/abr: the rules that choose the quality of the next segment, and  *)
(* the hysteresis controller that may wrap any of them.  One decision is   *)
(* one call of select by run_session, with whatever buffer level and       *)
(* throughput estimate the session has then; the rules keep no state, the  *)
(* controller keeps a candidate and a count.                               *)
(*                                                                         *)
(* Levels and durations are whole seconds, bitrates and throughputs whole  *)
(* units; scores and thresholds are multiplied by their denominators, so   *)
(* that comparisons are exact where the code's floats are rounded.         *)
(***************************************************************************)
EXTENDS Integers, Sequences, SequencesExt

CONSTANTS Rules,             \* the algorithms make_abr is asked for
          Top,               \* index of the highest quality
          Bitrate,           \* bitrate of each index
          SegmentDuration,
          BufferLevels,      \* buffer levels a decision may find
          Throughputs,       \* estimates it may find, 0 when there is none
          Safety,            \* RateBasedABR(safety), in percent
          Reserve, Cap,      \* BufferBasedABR(reserve, buffer_cap)
          BLow, BHigh,       \* BOLA(b_low, b_high)
          Horizon,           \* MPC(horizon)
          Alpha, Beta, Gamma, RebufferRisk,  \* MPC's weights, in one unit
          UpRatio,           \* HysteresisABR(up_ratio), in percent
          Stable, MinBufferForUp, DeepBuffer,
          None               \* no candidate, no decision yet

Indexes == 0..Top

ASSUME LadderAssumption ==
  /\ Top \in Nat \ {0}
  /\ Bitrate \in [Indexes -> Nat \ {0}]
  /\ \A i, j \in Indexes : i < j => Bitrate[i] < Bitrate[j]
  /\ SegmentDuration \in Nat \ {0}
  /\ BufferLevels \subseteq Nat /\ Throughputs \subseteq Nat

ASSUME RuleAssumption ==
  /\ Rules \subseteq {"rate", "buffer", "bola", "mpc"}
  /\ Safety \in Nat
  /\ Reserve \in Nat /\ Cap \in Nat /\ Reserve < Cap
  /\ BLow \in Nat /\ BHigh \in Nat /\ BLow < BHigh
  /\ Horizon \in Nat \ {0}
  /\ Alpha \in Nat /\ Beta \in Nat /\ Gamma \in Nat /\ RebufferRisk \in Nat

ASSUME HysteresisAssumption ==
  /\ UpRatio \in Nat /\ Stable \in Nat \ {0}
  /\ MinBufferForUp \in Nat /\ DeepBuffer \in Nat

ABRState == [level : BufferLevels, throughput : Throughputs]

Decision == [asked : Indexes, current : Indexes, ready : BOOLEAN]

ASSUME NoneAssumption == None \notin Indexes /\ None \notin Decision

VARIABLES rule,       \* the algorithm of this session
          wrapped,    \* whether make_abr wraps it in HysteresisABR
          state,      \* the ABRState of the last decision: level, throughput
          current,    \* run_session's current_index
          candidate,  \* _candidate
          holdCount,  \* _hold_count
          recent      \* history: the last Stable decisions, recent[0] the last

vars == <<rule, wrapped, state, current, candidate, holdCount, recent>>

TypeOK ==
  /\ rule \in Rules
  /\ wrapped \in BOOLEAN
  /\ state \in ABRState \cup {None}
  /\ current \in Indexes
  /\ candidate \in Indexes \cup {None}
  /\ holdCount \in 0..(Stable - 1)
  /\ recent \in [0..(Stable - 1) -> Decision \cup {None}]

Init ==
  /\ rule \in Rules
  /\ wrapped \in BOOLEAN
  /\ state = None
  /\ current = 0
  /\ candidate = None
  /\ holdCount = 0
  /\ recent = [k \in 0..(Stable - 1) |-> None]

-----------------------------------------------------------------------------
(* The rules *)

Least(S) == CHOOSE k \in S : \A j \in S : k <= j

\* The loop `for i: if i in S: idx = i else: break', from idx = 0.
LastWhile(S) ==
  LET out == Least({k \in 0..(Top + 1) : k \notin S})
  IN  IF out = 0 THEN 0 ELSE out - 1

\* state.throughput_bps or the lowest bitrate.
Estimate(throughput) == IF throughput = 0 THEN Bitrate[0] ELSE throughput

Fitting(throughput) ==
  {i \in Indexes : 100 * Bitrate[i] <= Safety * Estimate(throughput)}

\* Stops at the first one that does not fit, not before it (a fault).
OneTooHigh(throughput) ==
  Least({k \in 0..Top : k = Top \/ k \notin Fitting(throughput)})

RateBased(throughput) == LastWhile(Fitting(throughput))

\* thresholds[i] <= level
Passed(level) ==
  {i \in Indexes : Top * Reserve + (Cap - Reserve) * i <= Top * level}

BufferBased(level) ==
  IF level <= Reserve THEN 0
  ELSE IF level >= Cap THEN Top
  ELSE LastWhile(Passed(level))

\* score(i, level) >= 0; the utilities are shifted to BLow at the lowest index.
Covering(level) ==
  {i \in Indexes : (level - BLow) * Bitrate[Top]
                     <= (BHigh - BLow) * (Bitrate[i] - Bitrate[0])}

\* Falls back to the lowest quality above every score (a fault).
BolaFallsLow(level) ==
  IF level <= BLow THEN 0
  ELSE IF level >= BHigh THEN Top
  ELSE IF Covering(level) = {} THEN 0 ELSE Least(Covering(level))

Bola(level) ==
  IF level <= BLow THEN 0
  ELSE IF level >= BHigh THEN Top
  ELSE IF Covering(level) = {} THEN Top ELSE Least(Covering(level))

\* One segment of _simulate; the buffer is counted in 1/throughput seconds.
Simulate(sim, i, throughput) ==
  LET needed == Bitrate[i] * SegmentDuration
      drained == IF sim.buffer > needed THEN sim.buffer - needed ELSE 0
      missing == IF sim.buffer < needed THEN needed - sim.buffer ELSE 0
      buffer == drained + SegmentDuration * throughput
      change == IF Bitrate[i] > Bitrate[sim.previous]
                THEN Bitrate[i] - Bitrate[sim.previous]
                ELSE Bitrate[sim.previous] - Bitrate[i]
  IN
  [ buffer   |-> buffer,
    previous |-> i,
    score    |-> sim.score + Alpha * Bitrate[i] * throughput
                   - Beta * missing * Bitrate[Top]
                   - Gamma * change * throughput
                   - IF buffer < 2 * throughput
                     THEN RebufferRisk * Bitrate[Top] * throughput ELSE 0 ]

Score(plan, level, throughput, previous) ==
  FoldLeft(LAMBDA sim, i : Simulate(sim, i, throughput),
           [buffer |-> level * throughput, previous |-> previous, score |-> 0],
           plan).score

\* The first index of the best plan, the first such plan if several are.
MpcChoice(level, throughput, previous) ==
  LET ranked == {[score |-> Score(plan, level, Estimate(throughput), previous),
                  first |-> plan[1]] : plan \in [1..Horizon -> Indexes]}
      best   == {i \in Indexes : \E r \in ranked :
                   r.first = i /\ \A other \in ranked : other.score <= r.score}
  IN  IF best = {} THEN previous ELSE Least(best)

\* Each choice is computed once.
Mpc ==
  [level \in BufferLevels |-> [throughput \in Throughputs |->
    [previous \in Indexes |-> MpcChoice(level, throughput, previous)]]]

\* inner.select(state)
Choice(name, level, throughput, previous) ==
  CASE name = "rate"   -> RateBased(throughput)
    [] name = "buffer" -> BufferBased(level)
    [] name = "bola"   -> Bola(level)
    [] name = "mpc"    -> Mpc[level][throughput][previous]

-----------------------------------------------------------------------------
(* HysteresisABR.select *)

UpAllowed(level, asked, previous) ==
  \/ level >= DeepBuffer
  \/ /\ level >= MinBufferForUp
     /\ 100 * Bitrate[asked] >= UpRatio * Bitrate[previous]

Settle(chosen) == current' = chosen /\ candidate' = None /\ holdCount' = 0

\* The count goes on whatever the candidate was (a fault).
HoldAny(asked) ==
  IF holdCount + 1 >= Stable
  THEN Settle(asked)
  ELSE current' = current /\ candidate' = asked /\ holdCount' = holdCount + 1

\* Waits for one more (a fault).
HoldLonger(asked) ==
  LET count == IF asked = candidate THEN holdCount + 1 ELSE 1
  IN  IF count > Stable
      THEN Settle(asked)
      ELSE current' = current /\ candidate' = asked /\ holdCount' = count

\* One more decision in a row for the same candidate, which may be the last one
\* needed.
Hold(asked) ==
  LET count == IF asked = candidate THEN holdCount + 1 ELSE 1
  IN  IF count >= Stable
      THEN Settle(asked)
      ELSE current' = current /\ candidate' = asked /\ holdCount' = count

Stabilise(level, asked) ==
  \/ asked <= current /\ Settle(asked)
  \/ asked > current /\ ~UpAllowed(level, asked, current) /\ Settle(current)
  \/ asked > current /\ UpAllowed(level, asked, current) /\ Hold(asked)

\* One decision of run_session.
Select(level, throughput) ==
  LET asked == Choice(rule, level, throughput, current) IN
  /\ IF wrapped
     THEN Stabilise(level, asked)
     ELSE current' = asked /\ UNCHANGED <<candidate, holdCount>>
  /\ state' = [level |-> level, throughput |-> throughput]
  /\ recent' = [k \in 0..(Stable - 1) |->
                  IF k > 0 THEN recent[k-1]
                  ELSE [asked |-> asked, current |-> current,
                        ready |-> UpAllowed(level, asked, current)]]
  /\ UNCHANGED <<rule, wrapped>>

Next == \E level \in BufferLevels, throughput \in Throughputs :
          Select(level, throughput)

Spec == Init /\ [][Next]_vars

-----------------------------------------------------------------------------
(* Properties *)

\* The hysteresis rules, over the decisions themselves instead of the counter:
\* a lower or equal candidate is taken at once; a higher one if and only if the
\* last Stable decisions all asked for it, from the same current quality, with
\* the buffer and the ratio that allow it.  The counter must restart on every
\* other candidate, refusal, downswitch and completed switch
\* (hysteresis.py:7-13, 41-70).
HysteresisRule ==
  wrapped /\ recent[0] # None =>
    LET last == recent[0]
        observed == last.ready /\ \A k \in 0..(Stable - 1) : recent[k] = last
    IN  current = IF last.asked <= last.current \/ observed
                  THEN last.asked ELSE last.current

\* Rate-based selection takes the highest quality within the safe throughput:
\* whatever it takes above the lowest fits, and nothing above it does
\* (base.py:63-72, rate_based.py:16-18).
RateFits ==
  rule = "rate" /\ recent[0] # None =>
    \A i \in Indexes :
      /\ i = recent[0].asked /\ i > 0 => i \in Fitting(state.throughput)
      /\ i > recent[0].asked => i \notin Fitting(state.throughput)

\* More buffer never lowers the quality the buffer rules ask for, across the
\* edges of their saturation regions too (buffer_based.py:9-10, bola.py:17-20;
\* tests/test_abr.py:38-44, 60-63).
MoreBufferNoLower ==
  rule \in {"buffer", "bola"} /\ recent[0] # None /\ state.level <= state'.level =>
    recent[0].asked <= recent'[0].asked

MonotoneInBuffer == [][MoreBufferNoLower]_vars
=============================================================================
