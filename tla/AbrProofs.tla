------------------------------ MODULE AbrProofs ------------------------------
(***************************************************************************)
(* Theorems about Abr, for every ladder, every threshold and every         *)
(* parameter of the hysteresis controller.                                 *)
(***************************************************************************)
EXTENDS Abr, WellFoundedInduction, TLAPS

\* A set of natural numbers that is not empty has a least element.
LEMMA LeastProperties ==
  ASSUME NEW S \in SUBSET Nat, S # {}
  PROVE  Least(S) \in S /\ \A j \in S : Least(S) <= j
<1> DEFINE R == OpToRel(<, Nat)
<1>1. IsWellFoundedOn(R, Nat)
  BY NatLessThanWellFounded
<1>2. \A x, y \in Nat : <<x, y>> \in R <=> x < y
  BY DEF OpToRel
<1> HIDE DEF R
<1>3. PICK k \in S : \A j \in S : <<j, k>> \notin R
  BY <1>1, WFMin
<1>4. ASSUME NEW j \in S PROVE k <= j
  <2>1. ~(j < k)
    BY <1>2, <1>3
  <2> QED
    BY <2>1
<1> QED
  BY <1>4 DEF Least

\* The loop with a break returns the last index before the first one outside S,
\* or 0.
LEMMA LastWhileProperties ==
  ASSUME NEW S \in SUBSET Indexes
  PROVE  \E out \in 0..(Top + 1) :
           /\ out \notin S
           /\ \A j \in 0..(Top + 1) : j < out => j \in S
           /\ LastWhile(S) = IF out = 0 THEN 0 ELSE out - 1
           /\ LastWhile(S) \in Indexes
<1> DEFINE Out == {k \in 0..(Top + 1) : k \notin S}
<1>1. Top \in Nat /\ Out \in SUBSET Nat /\ Top + 1 \in Out
  BY LadderAssumption DEF Indexes
<1>2. Least(Out) \in Out /\ \A j \in Out : Least(Out) <= j
  BY <1>1, LeastProperties
<1>3. LastWhile(S) = IF Least(Out) = 0 THEN 0 ELSE Least(Out) - 1
  BY DEF LastWhile
<1>4. \A j \in 0..(Top + 1) : j < Least(Out) => j \in S
  BY <1>1, <1>2
<1>5. LastWhile(S) \in Indexes
  BY <1>1, <1>2, <1>3 DEF Indexes
<1> QED
  BY <1>2, <1>3, <1>4, <1>5

\* A larger set of acceptable indexes never gives a lower result.
LEMMA LastWhileMonotone ==
  ASSUME NEW S \in SUBSET Indexes, NEW T \in SUBSET Indexes, S \subseteq T
  PROVE  LastWhile(S) <= LastWhile(T)
<1>1. PICK s \in 0..(Top + 1) :
        /\ s \notin S
        /\ \A j \in 0..(Top + 1) : j < s => j \in S
        /\ LastWhile(S) = IF s = 0 THEN 0 ELSE s - 1
  BY LastWhileProperties
<1>2. PICK t \in 0..(Top + 1) :
        /\ t \notin T
        /\ \A j \in 0..(Top + 1) : j < t => j \in T
        /\ LastWhile(T) = IF t = 0 THEN 0 ELSE t - 1
  BY LastWhileProperties
<1>3. s <= t
  BY <1>1, <1>2, LadderAssumption
<1> QED
  BY <1>1, <1>2, <1>3, LadderAssumption

LEMMA FittingType ==
  ASSUME NEW throughput \in Nat
  PROVE  /\ Fitting(throughput) \in SUBSET Indexes
         /\ \A i, j \in Indexes :
              i < j /\ j \in Fitting(throughput) => i \in Fitting(throughput)
<1>1. Estimate(throughput) \in Nat
  BY LadderAssumption DEF Estimate, Indexes
<1>2. Safety * Estimate(throughput) \in Nat
  BY <1>1, RuleAssumption
<1> QED
  BY <1>2, LadderAssumption DEF Fitting

\* Multiplying by a natural number keeps the order.
LEMMA ScaleOrder ==
  ASSUME NEW a \in Int, NEW b \in Int, NEW c \in Nat, a <= b
  PROVE  c * a <= c * b
<1>1. c * (b - a) >= 0
  OBVIOUS
<1>2. c * (b - a) = c * b - c * a
  OBVIOUS
<1> QED
  BY <1>1, <1>2

LEMMA BufferBasedProperties ==
  ASSUME NEW level \in Nat, NEW more \in Nat, level <= more
  PROVE  BufferBased(level) \in Indexes /\ BufferBased(level) <= BufferBased(more)
<1>1. /\ Passed(level) \in SUBSET Indexes /\ Passed(more) \in SUBSET Indexes
      /\ 0 \in Indexes /\ Top \in Indexes
  BY LadderAssumption DEF Passed, Indexes
<1>2. Top * level <= Top * more
  BY ScaleOrder, LadderAssumption
<1>3. Passed(level) \subseteq Passed(more)
  <2> SUFFICES ASSUME NEW i \in Indexes,
                      Top * Reserve + (Cap - Reserve) * i <= Top * level
               PROVE  Top * Reserve + (Cap - Reserve) * i <= Top * more
    BY DEF Passed
  <2>1. /\ Top * Reserve + (Cap - Reserve) * i \in Int
        /\ Top * level \in Int /\ Top * more \in Int
    BY LadderAssumption, RuleAssumption DEF Indexes
  <2> QED
    BY <1>2, <2>1
<1>4. LastWhile(Passed(level)) <= LastWhile(Passed(more))
  BY <1>1, <1>3, LastWhileMonotone
<1>5. LastWhile(Passed(level)) \in Indexes /\ LastWhile(Passed(more)) \in Indexes
  BY <1>1, LastWhileProperties
<1> QED
  BY <1>1, <1>4, <1>5, LadderAssumption, RuleAssumption DEF BufferBased, Indexes

LEMMA BolaProperties ==
  ASSUME NEW level \in Nat, NEW more \in Nat, level <= more
  PROVE  Bola(level) \in Indexes /\ Bola(level) <= Bola(more)
<1>1. /\ Covering(level) \in SUBSET Nat /\ Covering(more) \in SUBSET Nat
      /\ Covering(level) \subseteq Indexes /\ Covering(more) \subseteq Indexes
      /\ 0 \in Indexes /\ Top \in Indexes
  BY LadderAssumption DEF Covering, Indexes
<1>2. Bitrate[Top] * (level - BLow) <= Bitrate[Top] * (more - BLow)
  <2>1. /\ Bitrate[Top] \in Nat
        /\ level - BLow \in Int /\ more - BLow \in Int
        /\ level - BLow <= more - BLow
    BY <1>1, LadderAssumption, RuleAssumption
  <2> QED
    BY <2>1, ScaleOrder
<1>3. Covering(more) \subseteq Covering(level)
  <2> SUFFICES ASSUME NEW i \in Indexes,
                      (more - BLow) * Bitrate[Top]
                        <= (BHigh - BLow) * (Bitrate[i] - Bitrate[0])
               PROVE  (level - BLow) * Bitrate[Top]
                        <= (BHigh - BLow) * (Bitrate[i] - Bitrate[0])
    BY DEF Covering
  <2>1. Bitrate[Top] \in Nat /\ Bitrate[i] \in Nat /\ Bitrate[0] \in Nat
    BY <1>1, LadderAssumption
  <2>2. (BHigh - BLow) * (Bitrate[i] - Bitrate[0]) \in Int
    BY <2>1, RuleAssumption
  <2>3. /\ (level - BLow) * Bitrate[Top] = Bitrate[Top] * (level - BLow)
        /\ (more - BLow) * Bitrate[Top] = Bitrate[Top] * (more - BLow)
        /\ Bitrate[Top] * (level - BLow) \in Int
        /\ Bitrate[Top] * (more - BLow) \in Int
    BY <2>1, RuleAssumption
  <2> QED
    BY <1>2, <2>2, <2>3
<1>4. /\ Covering(level) # {} => /\ Least(Covering(level)) \in Covering(level)
                                 /\ \A j \in Covering(level) : Least(Covering(level)) <= j
      /\ Covering(more) # {} => Least(Covering(more)) \in Covering(more)
  BY <1>1, LeastProperties
<1>5. Bola(level) \in Indexes
  BY <1>1, <1>4 DEF Bola
<1> QED
  <2>1. CASE level <= BLow \/ more >= BHigh
    <3>1. Bola(more) \in Indexes
      BY <1>1, <1>4 DEF Bola
    <3> QED
      BY <2>1, <3>1, <1>5, LadderAssumption, RuleAssumption DEF Bola, Indexes
  <2>2. CASE level > BLow /\ more < BHigh
    <3>1. /\ Bola(level) = IF Covering(level) = {} THEN Top ELSE Least(Covering(level))
          /\ Bola(more) = IF Covering(more) = {} THEN Top ELSE Least(Covering(more))
      BY <2>2, RuleAssumption DEF Bola
    <3>2. CASE Covering(more) = {}
      BY <3>1, <3>2, <1>5, LadderAssumption DEF Indexes
    <3>3. CASE Covering(more) # {}
      BY <3>1, <3>3, <1>3, <1>4, <1>5
    <3> QED
      BY <3>2, <3>3
  <2> QED
    BY <2>1, <2>2, RuleAssumption

LEMMA MpcType ==
  ASSUME NEW level \in BufferLevels, NEW throughput \in Throughputs,
         NEW previous \in Indexes
  PROVE  Mpc[level][throughput][previous] \in Indexes
<1> DEFINE ranked == {[score |-> Score(plan, level, Estimate(throughput), previous),
                       first |-> plan[1]] : plan \in [1..Horizon -> Indexes]}
           best   == {i \in Indexes : \E r \in ranked :
                        r.first = i /\ \A other \in ranked : other.score <= r.score}
<1>1. best \in SUBSET Nat /\ best \subseteq Indexes
  BY LadderAssumption DEF Indexes
<1>2. best # {} => Least(best) \in Indexes
  <2> HIDE DEF best
  <2> QED
    BY <1>1, LeastProperties
<1>3. MpcChoice(level, throughput, previous)
        = IF best = {} THEN previous ELSE Least(best)
  BY DEF MpcChoice
<1>4. Mpc[level][throughput][previous] = MpcChoice(level, throughput, previous)
  BY DEF Mpc
<1> QED
  <2> HIDE DEF best
  <2> QED
    BY <1>2, <1>3, <1>4

LEMMA RateBasedType ==
  ASSUME NEW throughput \in Nat
  PROVE  RateBased(throughput) \in Indexes
BY FittingType, LastWhileProperties DEF RateBased

\* Every rule returns an index of the ladder.
LEMMA ChoiceType ==
  ASSUME NEW name \in Rules, NEW level \in BufferLevels,
         NEW throughput \in Throughputs, NEW previous \in Indexes
  PROVE  Choice(name, level, throughput, previous) \in Indexes
<1>1. level \in Nat /\ throughput \in Nat
      /\ name \in {"rate", "buffer", "bola", "mpc"}
  BY LadderAssumption, RuleAssumption
<1>2. RateBased(throughput) \in Indexes
  BY <1>1, RateBasedType
<1>3. BufferBased(level) \in Indexes
  BY <1>1, BufferBasedProperties
<1>4. Bola(level) \in Indexes
  BY <1>1, BolaProperties
<1>5. Mpc[level][throughput][previous] \in Indexes
  BY MpcType
<1> QED
  BY <1>1, <1>2, <1>3, <1>4, <1>5 DEF Choice

-----------------------------------------------------------------------------
\* The decision of a step, as the history records it.
Made(level, throughput) ==
  LET asked == Choice(rule, level, throughput, current)
  IN  [asked |-> asked, current |-> current,
       ready |-> UpAllowed(level, asked, current)]

LEMMA MadeType ==
  ASSUME TypeOK, NEW level \in BufferLevels, NEW throughput \in Throughputs,
         Select(level, throughput)
  PROVE  /\ Made(level, throughput) \in Decision
         /\ recent'[0] = Made(level, throughput)
         /\ \A k \in 1..(Stable - 1) : recent'[k] = recent[k-1]
         /\ recent' \in [0..(Stable - 1) -> Decision \cup {None}]
         /\ state' = [level |-> level, throughput |-> throughput]
<1> DEFINE asked == Choice(rule, level, throughput, current)
<1>1. asked \in Indexes /\ current \in Indexes
  BY ChoiceType DEF TypeOK
<1>2. UpAllowed(level, asked, current) \in BOOLEAN
  BY DEF UpAllowed
<1>3. Made(level, throughput) \in Decision
  BY <1>1, <1>2 DEF Made, Decision
<1>4. /\ recent' = [k \in 0..(Stable - 1) |->
                      IF k > 0 THEN recent[k-1] ELSE Made(level, throughput)]
      /\ state' = [level |-> level, throughput |-> throughput]
  BY DEF Select, Made
<1> HIDE DEF Made
<1>5. \A k \in 0..(Stable - 1) : k > 0 =>
        k - 1 \in 0..(Stable - 1) /\ recent[k-1] \in Decision \cup {None}
  BY HysteresisAssumption DEF TypeOK
<1> QED
  BY <1>3, <1>4, <1>5, HysteresisAssumption

\* Every decision, bare or wrapped, is an index of the ladder, and the counter
\* stays below the number of decisions to wait for.
THEOREM TypeCorrect == Spec => []TypeOK
<1>1. Init => TypeOK
  BY LadderAssumption, HysteresisAssumption DEF Init, TypeOK, Indexes
<1>2. TypeOK /\ [Next]_vars => TypeOK'
  <2> SUFFICES ASSUME TypeOK, [Next]_vars PROVE TypeOK'
    OBVIOUS
  <2>1. ASSUME NEW level \in BufferLevels, NEW throughput \in Throughputs,
               Select(level, throughput)
        PROVE  TypeOK'
    <3> DEFINE asked == Choice(rule, level, throughput, current)
    <3>1. asked \in Indexes
      BY ChoiceType DEF TypeOK
    <3>2. /\ current' \in Indexes
          /\ candidate' \in Indexes \cup {None}
          /\ holdCount' \in 0..(Stable - 1)
      <4>1. CASE ~wrapped
        BY <4>1, <2>1, <3>1 DEF Select, TypeOK
      <4>2. CASE wrapped
        <5>1. Stabilise(level, asked)
          BY <4>2, <2>1 DEF Select
        <5> HIDE DEF asked
        <5> QED
          BY <3>1, <5>1, HysteresisAssumption DEF Stabilise, Hold, Settle, TypeOK
      <4> QED
        BY <4>1, <4>2 DEF TypeOK
    <3>3. state' \in ABRState /\ recent' \in [0..(Stable - 1) -> Decision \cup {None}]
      BY <2>1, MadeType DEF ABRState
    <3>4. rule' = rule /\ wrapped' = wrapped
      BY <2>1 DEF Select
    <3> QED
      BY <3>2, <3>3, <3>4 DEF TypeOK
  <2>2. CASE UNCHANGED vars
    BY <2>2 DEF vars, TypeOK
  <2> QED
    BY <2>1, <2>2 DEF Next
<1> QED
  BY <1>1, <1>2, PTL DEF Spec

-----------------------------------------------------------------------------
\* The decision that counts towards a switch from the current quality up to c.
Wish(c) == [asked |-> c, current |-> current, ready |-> TRUE]

\* The counter counts the latest decisions that wished for the candidate, all
\* of them: the one before did not.
HoldCounts ==
  wrapped =>
    /\ holdCount = 0 <=> candidate = None
    /\ holdCount > 0 => candidate > current
    /\ \A k \in 0..(Stable - 1) : k < holdCount => recent[k] = Wish(candidate)
    /\ \A c \in Indexes : c > current /\ recent[holdCount] = Wish(c) =>
                            holdCount > 0 /\ c # candidate

\* A wrapped decision switches up exactly when the last Stable decisions agreed
\* on it, for any rule inside, any ladder and any Stable.
LEMMA HoldStep ==
  ASSUME TypeOK, HoldCounts, wrapped, TypeOK',
         NEW level \in BufferLevels, NEW throughput \in Throughputs,
         Select(level, throughput)
  PROVE  HoldCounts' /\ HysteresisRule'
<1> DEFINE asked == Choice(rule, level, throughput, current)
           made  == Made(level, throughput)
<1>1. /\ asked \in Indexes /\ current \in Indexes /\ Top \in Nat
      /\ candidate \in Indexes \cup {None} /\ None \notin Indexes
      /\ holdCount \in 0..(Stable - 1) /\ Stable \in Nat \ {0}
  BY ChoiceType, NoneAssumption, HysteresisAssumption, LadderAssumption DEF TypeOK
<1>2. /\ recent'[0] = made
      /\ \A k \in 1..(Stable - 1) : recent'[k] = recent[k-1]
      /\ made \in Decision /\ made # None
  BY MadeType, NoneAssumption
<1>3. /\ made.asked = asked /\ made.current = current
      /\ made.ready = UpAllowed(level, asked, current)
      /\ made.ready \in BOOLEAN
  BY DEF Made, UpAllowed
<1>4. made = [asked |-> asked, current |-> current, ready |-> made.ready]
  BY DEF Made
<1>5. Stabilise(level, asked) /\ wrapped'
  BY DEF Select
<1> HIDE DEF made, asked
<1>6. CASE asked <= current \/ ~made.ready
  <2>1. /\ current' = IF asked <= current THEN asked ELSE current
        /\ candidate' = None /\ holdCount' = 0
    BY <1>1, <1>3, <1>5, <1>6 DEF Stabilise, Settle, Indexes
  <2>2. HysteresisRule'
    BY <1>1, <1>2, <1>3, <1>6, <2>1 DEF HysteresisRule, Indexes
  <2>3. \A c \in Indexes : c > current' => recent'[0] # Wish(c)'
    BY <1>1, <1>2, <1>3, <1>6, <2>1 DEF Wish, Indexes
  <2> QED
    BY <1>1, <2>1, <2>2, <2>3 DEF HoldCounts, Indexes
<1>7. CASE asked > current /\ made.ready
  <2>1. Hold(asked) /\ made = Wish(asked)
    BY <1>1, <1>3, <1>4, <1>5, <1>7 DEF Stabilise, Wish, Indexes
  <2>2. /\ holdCount = 0 <=> candidate = None
        /\ holdCount > 0 => candidate > current
        /\ \A k \in 0..(Stable - 1) : k < holdCount => recent[k] = Wish(candidate)
        /\ \A c \in Indexes : c > current /\ recent[holdCount] = Wish(c) =>
                                holdCount > 0 /\ c # candidate
    BY DEF HoldCounts
  <2>3. \A c, d \in Indexes : Wish(c) = Wish(d) => c = d
    BY DEF Wish
  <2> DEFINE count == IF asked = candidate THEN holdCount + 1 ELSE 1
  <2>4. /\ count \in 1..Stable
        /\ \A k \in 0..(Stable - 1) : k < count => recent'[k] = Wish(asked)
    <3>1. CASE asked = candidate
      <4>1. \A k \in 1..(Stable - 1) : k < count => recent'[k] = Wish(asked)
        BY <3>1, <1>1, <1>2, <2>2
      <4> QED
        BY <3>1, <4>1, <1>1, <1>2, <2>1
    <3>2. CASE asked # candidate
      BY <3>2, <1>1, <1>2, <2>1
    <3> QED
      BY <3>1, <3>2
  <2>5. count < Stable =>
          \A c \in Indexes : c > current /\ recent'[count] = Wish(c) => c # asked
    <3> SUFFICES ASSUME count < Stable, NEW c \in Indexes, c > current,
                        recent'[count] = Wish(c)
                 PROVE  c # asked
      OBVIOUS
    <3>1. CASE asked = candidate
      <4>1. recent'[count] = recent[holdCount]
        BY <3>1, <1>1, <1>2, <2>4
      <4> QED
        BY <3>1, <4>1, <2>2
    <3>2. CASE asked # candidate
      <4>1. recent[0] = Wish(c)
        BY <3>2, <1>1, <1>2, <2>4
      <4>2. CASE holdCount = 0
        BY <4>1, <4>2, <2>2
      <4>3. CASE holdCount > 0
        <5>1. recent[0] = Wish(candidate) /\ candidate \in Indexes
          BY <4>3, <1>1, <2>2
        <5> QED
          BY <4>1, <5>1, <3>2, <2>3
      <4> QED
        BY <4>2, <4>3, <1>1
    <3> QED
      BY <3>1, <3>2
  <2> HIDE DEF count
  <2>6. CASE count >= Stable
    <3>1. current' = asked /\ candidate' = None /\ holdCount' = 0
      BY <2>1, <2>6 DEF Hold, Settle, count
    <3>2. \A k \in 0..(Stable - 1) : recent'[k] = made
      BY <2>1, <2>4, <2>6, <1>1
    <3>3. HysteresisRule'
      BY <1>2, <1>3, <1>7, <3>1, <3>2 DEF HysteresisRule
    <3>4. \A c \in Indexes : c > current' => recent'[0] # Wish(c)'
      BY <1>1, <1>2, <1>3, <3>1 DEF Wish, Indexes
    <3> QED
      BY <1>1, <3>1, <3>3, <3>4 DEF HoldCounts, Indexes
  <2>7. CASE count < Stable
    <3>1. current' = current /\ candidate' = asked /\ holdCount' = count
      BY <2>1, <2>7, <2>4, <1>1 DEF Hold, Settle, count
    <3>2. count \in 0..(Stable - 1) /\ recent'[count] # made
      BY <2>1, <2>4, <2>5, <2>7, <1>1, <1>7
    <3>3. HysteresisRule'
      <4>1. ~(asked <= current)
        BY <1>1, <1>7 DEF Indexes
      <4> QED
        BY <1>2, <1>3, <3>1, <3>2, <4>1 DEF HysteresisRule
    <3>4. \A c : Wish(c)' = Wish(c)
      BY <3>1 DEF Wish
    <3>5. HoldCounts'
      BY <1>1, <1>7, <2>4, <2>5, <2>7, <3>1, <3>2, <3>4 DEF HoldCounts
    <3> QED
      BY <3>3, <3>5
  <2> QED
    BY <2>4, <2>6, <2>7, <1>1
<1> QED
  BY <1>1, <1>3, <1>6, <1>7 DEF Indexes

\* The hysteresis controller does what its documentation says, for any rule
\* inside: the counter of the code and the history of decisions agree.
THEOREM HysteresisCorrect == Spec => []HysteresisRule
<1>1. Init => HoldCounts /\ HysteresisRule
  <2> SUFFICES ASSUME Init PROVE HoldCounts /\ HysteresisRule
    OBVIOUS
  <2>1. recent[0] = None /\ holdCount = 0 /\ candidate = None /\ current = 0
    BY HysteresisAssumption DEF Init
  <2>2. \A c \in Indexes : Wish(c) \in Decision
    BY <2>1, LadderAssumption DEF Wish, Decision, Indexes
  <2>3. \A c \in Indexes : recent[0] # Wish(c)
    BY <2>1, <2>2, NoneAssumption
  <2> QED
    BY <2>1, <2>3, HysteresisAssumption DEF HoldCounts, HysteresisRule
<1>2. TypeOK /\ TypeOK' /\ HoldCounts /\ HysteresisRule /\ [Next]_vars
        => HoldCounts' /\ HysteresisRule'
  <2> SUFFICES ASSUME TypeOK, TypeOK', HoldCounts, HysteresisRule, [Next]_vars
               PROVE  HoldCounts' /\ HysteresisRule'
    OBVIOUS
  <2>1. ASSUME NEW level \in BufferLevels, NEW throughput \in Throughputs,
               Select(level, throughput)
        PROVE  HoldCounts' /\ HysteresisRule'
    <3>1. CASE wrapped
      BY <2>1, <3>1, HoldStep
    <3>2. CASE ~wrapped
      BY <2>1, <3>2 DEF Select, HoldCounts, HysteresisRule
    <3> QED
      BY <3>1, <3>2
  <2>2. CASE UNCHANGED vars
    BY <2>2 DEF vars, HoldCounts, HysteresisRule, Wish
  <2> QED
    BY <2>1, <2>2 DEF Next
<1> QED
  BY <1>1, <1>2, TypeCorrect, PTL DEF Spec

-----------------------------------------------------------------------------
\* The last decision asked for what the rule chooses in the state it was given.
AskedChoice ==
  recent[0] # None =>
    /\ state \in ABRState
    /\ recent[0].current \in Indexes
    /\ recent[0].asked = Choice(rule, state.level, state.throughput,
                                recent[0].current)

LEMMA AskedCorrect == Spec => []AskedChoice
<1>1. Init => AskedChoice
  BY HysteresisAssumption DEF Init, AskedChoice
<1>2. TypeOK /\ AskedChoice /\ [Next]_vars => AskedChoice'
  <2> SUFFICES ASSUME TypeOK, AskedChoice, [Next]_vars PROVE AskedChoice'
    OBVIOUS
  <2>1. ASSUME NEW level \in BufferLevels, NEW throughput \in Throughputs,
               Select(level, throughput)
        PROVE  AskedChoice'
    <3>1. /\ recent'[0] = Made(level, throughput)
          /\ state' = [level |-> level, throughput |-> throughput]
          /\ Made(level, throughput) \in Decision
          /\ rule' = rule
      BY <2>1, MadeType DEF Select
    <3>2. /\ recent'[0].current = current
          /\ recent'[0].asked = Choice(rule, level, throughput, current)
      BY <3>1 DEF Made
    <3>3. /\ state' \in ABRState
          /\ state'.level = level /\ state'.throughput = throughput
      BY <3>1 DEF ABRState
    <3> QED
      BY <3>1, <3>2, <3>3 DEF AskedChoice, TypeOK, Choice
  <2>2. CASE UNCHANGED vars
    BY <2>2 DEF vars, AskedChoice, Choice
  <2> QED
    BY <2>1, <2>2 DEF Next
<1> QED
  BY <1>1, <1>2, TypeCorrect, PTL DEF Spec

\* Rate-based selection takes the highest quality within the safe throughput,
\* for any ladder, safety margin and estimate.
THEOREM RateCorrect == Spec => []RateFits
<1>1. AskedChoice => RateFits
  <2> SUFFICES ASSUME AskedChoice, rule = "rate", recent[0] # None, NEW i \in Indexes
               PROVE  /\ i = recent[0].asked /\ i > 0 => i \in Fitting(state.throughput)
                      /\ i > recent[0].asked => i \notin Fitting(state.throughput)
    BY DEF RateFits
  <2>1. state.throughput \in Nat
    BY LadderAssumption DEF AskedChoice, ABRState
  <2> DEFINE S == Fitting(state.throughput)
  <2>2. recent[0].asked = LastWhile(S)
    BY DEF AskedChoice, Choice, RateBased
  <2>3. /\ S \in SUBSET Indexes
        /\ \A k, j \in Indexes : k < j /\ j \in S => k \in S
    BY <2>1, FittingType
  <2> HIDE DEF S
  <2>4. PICK out \in 0..(Top + 1) :
          /\ out \notin S
          /\ \A j \in 0..(Top + 1) : j < out => j \in S
          /\ LastWhile(S) = IF out = 0 THEN 0 ELSE out - 1
    BY <2>3, LastWhileProperties
  <2>5. i \in Nat /\ i <= Top /\ Top \in Nat
    BY LadderAssumption DEF Indexes
  <2>6. ASSUME i = recent[0].asked, i > 0 PROVE i \in S
    BY <2>2, <2>4, <2>5, <2>6
  <2>7. ASSUME i > recent[0].asked PROVE i \notin S
    <3>1. out <= i
      BY <2>2, <2>4, <2>5, <2>7
    <3>2. out \in Indexes
      BY <3>1, <2>4, <2>5 DEF Indexes
    <3> QED
      BY <3>1, <3>2, <2>3, <2>4, <2>5
  <2> QED
    BY <2>6, <2>7 DEF S
<1> QED
  BY <1>1, AskedCorrect, PTL

\* With the buffer rules, a decision at a higher buffer level never asks for a
\* lower quality, for any ladder and any thresholds.
THEOREM BufferRulesMonotone == Spec => MonotoneInBuffer
<1>1. AskedChoice /\ AskedChoice' /\ TypeOK /\ [Next]_vars => [MoreBufferNoLower]_vars
  <2> SUFFICES ASSUME AskedChoice, AskedChoice', TypeOK, [Next]_vars,
                      rule \in {"buffer", "bola"}, recent[0] # None,
                      state.level <= state'.level, ~ UNCHANGED vars
               PROVE  recent[0].asked <= recent'[0].asked
    BY DEF MoreBufferNoLower
  <2>1. PICK level \in BufferLevels, throughput \in Throughputs :
          Select(level, throughput)
    BY DEF Next
  <2>2. rule' = rule /\ recent'[0] # None
    BY <2>1, MadeType, NoneAssumption DEF Select
  <2>3. state.level \in Nat /\ state'.level \in Nat
    BY <2>2, LadderAssumption DEF AskedChoice, ABRState
  <2>4. CASE rule = "buffer"
    <3>1. /\ recent[0].asked = BufferBased(state.level)
          /\ recent'[0].asked = BufferBased(state'.level)
      BY <2>2, <2>4 DEF AskedChoice, Choice
    <3> QED
      BY <3>1, <2>3, BufferBasedProperties
  <2>5. CASE rule = "bola"
    <3>1. /\ recent[0].asked = Bola(state.level)
          /\ recent'[0].asked = Bola(state'.level)
      BY <2>2, <2>5 DEF AskedChoice, Choice
    <3> QED
      BY <3>1, <2>3, BolaProperties
  <2> QED
    BY <2>4, <2>5
<1> QED
  BY <1>1, AskedCorrect, TypeCorrect, PTL DEF Spec, MonotoneInBuffer
=============================================================================
