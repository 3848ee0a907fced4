---------------------- MODULE DetSDWAdjustment_proofs ----------------------
(***************************************************************************)
(* Proofs about the adaptation of step sizes: the running average is that  *)
(* of its window, a step size is changed only by its own samples, and the  *)
(* bisections remember what was judged.                                    *)
(***************************************************************************)
EXTENDS DetSDWAdjustment, IntervalArithmetic, FiniteSetTheorems, SequenceTheorems

USE DEF Moves

-----------------------------------------------------------------------------
(* The window of a running average *)

Steps      == Int \cup [grown : Nat, shrunk : Nat]
Samples    == [ratio : {0, 1}, steps : UNION {[moves -> Steps] : moves \in SUBSET Moves}]
Accepted(s) == {i \in 1..Len(s) : s[i].ratio = 1}

RunningAverages == [samplesAdded : Nat, values : Seq(Samples), sum : Int]

LEMMA AcceptedFinite ==
  ASSUME NEW s \in Seq(Samples)
  PROVE  IsFiniteSet(Accepted(s)) /\ Cardinality(Accepted(s)) \in Nat
<1>1. IsFiniteSet(1..Len(s))
  BY FS_Interval
<1>2. Accepted(s) \subseteq 1..Len(s)
  BY DEF Accepted
<1> QED
  BY <1>1, <1>2, FS_Subset, FS_CardinalityType

LEMMA AcceptedAppended ==
  ASSUME NEW s \in Seq(Samples), NEW v \in Samples
  PROVE  Cardinality(Accepted(Append(s, v))) = Cardinality(Accepted(s)) + v.ratio
<1> DEFINE t == Append(s, v)
           n == Len(s) + 1
<1>1. /\ Len(t) = n /\ t[n] = v /\ n \in Nat
      /\ \A i \in 1..Len(s) : t[i] = s[i]
  BY AppendProperties
<1> HIDE DEF t
<1>2. CASE v.ratio = 1
  <2>1. Accepted(t) = Accepted(s) \cup {n} /\ n \notin Accepted(s)
    BY <1>1, <1>2 DEF Accepted
  <2> QED
    BY <1>2, <2>1, AcceptedFinite, FS_AddElement DEF t
<1>3. CASE v.ratio = 0
  <2>1. Accepted(t) = Accepted(s)
    BY <1>1, <1>3 DEF Accepted
  <2> QED
    BY <1>3, <2>1, AcceptedFinite DEF t
<1> QED
  BY <1>2, <1>3 DEF Samples

LEMMA AcceptedTail ==
  ASSUME NEW s \in Seq(Samples), s # <<>>
  PROVE  Cardinality(Accepted(Tail(s))) = Cardinality(Accepted(s)) - Head(s).ratio
<1> DEFINE t == Tail(s)
<1>1. /\ t \in Seq(Samples) /\ Len(t) = Len(s) - 1 /\ Len(s) \in Nat \ {0}
      /\ \A i \in 1..Len(t) : t[i] = s[i + 1]
      /\ Head(s) = s[1] /\ Head(s) \in Samples
  BY HeadTailProperties
<1> HIDE DEF t
<1>2. Cardinality(Accepted(t)) = Cardinality(Accepted(s) \ {1})
  <2> DEFINE later == [i \in Accepted(t) |-> i + 1]
  <2>1. later \in [Accepted(t) -> Accepted(s) \ {1}]
    BY <1>1 DEF Accepted
  <2>2. \A i, j \in Accepted(t) : later[i] = later[j] => i = j
    BY DEF Accepted
  <2>3. ASSUME NEW j \in Accepted(s) \ {1} PROVE \E i \in Accepted(t) : later[i] = j
    <3>1. j \in Nat /\ j - 1 \in 1..Len(t) /\ t[j - 1] = s[j]
      BY <1>1 DEF Accepted
    <3>2. j - 1 \in Accepted(t)
      BY <3>1 DEF Accepted
    <3> QED
      BY <3>1, <3>2
  <2>4. later \in Bijection(Accepted(t), Accepted(s) \ {1})
    BY <2>1, <2>2, <2>3 DEF Bijection, Injection, Surjection, IsInjective
  <2>5. ExistsBijection(Accepted(t), Accepted(s) \ {1})
    BY <2>4 DEF ExistsBijection
  <2> QED
    BY <1>1, <2>5, AcceptedFinite, FS_Bijection
<1>3. CASE Head(s).ratio = 1
  <2>1. 1 \in Accepted(s)
    BY <1>1, <1>3 DEF Accepted
  <2> QED
    BY <1>2, <1>3, <2>1, AcceptedFinite, FS_RemoveElement DEF t
<1>4. CASE Head(s).ratio = 0
  <2>1. Accepted(s) \ {1} = Accepted(s)
    BY <1>1, <1>4 DEF Accepted
  <2>2. Cardinality(Accepted(t)) = Cardinality(Accepted(s))
    BY <1>2, <2>1, Zenon
  <2>3. Cardinality(Accepted(s)) \in Int
    BY AcceptedFinite
  <2> QED
    BY <1>4, <2>2, <2>3 DEF t
<1> QED
  BY <1>1, <1>3, <1>4 DEF Samples

(* What is said of each running average.                                   *)
IsAverage(ra) ==
  /\ ra \in RunningAverages
  /\ Len(ra.values) = IF ra.samplesAdded < AccRatioAdjustmentSamples
                        THEN ra.samplesAdded ELSE AccRatioAdjustmentSamples
  /\ ra.sum = Cardinality(Accepted(ra.values))

(* addValue keeps it so, the new value is the last one in the window, and  *)
(* the values before it are the last ones of the old window.               *)
LEMMA ValueAdded ==
  ASSUME NEW ra, IsAverage(ra), NEW v \in Samples
  PROVE  /\ IsAverage(AddValue(ra, v))
         /\ AddValue(ra, v).samplesAdded = ra.samplesAdded + 1
         /\ AddValue(ra, v).values[Len(AddValue(ra, v).values)] = v
         /\ \A back \in 1..(Len(AddValue(ra, v).values) - 1) :
              /\ back <= Len(ra.values)
              /\ AddValue(ra, v).values[Len(AddValue(ra, v).values) - back] =
                   ra.values[Len(ra.values) - back + 1]
<1> DEFINE new  == AddValue(ra, v)
           N    == AccRatioAdjustmentSamples
           full == ra.samplesAdded >= N
           rest == IF full THEN Tail(ra.values) ELSE ra.values
<1>n. N \in Nat \ {0}
  BY ParametersAssumption
<1>1. /\ ra.samplesAdded \in Nat /\ ra.values \in Seq(Samples) /\ ra.sum \in Int
      /\ Len(ra.values) = IF full THEN N ELSE ra.samplesAdded
      /\ ra.sum = Cardinality(Accepted(ra.values))
  BY <1>n DEF IsAverage, RunningAverages
<1>2. /\ new.samplesAdded = ra.samplesAdded + 1 /\ new.values = Append(rest, v)
      /\ new.sum = ra.sum + v.ratio - (IF full THEN Head(ra.values).ratio ELSE 0)
      /\ new = [samplesAdded |-> new.samplesAdded, values |-> new.values, sum |-> new.sum]
  BY DEF AddValue
<1>3. full => /\ ra.values # <<>> /\ Tail(ra.values) \in Seq(Samples)
              /\ Len(Tail(ra.values)) = N - 1
              /\ \A i \in 1..(N - 1) : Tail(ra.values)[i] = ra.values[i + 1]
              /\ Head(ra.values) \in Samples
  BY <1>n, <1>1, HeadTailProperties
<1>4. rest \in Seq(Samples) /\ Len(rest) = IF full THEN N - 1 ELSE ra.samplesAdded
  BY <1>1, <1>3
<1>5. Cardinality(Accepted(rest)) = ra.sum - (IF full THEN Head(ra.values).ratio ELSE 0)
  <2>1. CASE full
    BY <1>1, <1>3, <2>1, AcceptedTail
  <2>2. CASE ~full
    BY <1>1, <2>2
  <2> QED
    BY <2>1, <2>2
<1>6. /\ new.values \in Seq(Samples) /\ Len(new.values) = Len(rest) + 1
      /\ new.values[Len(rest) + 1] = v
      /\ \A i \in 1..Len(rest) : new.values[i] = rest[i]
  BY <1>2, <1>4, AppendProperties
<1>7. Cardinality(Accepted(new.values)) = Cardinality(Accepted(rest)) + v.ratio
  BY <1>2, <1>4, AcceptedAppended
<1>8. new.sum = Cardinality(Accepted(new.values)) /\ new.sum \in Int
  <2>1. v.ratio \in Int /\ (full => Head(ra.values).ratio \in Int)
    BY <1>3 DEF Samples
  <2> HIDE DEF new, rest, full
  <2> QED
    BY <1>1, <1>2, <1>5, <1>7, <2>1
<1>9. Len(new.values) = IF new.samplesAdded < N THEN new.samplesAdded ELSE N
  BY <1>n, <1>1, <1>2, <1>4, <1>6
<1>10. IsAverage(new)
  <2> HIDE DEF new, rest, full
  <2>1. new \in RunningAverages
    <3>1. new.samplesAdded \in Nat
      BY <1>1, <1>2
    <3> QED
      BY <1>2, <1>6, <1>8, <3>1 DEF RunningAverages
  <2> QED
    BY <1>8, <1>9, <2>1 DEF IsAverage
<1>11. ASSUME NEW back \in 1..(Len(new.values) - 1)
       PROVE  /\ back <= Len(ra.values)
              /\ new.values[Len(new.values) - back] = ra.values[Len(ra.values) - back + 1]
  <2> DEFINE i == Len(rest) + 1 - back
  <2>1. i \in 1..Len(rest) /\ Len(new.values) - back = i
    BY <1>4, <1>6
  <2>2. new.values[i] = rest[i]
    BY <1>6, <2>1
  <2>3. CASE full
    <3>1. rest[i] = ra.values[i + 1] /\ i + 1 = Len(ra.values) - back + 1
      BY <1>n, <1>1, <1>3, <1>4, <2>1, <2>3
    <3> QED
      BY SMTT(30), <1>1, <1>n, <1>4, <2>1, <2>2, <2>3, <3>1
  <2>4. CASE ~full
    BY SMTT(30), <1>1, <1>4, <2>1, <2>2, <2>4
  <2> QED
    BY <2>3, <2>4
<1> HIDE DEF rest, full
<1> QED
  BY <1>2, <1>6, <1>10, <1>11

-----------------------------------------------------------------------------
(* The inductive invariant *)

Brackets == [value : Int, curmin : Int, curmax : Int]

Ranges ==
  /\ spinProposalMethod \in Methods
  /\ performedSweeps \in 0..MaxSweeps /\ timeslice \in 0..m
  /\ performedSweeps = MaxSweeps => timeslice = 0
  /\ phiDelta \in [grown : Nat, shrunk : Nat]
  /\ angleDelta \in Brackets /\ scaleDelta \in Brackets
  /\ \A move \in Moves : IsAverage(accRatioLocal_RA[move])
  /\ accRatioLocal_RA \in [Moves -> RunningAverages]
  /\ tooLow \in [Moves -> SUBSET Steps] /\ tooHigh \in [Moves -> SUBSET Steps]

Added(move) == accRatioLocal_RA[move].samplesAdded

(* The moves whose step sizes are adapted, and those that are proposed in  *)
(* the sweeps in which the step size of a move is.                         *)
Adapted == IF spinProposalMethod = "BOX" THEN {"box"} ELSE {"rotate", "scale"}
ProposedWith(move) ==
  CASE spinProposalMethod = "BOX" -> {"box"}
    [] spinProposalMethod = "ROTATE_THEN_SCALE" -> {move}
    [] spinProposalMethod = "ROTATE_AND_SCALE" -> {"rotate", "scale"}
InForce(move) == [other \in ProposedWith(move) |-> StepSize(other)]

(* Each slice gives one sample.                                            *)
OneSampleASlice ==
  Added("box") + Added("rotate") + Added("scale") = performedSweeps * m + timeslice

(* The samples since the step size of a move was last considered were      *)
(* taken with the step sizes in force.                                     *)
SampledInForce ==
  \A move \in Moves :
    LET ra == accRatioLocal_RA[move]
    IN  \A back \in 0..((ra.samplesAdded % AccRatioAdjustmentSamples) - 1) :
          ra.values[Len(ra.values) - back].steps = InForce(move)

(* Turns of ROTATE_AND_SCALE begin and end with whole windows.             *)
Whole(n) == \E k \in Int : n = AccRatioAdjustmentSamples * k
IntoTheTurn == (performedSweeps % AccRatioAdjustmentSamples) * m + timeslice
TurnsOfWholeWindows ==
  /\ \A move \in Moves \ Adapted : Added(move) = 0
  /\ spinProposalMethod = "ROTATE_AND_SCALE" =>
       /\ \A move \in {"rotate", "scale"} \ {AdaptingWhat} : Whole(Added(move))
       /\ Whole(Added(AdaptingWhat) - IntoTheTurn)

(* The bracket of the angle was halved no more often than its windows were *)
(* full, and the angle is its middle; so with the rest of the scale.       *)
AngleBisected ==
  /\ \E halvings \in 0..MaxHalvings :
       /\ angleDelta.curmax - angleDelta.curmin = 20 * 2^(MaxHalvings - halvings)
       /\ AccRatioAdjustmentSamples * halvings <= Added("rotate")
  /\ 2 * angleDelta.value = angleDelta.curmin + angleDelta.curmax
  /\ MinAngleDelta <= angleDelta.curmin /\ angleDelta.curmax <= MaxAngleDelta
  /\ \A angle \in tooLow["rotate"] : angle \in Int /\ angle <= angleDelta.curmin
  /\ \A angle \in tooHigh["rotate"] : angle \in Int /\ angle >= angleDelta.curmax
ScaleRaised ==
  /\ \E halvings \in 0..MaxHalvings :
       /\ MaxScaleDelta - scaleDelta.value = 9 * 2^(MaxHalvings - halvings)
       /\ AccRatioAdjustmentSamples * halvings <= Added("scale")
  /\ scaleDelta.curmax = MaxScaleDelta
  /\ MinScaleDelta <= scaleDelta.curmin /\ scaleDelta.curmin <= scaleDelta.value
  /\ adaptScaleVariance =>
       \A scale \in tooHigh["scale"] : scale \in Int /\ scale <= scaleDelta.curmin /\ scale < scaleDelta.value

IInv ==
  /\ Ranges /\ OneSampleASlice /\ SampledInForce /\ TurnsOfWholeWindows
  /\ AngleBisected /\ ScaleRaised

LEMMA InitIInv == Init => IInv
<1> SUFFICES ASSUME Init PROVE IInv
  OBVIOUS
<1> USE DEF Init
<1>c. /\ m \in Nat \ {0} /\ AccRatioAdjustmentSamples \in Nat \ {0} /\ MaxSweeps \in Nat
      /\ MaxHalvings \in Nat /\ 2^MaxHalvings \in Nat \ {0}
  BY ParametersAssumption, PowersOfTwo
<1>u. /\ Unit \in Nat \ {0} /\ Unit = 10 * 2^MaxHalvings /\ Unit \div 10 = 2^MaxHalvings
  BY <1>c DEF Unit
<1>a. \A move \in Moves : accRatioLocal_RA[move] = [samplesAdded |-> 0, values |-> <<>>, sum |-> 0]
  OBVIOUS
<1>b. IsAverage([samplesAdded |-> 0, values |-> <<>>, sum |-> 0])
  <2>1. Accepted(<<>>) = {} /\ Cardinality({}) = 0 /\ <<>> \in Seq(Samples) /\ Len(<<>>) = 0
    BY FS_EmptySet DEF Accepted
  <2>2. 0 \in Nat /\ 0 \in Int /\ 0 < AccRatioAdjustmentSamples
    BY <1>c
  <2>3. [samplesAdded |-> 0, values |-> <<>>, sum |-> 0] \in RunningAverages
    BY <2>1, <2>2 DEF RunningAverages
  <2> QED
    BY <2>1, <2>2, <2>3 DEF IsAverage
<1>1. Ranges
  <2>1. angleDelta \in Brackets /\ scaleDelta \in Brackets
    BY <1>c, <1>u DEF InitialAngleDelta, InitialScaleDelta, Brackets, MinAngleDelta, MaxAngleDelta,
                      MinScaleDelta, MaxScaleDelta
  <2>2. \A move \in Moves : IsAverage(accRatioLocal_RA[move])
    BY <1>a, <1>b
  <2>3. accRatioLocal_RA \in [Moves -> RunningAverages]
    <3>1. [samplesAdded |-> 0, values |-> <<>>, sum |-> 0] \in RunningAverages
      BY <1>b DEF IsAverage
    <3> QED
      BY <3>1
  <2> QED
    BY <1>c, <2>1, <2>2, <2>3 DEF Ranges
<1>2. \A move \in Moves : Added(move) = 0
  BY <1>a DEF Added
<1>3. OneSampleASlice
  BY <1>c, <1>2 DEF OneSampleASlice
<1>z. 0 % AccRatioAdjustmentSamples = 0
  BY <1>c
<1>4. SampledInForce
  BY <1>a, <1>z DEF SampledInForce
<1>5. TurnsOfWholeWindows
  <2>1. Whole(0)
    <3>1. 0 = AccRatioAdjustmentSamples * 0
      BY <1>c
    <3> QED
      BY <3>1 DEF Whole
  <2>2. IntoTheTurn = 0
    BY <1>c, <1>z DEF IntoTheTurn
  <2>3. AdaptingWhat \in Moves
    BY DEF AdaptingWhat, Methods
  <2> QED
    BY <1>2, <2>1, <2>2, <2>3 DEF TurnsOfWholeWindows
<1>6. AngleBisected
  <2>1. /\ angleDelta.curmax - angleDelta.curmin = 20 * 2^(MaxHalvings - 0)
        /\ AccRatioAdjustmentSamples * 0 <= Added("rotate") /\ 0 \in 0..MaxHalvings
    BY <1>c, <1>u, <1>2 DEF InitialAngleDelta, MinAngleDelta, MaxAngleDelta
  <2> QED
    BY <1>u, <2>1 DEF AngleBisected, InitialAngleDelta, MinAngleDelta, MaxAngleDelta
<1>7. ScaleRaised
  <2>1. /\ MaxScaleDelta - scaleDelta.value = 9 * 2^(MaxHalvings - 0)
        /\ AccRatioAdjustmentSamples * 0 <= Added("scale") /\ 0 \in 0..MaxHalvings
    BY <1>c, <1>u, <1>2 DEF InitialScaleDelta, MinScaleDelta, MaxScaleDelta
  <2> QED
    BY <1>c, <1>u, <2>1 DEF ScaleRaised, InitialScaleDelta, MinScaleDelta, MaxScaleDelta
<1> QED
  BY <1>1, <1>3, <1>4, <1>5, <1>6, <1>7 DEF IInv

-----------------------------------------------------------------------------
(* One slice *)

LEMMA WhoseTurn ==
  ASSUME Ranges
  PROVE  /\ AdaptingWhat \in Adapted /\ Adapted \subseteq Moves
         /\ ProposedMoves = ProposedWith(AdaptingWhat)
         /\ \A move \in Moves : StepSize(move) \in Steps
<1>1. AdaptingWhat \in Adapted /\ Adapted \subseteq Moves
  BY DEF Ranges, Methods, AdaptingWhat, Adapted
<1>2. ProposedMoves = ProposedWith(AdaptingWhat)
  BY DEF Ranges, Methods, AdaptingWhat, ProposedMoves, ProposedWith
<1>3. \A move \in Moves : StepSize(move) \in Steps
  BY DEF Ranges, StepSize, Steps, Brackets
<1> QED
  BY <1>1, <1>2, <1>3

LEMMA Sampled ==
  ASSUME Ranges, NEW ratio \in {0, 1}
  PROVE  /\ Sample(ratio) \in Samples
         /\ Sample(ratio).steps = InForce(AdaptingWhat)
<1>1. ProposedMoves \in SUBSET Moves
  BY DEF Ranges, Methods, ProposedMoves
<1>2. [move \in ProposedMoves |-> StepSize(move)] \in [ProposedMoves -> Steps]
  BY <1>1, WhoseTurn
<1>3. [move \in ProposedMoves |-> StepSize(move)] \in UNION {[moves -> Steps] : moves \in SUBSET Moves}
  BY <1>1, <1>2, Zenon
<1>4. Sample(ratio) \in Samples
  BY <1>3 DEF Sample, Samples
<1>5. Sample(ratio).steps = InForce(AdaptingWhat)
  BY WhoseTurn DEF Sample, InForce
<1> QED
  BY <1>4, <1>5

(* The running average of the move that is adapted takes the sample in,    *)
(* and all samples since its step size was last considered are in force.   *)
LEMMA SampleTaken ==
  ASSUME IInv, NEW ratio \in {0, 1}, UpdateInSliceThermalization(ratio)
  PROVE  LET move == AdaptingWhat
             old  == accRatioLocal_RA[move]
             new  == AddValue(old, Sample(ratio))
             N    == AccRatioAdjustmentSamples
         IN  /\ move \in Adapted /\ move \in Moves
             /\ accRatioLocal_RA' = [accRatioLocal_RA EXCEPT ![move] = new]
             /\ IsAverage(new) /\ new.samplesAdded = Added(move) + 1 /\ Added(move) \in Nat
             /\ ~Due(new) => new.samplesAdded % N = (Added(move) % N) + 1
             /\ Due(new) => Added(move) % N = N - 1
             /\ \A back \in 0..(Added(move) % N) :
                  new.values[Len(new.values) - back].steps = InForce(move)
<1> DEFINE move == AdaptingWhat
           old  == accRatioLocal_RA[move]
           new  == AddValue(old, Sample(ratio))
           N    == AccRatioAdjustmentSamples
<1>n. N \in Nat \ {0} /\ Ranges
  BY ParametersAssumption DEF IInv
<1>1. move \in Adapted /\ move \in Moves
  BY <1>n, WhoseTurn
<1>2. accRatioLocal_RA' = [accRatioLocal_RA EXCEPT ![move] = new]
  BY DEF UpdateInSliceThermalization
<1>3. IsAverage(old) /\ old.samplesAdded = Added(move) /\ Added(move) \in Nat
  BY <1>n, <1>1 DEF Ranges, Added, RunningAverages
<1>4. Sample(ratio) \in Samples /\ Sample(ratio).steps = InForce(move)
  BY <1>n, Sampled
<1> HIDE DEF move, new
<1>5. /\ IsAverage(new) /\ new.samplesAdded = Added(move) + 1
      /\ new.values[Len(new.values)] = Sample(ratio)
      /\ \A back \in 1..(Len(new.values) - 1) :
           new.values[Len(new.values) - back] = old.values[Len(old.values) - back + 1]
  BY <1>3, <1>4, ValueAdded DEF new
<1>6. /\ Added(move) % N = N - 1 => (Added(move) + 1) % N = 0
      /\ Added(move) % N # N - 1 => (Added(move) + 1) % N = (Added(move) % N) + 1
      /\ Added(move) % N \in 0..(N - 1)
  <2>1. Added(move) % N \in 0..(N - 1)
    BY SMTT(30), <1>n, <1>3, Division
  <2>2. /\ Added(move) % N = N - 1 => (Added(move) + 1) % N = 0
        /\ Added(move) % N # N - 1 => (Added(move) + 1) % N = (Added(move) % N) + 1
    BY <1>n, <1>3, OneMore
  <2> QED
    BY <2>1, <2>2
<1>7. /\ ~Due(new) => new.samplesAdded % N = (Added(move) % N) + 1
      /\ Due(new) => Added(move) % N = N - 1
  BY <1>n, <1>5, <1>6 DEF Due
<1>8. \A back \in 0..((Added(move) % N) - 1) : old.values[Len(old.values) - back].steps = InForce(move)
  BY <1>1, <1>3 DEF IInv, SampledInForce
<1>l. Len(new.values) \in Nat /\ Added(move) % N <= Len(new.values) - 1 /\ Len(old.values) \in Nat
  <2>1. Len(new.values) = IF Added(move) + 1 < N THEN Added(move) + 1 ELSE N
    BY <1>5 DEF IsAverage
  <2>2. Added(move) % N <= Added(move)
    <3>1. CASE Added(move) < N
      BY <1>n, <1>3, <3>1
    <3>2. CASE Added(move) >= N
      BY <1>n, <1>3, <1>6, <3>2
    <3> QED
      BY <1>n, <1>3, <3>1, <3>2
  <2>3. Len(old.values) \in Nat
    BY <1>3 DEF IsAverage, RunningAverages
  <2> QED
    BY <1>n, <1>3, <1>6, <2>1, <2>2, <2>3
<1>9. ASSUME NEW back \in 0..(Added(move) % N)
      PROVE  new.values[Len(new.values) - back].steps = InForce(move)
  <2>1. CASE back = 0
    BY <1>4, <1>5, <1>l, <2>1
  <2>2. CASE back # 0
    <3>1. /\ back \in 1..(Len(new.values) - 1) /\ back - 1 \in 0..((Added(move) % N) - 1)
          /\ Len(old.values) - back + 1 = Len(old.values) - (back - 1)
      BY <1>6, <1>l, <2>2
    <3> QED
      BY <1>5, <1>8, <3>1
  <2> QED
    BY <2>1, <2>2
<1> QED
  BY <1>1, <1>2, <1>3, <1>5, <1>7, <1>9 DEF move, new

LEMMA WholeRemainder ==
  ASSUME NEW n \in Nat, Whole(n)
  PROVE  n % AccRatioAdjustmentSamples = 0
<1>1. PICK N \in Nat \ {0}, k \in Int : N = AccRatioAdjustmentSamples /\ n = N * k
  BY ParametersAssumption DEF Whole
<1>2. n \div N \in Int /\ n % N \in 0..(N - 1) /\ n = N * (n \div N) + (n % N)
  BY Division
<1>3. PICK q \in Int, r \in 0..(N - 1) : q = n \div N /\ r = n % N /\ n = N * q + r
  BY <1>2
<1>4. N * q + r = N * k + 0 /\ 0 \in 0..(N - 1)
  BY <1>1, <1>3
<1>5. r = 0
  BY <1>4, DivisionUnique
<1> QED
  BY <1>1, <1>3, <1>5

(* The step sizes of all other moves stay, that of the move itself unless  *)
(* its average is due.                                                     *)
LEMMA OthersStay ==
  ASSUME IInv, NEW ratio \in {0, 1}, UpdateInSliceThermalization(ratio)
  PROVE  LET new == AddValue(accRatioLocal_RA[AdaptingWhat], Sample(ratio))
         IN  /\ \A other \in Moves :
                  other # AdaptingWhat \/ ~Due(new) => StepSize(other)' = StepSize(other)
             /\ \A other \in Moves \ {AdaptingWhat} : Added(other)' = Added(other)
             /\ Added(AdaptingWhat)' = Added(AdaptingWhat) + 1
             /\ AdaptingWhat' = AdaptingWhat /\ Adapted' = Adapted
             /\ \A other : ProposedWith(other)' = ProposedWith(other)
<1> DEFINE new == AddValue(accRatioLocal_RA[AdaptingWhat], Sample(ratio))
<1>1. ASSUME NEW other \in Moves, other # AdaptingWhat \/ ~Due(new)
      PROVE  StepSize(other)' = StepSize(other)
  BY <1>1 DEF UpdateInSliceThermalization, StepSize
<1>2. /\ accRatioLocal_RA' = [accRatioLocal_RA EXCEPT ![AdaptingWhat] = new]
      /\ new.samplesAdded = Added(AdaptingWhat) + 1 /\ AdaptingWhat \in Moves
      /\ accRatioLocal_RA \in [Moves -> RunningAverages]
  BY SampleTaken DEF IInv, Ranges
<1>3. /\ \A other \in Moves \ {AdaptingWhat} : Added(other)' = Added(other)
      /\ Added(AdaptingWhat)' = Added(AdaptingWhat) + 1
  <2> HIDE DEF new
  <2>1. AdaptingWhat' = AdaptingWhat
    BY DEF UpdateInSliceThermalization, AdaptingWhat
  <2> QED
    BY <1>2, <2>1 DEF Added
<1>4. AdaptingWhat' = AdaptingWhat /\ Adapted' = Adapted
  BY DEF UpdateInSliceThermalization, AdaptingWhat, Adapted
<1>5. ASSUME NEW other PROVE ProposedWith(other)' = ProposedWith(other)
  BY DEF UpdateInSliceThermalization, ProposedWith
<1> QED
  BY <1>1, <1>3, <1>4, <1>5

LEMMA UpdateSampledInForce ==
  ASSUME IInv, NEW ratio \in {0, 1}, UpdateInSliceThermalization(ratio)
  PROVE  SampledInForce'
<1> DEFINE move == AdaptingWhat
           new  == AddValue(accRatioLocal_RA[move], Sample(ratio))
           N    == AccRatioAdjustmentSamples
<1>n. N \in Nat \ {0} /\ accRatioLocal_RA \in [Moves -> RunningAverages] /\ 0 % N = 0
  BY ParametersAssumption DEF IInv, Ranges
<1>1. /\ move \in Moves
      /\ accRatioLocal_RA' = [accRatioLocal_RA EXCEPT ![move] = new]
      /\ new.samplesAdded = Added(move) + 1 /\ Added(move) \in Nat
      /\ ~Due(new) => new.samplesAdded % N = (Added(move) % N) + 1
      /\ \A back \in 0..(Added(move) % N) : new.values[Len(new.values) - back].steps = InForce(move)
  BY SampleTaken
<1>2. /\ \A other \in Moves : other # move \/ ~Due(new) => StepSize(other)' = StepSize(other)
      /\ \A other : ProposedWith(other)' = ProposedWith(other)
  BY OthersStay
<1>3. \A other \in Moves \ Adapted : Added(other) = 0
  BY DEF IInv, TurnsOfWholeWindows
<1>w. \A other \in Moves : ProposedWith(other) \subseteq Moves
  BY DEF IInv, Ranges, Methods, ProposedWith
<1>d. \A other \in Moves : Added(other) \in Nat /\ Added(other) = accRatioLocal_RA[other].samplesAdded
  BY <1>n DEF Added, RunningAverages
<1>4. ASSUME NEW other \in Moves,
             NEW back \in 0..((accRatioLocal_RA'[other].samplesAdded % N) - 1)
      PROVE  accRatioLocal_RA'[other].values[Len(accRatioLocal_RA'[other].values) - back].steps
               = InForce(other)'
  <2>1. CASE other = move
    <3> HIDE DEF new, move
    <3>1. accRatioLocal_RA'[other] = new
      BY <1>n, <1>1, <2>1
    <3>2. ~Due(new) /\ back \in 0..(Added(move) % N)
      <4>1. ~Due(new)
        BY <1>4, <3>1 DEF Due
      <4>2. new.samplesAdded % N = (Added(move) % N) + 1 /\ Added(move) % N \in Int
        BY <1>n, <1>1, <4>1, Division
      <4> QED
        BY <1>4, <3>1, <4>1, <4>2
    <3>3. InForce(move)' = InForce(move)
      <4>1. ASSUME NEW x \in ProposedWith(move) PROVE StepSize(x)' = StepSize(x)
        BY <1>1, <1>2, <1>w, <3>2
      <4>2. move' = move
        BY OthersStay DEF move
      <4> QED
        BY <1>2, <4>1, <4>2 DEF InForce
    <3>4. move' = move
      BY OthersStay DEF move
    <3>5. InForce(other)' = InForce(move)
      BY <2>1, <3>3, <3>4 DEF InForce
    <3> QED
      BY <1>1, <3>1, <3>2, <3>5
  <2>2. CASE other # move
    <3>1. accRatioLocal_RA'[other] = accRatioLocal_RA[other]
      BY <1>n, <1>1, <2>2
    <3>2. Added(other) % N # 0
      BY <1>d, <1>4, <3>1
    <3>3. other \in Adapted /\ spinProposalMethod = "ROTATE_THEN_SCALE"
      <4>1. other \in Adapted
        BY <1>n, <1>3, <3>2
      <4>2. spinProposalMethod # "BOX"
        BY <2>2, <4>1 DEF Adapted, AdaptingWhat
      <4>3. ASSUME spinProposalMethod = "ROTATE_AND_SCALE" PROVE FALSE
        <5>1. Whole(Added(other))
          BY <2>2, <4>1, <4>2, <4>3 DEF Adapted, IInv, TurnsOfWholeWindows
        <5> QED
          BY <1>d, <3>2, <5>1, WholeRemainder
      <4> QED
        BY <4>1, <4>2, <4>3 DEF IInv, Ranges, Methods
    <3>4. InForce(other)' = InForce(other)
      <4>1. ProposedWith(other) = {other}
        BY <3>3 DEF ProposedWith
      <4> QED
        BY <1>2, <2>2, <4>1 DEF InForce
    <3>5. accRatioLocal_RA[other].values[Len(accRatioLocal_RA[other].values) - back].steps = InForce(other)
      BY <1>4, <3>1 DEF IInv, SampledInForce
    <3> QED
      BY <3>1, <3>4, <3>5
  <2> QED
    BY <2>1, <2>2
<1> QED
  BY <1>4 DEF SampledInForce

LEMMA UpdateTurns ==
  ASSUME IInv, NEW ratio \in {0, 1}, UpdateInSliceThermalization(ratio)
  PROVE  TurnsOfWholeWindows' /\ OneSampleASlice'
<1>1. /\ \A other \in Moves \ {AdaptingWhat} : Added(other)' = Added(other)
      /\ Added(AdaptingWhat)' = Added(AdaptingWhat) + 1
      /\ AdaptingWhat' = AdaptingWhat /\ Adapted' = Adapted
  BY OthersStay
<1>2. AdaptingWhat \in Adapted /\ AdaptingWhat \in Moves
  BY SampleTaken
<1>n. /\ \A move \in Moves : Added(move) \in Nat
      /\ performedSweeps \in Nat /\ timeslice \in Nat /\ m \in Nat \ {0}
      /\ AccRatioAdjustmentSamples \in Nat \ {0}
  BY ParametersAssumption DEF IInv, Ranges, Added, RunningAverages
<1>3. /\ performedSweeps' = performedSweeps /\ timeslice' = timeslice + 1
      /\ spinProposalMethod' = spinProposalMethod
  BY DEF UpdateInSliceThermalization
<1>4. OneSampleASlice'
  <2>1. Added("box")' + Added("rotate")' + Added("scale")'
          = Added("box") + Added("rotate") + Added("scale") + 1
    BY <1>1, <1>2, <1>n
  <2>2. performedSweeps * m \in Int
    BY <1>n
  <2> QED
    BY <1>3, <1>n, <2>1, <2>2 DEF IInv, OneSampleASlice
<1>5. TurnsOfWholeWindows'
  <2>1. \A move \in Moves \ Adapted : Added(move)' = 0
    BY <1>1, <1>2 DEF IInv, TurnsOfWholeWindows
  <2>2. ASSUME spinProposalMethod = "ROTATE_AND_SCALE"
        PROVE  /\ \A move \in {"rotate", "scale"} \ {AdaptingWhat} : Whole(Added(move)')
               /\ Whole(Added(AdaptingWhat)' - IntoTheTurn')
    <3>1. \A move \in {"rotate", "scale"} \ {AdaptingWhat} : Whole(Added(move))
      BY <2>2 DEF IInv, TurnsOfWholeWindows
    <3>2. IntoTheTurn \in Int /\ IntoTheTurn' = IntoTheTurn + 1
      <4>1. performedSweeps % AccRatioAdjustmentSamples \in Int
        BY <1>n, Division
      <4>2. (performedSweeps % AccRatioAdjustmentSamples) * m \in Int
        BY <1>n, <4>1
      <4> QED
        BY <1>3, <1>n, <4>2 DEF IntoTheTurn
    <3>3. Added(AdaptingWhat)' - IntoTheTurn' = Added(AdaptingWhat) - IntoTheTurn
      BY <1>1, <1>2, <1>n, <3>2
    <3>4. Whole(Added(AdaptingWhat) - IntoTheTurn)
      BY <2>2 DEF IInv, TurnsOfWholeWindows
    <3> QED
      BY <1>1, <3>1, <3>3, <3>4
  <2>3. \A n : Whole(n)' = Whole(n)
    BY DEF Whole
  <2> QED
    BY <1>1, <1>3, <2>1, <2>2 DEF TurnsOfWholeWindows, Whole
<1> QED
  BY <1>4, <1>5

LEMMA ProductOrder ==
  ASSUME NEW k \in Nat \ {0}, NEW a \in Int, NEW b \in Int
  PROVE  (a <= b => k * a <= k * b) /\ (k * a < k * b => a + 1 <= b)
<1>1. ASSUME a <= b PROVE k * a <= k * b
  <2>1. PICK d \in Nat : b = a + d
    BY <1>1
  <2>2. k * b = k * a + k * d /\ k * d >= 0 /\ k * a \in Int
    BY <2>1
  <2> QED
    BY <2>2
<1>2. ASSUME b <= a PROVE k * b <= k * a
  <2>1. PICK d \in Nat : a = b + d
    BY <1>2
  <2>2. k * a = k * b + k * d /\ k * d >= 0 /\ k * b \in Int
    BY <2>1
  <2> QED
    BY <2>2
<1> QED
  BY <1>1, <1>2

(* There is a halving left whenever a window is full.                      *)
LEMMA HalvingsLeft ==
  ASSUME IInv, NEW ratio \in {0, 1}, UpdateInSliceThermalization(ratio),
         (Added(AdaptingWhat) + 1) % AccRatioAdjustmentSamples = 0,
         NEW h \in 0..MaxHalvings, AccRatioAdjustmentSamples * h <= Added(AdaptingWhat)
  PROVE  /\ h + 1 \in 0..MaxHalvings
         /\ AccRatioAdjustmentSamples * (h + 1) <= Added(AdaptingWhat) + 1
         /\ 2^(MaxHalvings - (h + 1)) \in Nat \ {0}
         /\ 2^(MaxHalvings - h) = 2 * 2^(MaxHalvings - (h + 1))
<1>1. PICK N \in Nat \ {0}, n \in Nat : N = AccRatioAdjustmentSamples /\ n = Added(AdaptingWhat)
  <2>1. Added(AdaptingWhat) \in Nat
    BY SampleTaken
  <2> QED
    BY <2>1, ParametersAssumption
<1>2. h \in Int /\ MaxHalvings \in Nat
  BY ParametersAssumption
<1>3. PICK q \in Int : n + 1 = N * q
  <2>1. (n + 1) \div N \in Int /\ n + 1 = N * ((n + 1) \div N) + ((n + 1) % N)
    BY Division
  <2>2. PICK q \in Int : q = (n + 1) \div N /\ n + 1 = N * q + 0
    BY <1>1, <2>1
  <2> QED
    BY <2>2
<1>4. h + 1 <= q
  <2>1. N * h < N * q
    <3>1. N * h <= n /\ N * h \in Int
      BY <1>1, <1>2
    <3> QED
      BY <1>3, <3>1
  <2> QED
    BY <1>2, <2>1, ProductOrder
<1>5. N * (h + 1) <= n + 1
  BY <1>2, <1>3, <1>4, ProductOrder
<1>6. n + 1 <= N * MaxHalvings
  <2>1. n + 1 <= m * (performedSweeps + 1)
    <3>1. /\ Added("box") \in Nat /\ Added("rotate") \in Nat /\ Added("scale") \in Nat
          /\ performedSweeps \in Nat /\ timeslice \in Nat /\ m \in Nat \ {0} /\ timeslice < m
      BY ParametersAssumption DEF IInv, Ranges, Added, RunningAverages, UpdateInSliceThermalization
    <3>2. n <= Added("box") + Added("rotate") + Added("scale")
      <4>1. AdaptingWhat \in {"box", "rotate", "scale"}
        BY SampleTaken
      <4> QED
        BY <1>1, <3>1, <4>1
    <3>3. Added("box") + Added("rotate") + Added("scale") = performedSweeps * m + timeslice
      BY DEF IInv, OneSampleASlice
    <3>4. PICK p \in Nat : p = performedSweeps * m /\ m * (performedSweeps + 1) = p + m
      BY <3>1
    <3> QED
      BY <3>1, <3>2, <3>3, <3>4
  <2>2. m * (performedSweeps + 1) <= m * MaxSweeps
    <3>1. performedSweeps + 1 \in Int /\ MaxSweeps \in Int /\ performedSweeps + 1 <= MaxSweeps
      BY ParametersAssumption DEF IInv, Ranges, UpdateInSliceThermalization
    <3> QED
      BY <3>1, ParametersAssumption, ProductOrder
  <2>3. /\ m * MaxSweeps <= N * MaxHalvings
        /\ m * (performedSweeps + 1) \in Int /\ m * MaxSweeps \in Int /\ N * MaxHalvings \in Int
    <3>1. MaxHalvings * N >= MaxSweeps * m /\ m \in Int /\ MaxSweeps \in Int /\ performedSweeps \in Int
      BY <1>1, ParametersAssumption DEF IInv, Ranges
    <3> QED
      BY <1>2, <3>1
  <2> QED
    BY <2>1, <2>2, <2>3
<1>7. h + 1 <= MaxHalvings
  <2>1. N * h < N * MaxHalvings
    <3>1. N * (h + 1) <= N * MaxHalvings /\ N * (h + 1) = N * h + N /\ N * h \in Int /\ N * MaxHalvings \in Int
      <4>1. N * (h + 1) = N * h + N /\ N * h \in Int /\ N * MaxHalvings \in Int
        BY <1>2
      <4> QED
        BY <1>5, <1>6, <4>1
    <3> QED
      BY <3>1
  <2> QED
    BY <1>2, <2>1, ProductOrder
<1>8. h + 1 \in 0..MaxHalvings
  BY <1>2, <1>7
<1>9. PICK k \in 0..MaxHalvings : k = MaxHalvings - (h + 1) /\ k + 1 = MaxHalvings - h
  BY <1>2, <1>7
<1> QED
  BY <1>1, <1>5, <1>8, <1>9, PowersOfTwo

LEMMA UpdateAngle ==
  ASSUME IInv, NEW ratio \in {0, 1}, UpdateInSliceThermalization(ratio)
  PROVE  AngleBisected'
<1> DEFINE new == AddValue(accRatioLocal_RA[AdaptingWhat], Sample(ratio))
           N   == AccRatioAdjustmentSamples
           low  == angleDelta.curmin
           mid  == angleDelta.value
           high == angleDelta.curmax
<1>1. PICK h \in 0..MaxHalvings :
        high - low = 20 * 2^(MaxHalvings - h) /\ N * h <= Added("rotate")
  BY DEF IInv, AngleBisected
<1>2. /\ 2 * mid = low + high /\ MinAngleDelta <= low /\ high <= MaxAngleDelta
      /\ \A angle \in tooLow["rotate"] : angle \in Int /\ angle <= low
      /\ \A angle \in tooHigh["rotate"] : angle \in Int /\ angle >= high
      /\ angleDelta \in Brackets
  BY DEF IInv, AngleBisected, Ranges
<1>3. /\ N * h \in Int /\ Added("rotate") \in Nat
      /\ Added("rotate") <= Added("rotate")'
      /\ AdaptingWhat = "rotate" => Added("rotate")' = Added("rotate") + 1
  <2>1. \A move \in Moves : Added(move) \in Nat
    BY DEF IInv, Ranges, Added, RunningAverages
  <2>2. N * h \in Int
    BY ParametersAssumption
  <2>3. /\ AdaptingWhat \in Moves
        /\ \A other \in Moves \ {AdaptingWhat} : Added(other)' = Added(other)
        /\ Added(AdaptingWhat)' = Added(AdaptingWhat) + 1
    BY SampleTaken, OthersStay
  <2>4. AdaptingWhat' = AdaptingWhat
    BY OthersStay
  <2>5. CASE AdaptingWhat = "rotate"
    <3>1. Added("rotate")' = Added("rotate") + 1
      BY <2>3, <2>4, <2>5 DEF Added
    <3> QED
      BY <2>1, <2>2, <3>1
  <2>6. CASE AdaptingWhat # "rotate"
    BY <2>1, <2>2, <2>3, <2>6
  <2> QED
    BY <2>5, <2>6
<1>4. MinAngleDelta' = MinAngleDelta /\ MaxAngleDelta' = MaxAngleDelta
  BY DEF MinAngleDelta, MaxAngleDelta, Unit
<1>i. low \in Int /\ mid \in Int /\ high \in Int /\ MinAngleDelta \in Int /\ MaxAngleDelta \in Int
  <2>1. Unit \in Int
    BY ParametersAssumption, PowersOfTwo DEF Unit
  <2> QED
    BY <1>2, <2>1 DEF Brackets, MinAngleDelta, MaxAngleDelta
<1>t. tooLow \in [Moves -> SUBSET Steps] /\ tooHigh \in [Moves -> SUBSET Steps]
  BY DEF IInv, Ranges
<1>5. CASE AdaptingWhat = "rotate" /\ Due(new) /\ (Below(new) \/ Above(new))
  <2>1. /\ h + 1 \in 0..MaxHalvings /\ N * (h + 1) <= Added("rotate") + 1
        /\ 2^(MaxHalvings - (h + 1)) \in Nat \ {0}
        /\ 2^(MaxHalvings - h) = 2 * 2^(MaxHalvings - (h + 1))
    <3>1. (Added(AdaptingWhat) + 1) % N = 0
      BY <1>5, SampleTaken DEF Due
    <3>2. AdaptingWhat = "rotate"
      BY <1>5
    <3> QED
      BY <1>1, <3>1, <3>2, HalvingsLeft
  <2>2. PICK w \in Nat \ {0} : w = 10 * 2^(MaxHalvings - (h + 1)) /\ mid - low = 2 * w /\ high - mid = 2 * w
                               /\ 2 * w = 20 * 2^(MaxHalvings - (h + 1))
    BY <1>1, <1>2, <1>i, <2>1
  <2>3. low < mid /\ mid < high /\ mid < MaxAngleDelta /\ mid > MinAngleDelta
    BY <1>2, <1>i, <2>2
  <2>4. tooLow["rotate"] \subseteq Int /\ StepSize("rotate") = mid
    BY <1>2 DEF StepSize
  <2>5. CASE Below(new)
    <3>1. /\ angleDelta' = Raised(angleDelta)
          /\ tooLow' = [tooLow EXCEPT !["rotate"] = @ \cup {mid}]
          /\ tooHigh' = tooHigh
      <4>1. ~Above(new)
        <5>1. new.sum \in Int
          BY SampleTaken DEF IsAverage, RunningAverages
        <5> QED
          BY <2>5, <5>1, ParametersAssumption DEF Below, Above
      <4>2. AdaptedAngle(new) = Raised(angleDelta)
        BY <2>3, <2>5, <4>1 DEF AdaptedAngle
      <4>3. angleDelta' = AdaptedAngle(new)
        BY <1>5 DEF UpdateInSliceThermalization
      <4>4. Judge("rotate", new)
        BY <1>5 DEF UpdateInSliceThermalization
      <4> QED
        BY <1>5, <2>4, <2>5, <4>1, <4>2, <4>3, <4>4 DEF Judge
    <3>2. angleDelta' = [value |-> mid + w, curmin |-> mid, curmax |-> high]
      <4>1. (high - mid) \div 2 = w
        BY <1>i, <2>2
      <4> QED
        BY <1>2, <3>1, <4>1 DEF Raised, Brackets
    <3>3. tooLow'["rotate"] = tooLow["rotate"] \cup {mid}
      BY <1>t, <3>1
    <3>4. \A angle \in tooLow'["rotate"] : angle \in Int /\ angle <= mid
      BY <1>2, <1>i, <2>3, <3>3
    <3>5. 20 * 2^(MaxHalvings - (h + 1)) = high - mid /\ N * (h + 1) <= Added("rotate")'
      BY <1>3, <1>5, <2>1, <2>2
    <3> QED
      BY <1>2, <1>4, <1>i, <2>1, <2>2, <2>3, <3>1, <3>2, <3>4, <3>5 DEF AngleBisected
  <2>6. CASE Above(new)
    <3>1. /\ angleDelta' = Lowered(angleDelta)
          /\ tooHigh' = [tooHigh EXCEPT !["rotate"] = @ \cup {mid}]
          /\ tooLow' = tooLow
      <4>1. ~Below(new)
        <5>1. new.sum \in Int
          BY SampleTaken DEF IsAverage, RunningAverages
        <5> QED
          BY <2>6, <5>1, ParametersAssumption DEF Below, Above
      <4>2. AdaptedAngle(new) = Lowered(angleDelta)
        BY <2>3, <2>6, <4>1 DEF AdaptedAngle
      <4>3. angleDelta' = AdaptedAngle(new)
        BY <1>5 DEF UpdateInSliceThermalization
      <4>4. Judge("rotate", new)
        BY <1>5 DEF UpdateInSliceThermalization
      <4> QED
        BY <1>5, <2>4, <2>6, <4>1, <4>2, <4>3, <4>4 DEF Judge
    <3>2. angleDelta' = [value |-> mid - w, curmin |-> low, curmax |-> mid]
      <4>1. (mid - low) \div 2 = w
        BY <1>i, <2>2
      <4> QED
        BY <1>2, <3>1, <4>1 DEF Lowered, Brackets
    <3>3. tooHigh'["rotate"] = tooHigh["rotate"] \cup {mid}
      BY <1>t, <3>1
    <3>4. \A angle \in tooHigh'["rotate"] : angle \in Int /\ angle >= mid
      BY <1>2, <1>i, <2>3, <3>3
    <3>5. 20 * 2^(MaxHalvings - (h + 1)) = mid - low /\ N * (h + 1) <= Added("rotate")'
      BY <1>3, <1>5, <2>1, <2>2
    <3> QED
      BY <1>2, <1>4, <1>i, <2>1, <2>2, <2>3, <3>1, <3>2, <3>4, <3>5 DEF AngleBisected
  <2> QED
    BY <1>5, <2>5, <2>6
<1>6. CASE ~(AdaptingWhat = "rotate" /\ Due(new) /\ (Below(new) \/ Above(new)))
  <2>1. angleDelta' = angleDelta
    BY <1>6 DEF UpdateInSliceThermalization, AdaptedAngle
  <2>2. tooLow'["rotate"] = tooLow["rotate"] /\ tooHigh'["rotate"] = tooHigh["rotate"]
    BY <1>6, <1>t DEF UpdateInSliceThermalization, Judge
  <2>3. N * h <= Added("rotate")'
    <3>1. Added("rotate")' \in Nat
      BY <1>3, OthersStay, SampleTaken DEF Added
    <3> QED
      BY <1>1, <1>3, <3>1
  <2> QED
    BY <1>1, <1>2, <1>4, <2>1, <2>2, <2>3 DEF AngleBisected
<1> QED
  BY <1>5, <1>6

LEMMA UpdateScale ==
  ASSUME IInv, NEW ratio \in {0, 1}, UpdateInSliceThermalization(ratio)
  PROVE  ScaleRaised'
<1> DEFINE new == AddValue(accRatioLocal_RA[AdaptingWhat], Sample(ratio))
           N   == AccRatioAdjustmentSamples
           value == scaleDelta.value
<1>1. PICK h \in 0..MaxHalvings :
        MaxScaleDelta - value = 9 * 2^(MaxHalvings - h) /\ N * h <= Added("scale")
  BY DEF IInv, ScaleRaised
<1>2. /\ scaleDelta.curmax = MaxScaleDelta /\ scaleDelta \in Brackets
      /\ MinScaleDelta <= scaleDelta.curmin /\ scaleDelta.curmin <= value
      /\ adaptScaleVariance =>
           \A scale \in tooHigh["scale"] : scale \in Int /\ scale <= scaleDelta.curmin /\ scale < value
  BY DEF IInv, ScaleRaised, Ranges
<1>3. /\ N * h \in Int /\ Added("scale") \in Nat
      /\ Added("scale") <= Added("scale")' /\ Added("scale")' \in Nat
      /\ AdaptingWhat = "scale" => Added("scale")' = Added("scale") + 1
  <2>1. \A move \in Moves : Added(move) \in Nat
    BY DEF IInv, Ranges, Added, RunningAverages
  <2>2. N * h \in Int
    BY ParametersAssumption
  <2>3. /\ AdaptingWhat \in Moves
        /\ \A other \in Moves \ {AdaptingWhat} : Added(other)' = Added(other)
        /\ Added(AdaptingWhat)' = Added(AdaptingWhat) + 1
    BY SampleTaken, OthersStay
  <2>4. AdaptingWhat' = AdaptingWhat
    BY OthersStay
  <2>5. CASE AdaptingWhat = "scale"
    <3>1. Added("scale")' = Added("scale") + 1
      BY <2>3, <2>4, <2>5 DEF Added
    <3> QED
      BY <2>1, <2>2, <3>1
  <2>6. CASE AdaptingWhat # "scale"
    BY <2>1, <2>2, <2>3, <2>6
  <2> QED
    BY <2>5, <2>6
<1>i. /\ value \in Int /\ scaleDelta.curmin \in Int /\ MinScaleDelta \in Int /\ MaxScaleDelta \in Int
      /\ MinScaleDelta' = MinScaleDelta /\ MaxScaleDelta' = MaxScaleDelta
  <2>1. Unit \in Int
    BY ParametersAssumption, PowersOfTwo DEF Unit
  <2> QED
    BY <1>2, <2>1 DEF Brackets, MinScaleDelta, MaxScaleDelta, Unit
<1>t. tooHigh \in [Moves -> SUBSET Steps]
  BY DEF IInv, Ranges
<1>4. CASE AdaptingWhat = "scale" /\ Due(new) /\ Above(new) /\ adaptScaleVariance
  <2>1. /\ h + 1 \in 0..MaxHalvings /\ N * (h + 1) <= Added("scale") + 1
        /\ 2^(MaxHalvings - (h + 1)) \in Nat \ {0}
        /\ 2^(MaxHalvings - h) = 2 * 2^(MaxHalvings - (h + 1))
    <3>1. (Added(AdaptingWhat) + 1) % N = 0
      BY <1>4, SampleTaken DEF Due
    <3>2. AdaptingWhat = "scale"
      BY <1>4
    <3> QED
      BY <1>1, <3>1, <3>2, HalvingsLeft
  <2>2. PICK w \in Nat \ {0} : w = 9 * 2^(MaxHalvings - (h + 1)) /\ MaxScaleDelta - value = 2 * w
    BY <1>1, <1>i, <2>1
  <2>3. value < MaxScaleDelta
    BY <1>i, <2>2
  <2>4. /\ scaleDelta' = Raised(scaleDelta)
        /\ tooHigh' = [tooHigh EXCEPT !["scale"] = @ \cup {value}]
    <3>1. AdaptedScale(new) = Raised(scaleDelta)
      BY <1>4, <1>i, <2>3 DEF AdaptedScale
    <3>2. scaleDelta' = AdaptedScale(new)
      BY <1>4 DEF UpdateInSliceThermalization
    <3>3. Judge("scale", new)
      BY <1>4 DEF UpdateInSliceThermalization
    <3>4. StepSize("scale") = value
      BY DEF StepSize
    <3> QED
      BY <1>4, <3>1, <3>2, <3>3, <3>4 DEF Judge
  <2>5. scaleDelta' = [value |-> value + w, curmin |-> value, curmax |-> MaxScaleDelta]
    <3>1. (MaxScaleDelta - value) \div 2 = w
      BY <1>i, <2>2
    <3> QED
      BY <1>2, <2>4, <3>1 DEF Raised, Brackets
  <2>6. tooHigh'["scale"] = tooHigh["scale"] \cup {value}
    BY <1>t, <2>4
  <2>7. \A scale \in tooHigh'["scale"] : scale \in Int /\ scale <= value /\ scale < value + w
    <3>1. \A scale \in tooHigh["scale"] : scale \in Int /\ scale < value
      BY <1>2, <1>4
    <3> QED
      BY <1>i, <2>6, <3>1
  <2>8. N * (h + 1) <= Added("scale")'
    BY <1>3, <1>4, <2>1
  <2>9. MaxScaleDelta - (value + w) = 9 * 2^(MaxHalvings - (h + 1))
    BY <1>i, <2>2
  <2>10. MinScaleDelta <= value /\ value <= value + w
    BY <1>2, <1>i
  <2> QED
    BY <1>i, <2>1, <2>5, <2>7, <2>8, <2>9, <2>10 DEF ScaleRaised
<1>5. CASE ~(AdaptingWhat = "scale" /\ Due(new) /\ Above(new) /\ adaptScaleVariance)
  <2>1. scaleDelta' = scaleDelta
    BY <1>5 DEF UpdateInSliceThermalization, AdaptedScale
  <2>2. adaptScaleVariance => tooHigh'["scale"] = tooHigh["scale"]
    BY <1>5, <1>t DEF UpdateInSliceThermalization, Judge
  <2>3. N * h <= Added("scale")'
    BY <1>1, <1>3
  <2> QED
    BY <1>1, <1>2, <1>i, <2>1, <2>2, <2>3 DEF ScaleRaised
<1> QED
  BY <1>4, <1>5

LEMMA StillBrackets ==
  ASSUME NEW delta \in Brackets
  PROVE  Raised(delta) \in Brackets /\ Lowered(delta) \in Brackets
<1>1. PICK low \in Int, mid \in Int, high \in Int : delta = [value |-> mid, curmin |-> low, curmax |-> high]
  BY DEF Brackets
<1>2. (high - mid) \div 2 \in Int /\ (mid - low) \div 2 \in Int
  OBVIOUS
<1>3. /\ Raised(delta) = [value |-> mid + (high - mid) \div 2, curmin |-> mid, curmax |-> high]
      /\ Lowered(delta) = [value |-> mid - (mid - low) \div 2, curmin |-> low, curmax |-> mid]
  <2>1. delta.value = mid /\ delta.curmin = low /\ delta.curmax = high
    BY <1>1
  <2>2. /\ Raised(delta) = [delta EXCEPT !.curmin = mid, !.value = mid + (high - mid) \div 2]
        /\ Lowered(delta) = [delta EXCEPT !.curmax = mid, !.value = mid - (mid - low) \div 2]
    BY <2>1 DEF Raised, Lowered
  <2> QED
    BY <1>1, <2>2
<1> QED
  BY <1>2, <1>3 DEF Brackets

LEMMA UpdateRanges ==
  ASSUME IInv, NEW ratio \in {0, 1}, UpdateInSliceThermalization(ratio)
  PROVE  Ranges'
<1> DEFINE move == AdaptingWhat
           new  == AddValue(accRatioLocal_RA[move], Sample(ratio))
<1>1. Ranges
  BY DEF IInv
<1>2. /\ move \in Moves /\ IsAverage(new)
      /\ accRatioLocal_RA' = [accRatioLocal_RA EXCEPT ![move] = new]
  BY SampleTaken
<1>3. /\ \A other \in Moves : IsAverage(accRatioLocal_RA[other])'
      /\ accRatioLocal_RA' \in [Moves -> RunningAverages]
  <2>1. new \in RunningAverages
    BY <1>2 DEF IsAverage
  <2> HIDE DEF new, move
  <2>2. \A other \in Moves : accRatioLocal_RA'[other] \in {new, accRatioLocal_RA[other]}
    BY <1>1, <1>2 DEF Ranges
  <2>3. \A other \in Moves : IsAverage(accRatioLocal_RA'[other])
    BY <1>1, <1>2, <2>2 DEF Ranges
  <2>4. \A ra : IsAverage(ra)' = IsAverage(ra)
    BY DEF IsAverage, RunningAverages
  <2> QED
    BY <1>1, <1>2, <2>1, <2>3, <2>4 DEF Ranges
<1>4. phiDelta' \in [grown : Nat, shrunk : Nat]
  BY <1>1 DEF UpdateInSliceThermalization, AdaptedPhi, Ranges
<1>5. angleDelta' \in Brackets
  <2>1. angleDelta' \in {angleDelta, Raised(angleDelta), Lowered(angleDelta)}
    BY DEF UpdateInSliceThermalization, AdaptedAngle
  <2> QED
    BY <1>1, <2>1, StillBrackets DEF Ranges
<1>6. scaleDelta' \in Brackets
  <2>1. scaleDelta' \in {scaleDelta, Raised(scaleDelta), Lowered(scaleDelta)}
    BY DEF UpdateInSliceThermalization, AdaptedScale
  <2> QED
    BY <1>1, <2>1, StillBrackets DEF Ranges
<1>7. tooLow' \in [Moves -> SUBSET Steps] /\ tooHigh' \in [Moves -> SUBSET Steps]
  <2>1. StepSize(move) \in Steps
    BY <1>1, <1>2, WhoseTurn
  <2>2. Judge(move, new)
    BY DEF UpdateInSliceThermalization
  <2> HIDE DEF new, move
  <2> QED
    BY <1>1, <1>2, <2>1, <2>2 DEF Judge, Ranges
<1>8. /\ spinProposalMethod' \in Methods /\ performedSweeps' \in 0..MaxSweeps
      /\ timeslice' \in 0..m /\ performedSweeps' # MaxSweeps
  BY <1>1, ParametersAssumption DEF UpdateInSliceThermalization, Ranges
<1> HIDE DEF new, move
<1> QED
  BY <1>3, <1>4, <1>5, <1>6, <1>7, <1>8 DEF Ranges

-----------------------------------------------------------------------------
(* The end of a sweep: with the last sweep of a turn a whole number of     *)
(* windows is full, else the turn goes on.                                 *)

LEMMA Divided ==
  ASSUME NEW n \in Nat, NEW k \in Nat \ {0}
  PROVE  \E q \in Int, r \in 0..(k - 1) : n = k * q + r /\ r = n % k
<1>1. n \div k \in Int /\ n % k \in 0..(k - 1) /\ n = k * (n \div k) + (n % k)
  BY Division
<1> WITNESS n \div k \in Int, n % k \in 0..(k - 1)
<1> QED
  BY <1>1

LEMMA TurnLasts ==
  ASSUME NEW n \in Nat, NEW N \in Nat \ {0}, n % N # N - 1
  PROVE  n % (2 * N) < N <=> (n + 1) % (2 * N) < N
<1>0. PICK K \in Nat \ {0} : K = 2 * N
  OBVIOUS
<1>1. PICK q \in Int, r \in 0..(K - 1) : n = K * q + r /\ r = n % K
  BY Divided
<1>2. PICK p \in Int, s \in 0..(N - 1) : n = N * p + s /\ s = n % N
  BY Divided
<1>3. r # N - 1 /\ r # K - 1
  <2>1. ASSUME r = N - 1 PROVE FALSE
    <3>1. N * p + s = N * (2 * q) + (N - 1) /\ N - 1 \in 0..(N - 1) /\ 2 * q \in Int
      <4>1. K * q = N * (2 * q)
        BY <1>0
      <4>2. N * p + s = K * q + (N - 1)
        BY <1>1, <1>2, <2>1
      <4> QED
        BY <4>1, <4>2
    <3> QED
      BY <1>2, <3>1, DivisionUnique
  <2>2. ASSUME r = K - 1 PROVE FALSE
    <3>1. N * p + s = N * (2 * q + 1) + (N - 1) /\ N - 1 \in 0..(N - 1) /\ 2 * q + 1 \in Int
      <4>1. K * q + (K - 1) = N * (2 * q + 1) + (N - 1)
        BY <1>0
      <4>2. N * p + s = K * q + (K - 1)
        BY <1>1, <1>2, <2>2
      <4> QED
        BY <4>1, <4>2
    <3> QED
      BY <1>2, <3>1, DivisionUnique
  <2> QED
    BY <2>1, <2>2
<1>4. (n + 1) % K = (n % K) + 1
  BY <1>1, <1>3, OneMore
<1> QED
  BY <1>0, <1>1, <1>3, <1>4

LEMMA FinishTurns ==
  ASSUME IInv, FinishSweep
  PROVE  TurnsOfWholeWindows' /\ OneSampleASlice'
<1> DEFINE N == AccRatioAdjustmentSamples
<1>n. /\ \A move \in Moves : Added(move) \in Nat
      /\ performedSweeps \in Nat /\ m \in Nat \ {0} /\ N \in Nat \ {0}
  BY ParametersAssumption DEF IInv, Ranges, Added, RunningAverages
<1>1. /\ timeslice = m /\ timeslice' = 0 /\ performedSweeps' = performedSweeps + 1
      /\ spinProposalMethod' = spinProposalMethod /\ accRatioLocal_RA' = accRatioLocal_RA
  BY DEF FinishSweep, ad
<1>2. \A move : Added(move)' = Added(move)
  BY <1>1 DEF Added
<1>3. OneSampleASlice'
  <2>1. (performedSweeps + 1) * m + 0 = performedSweeps * m + m
    BY <1>n
  <2> QED
    BY <1>1, <1>2, <2>1 DEF IInv, OneSampleASlice
<1>4. ASSUME spinProposalMethod = "ROTATE_AND_SCALE"
      PROVE  /\ \A move \in {"rotate", "scale"} \ {AdaptingWhat'} : Whole(Added(move))
             /\ Whole(Added(AdaptingWhat') - IntoTheTurn')
  <2>1. /\ \A move \in {"rotate", "scale"} \ {AdaptingWhat} : Whole(Added(move))
        /\ Whole(Added(AdaptingWhat) - IntoTheTurn)
    BY <1>4 DEF IInv, TurnsOfWholeWindows
  <2>2. AdaptingWhat \in {"rotate", "scale"} /\ AdaptingWhat' \in {"rotate", "scale"}
    BY <1>1, <1>4 DEF AdaptingWhat
  <2>3. PICK k \in Int : Added(AdaptingWhat) - IntoTheTurn = N * k
    BY <2>1 DEF Whole
  <2>4. performedSweeps % N \in 0..(N - 1)
    BY <1>n, Division
  <2>5. CASE performedSweeps % N = N - 1
    <3>1. IntoTheTurn = (N - 1) * m + m
      BY <1>1, <2>5 DEF IntoTheTurn
    <3>2. Whole(Added(AdaptingWhat))
      <4>1. Added(AdaptingWhat) = N * (k + m) /\ k + m \in Int
        <5>1. (N - 1) * m + m = N * m /\ N * m \in Int /\ N * k \in Int /\ N * (k + m) = N * k + N * m
          BY <1>n
        <5>2. Added(AdaptingWhat) \in Int
          BY <1>n, <2>2
        <5> QED
          BY <1>n, <2>3, <3>1, <5>1, <5>2
      <4> QED
        BY <4>1 DEF Whole
    <3>3. IntoTheTurn' = 0
      <4>1. (performedSweeps + 1) % N = 0
        BY <1>n, <2>5, OneMore
      <4> QED
        BY <1>1, <1>n, <4>1 DEF IntoTheTurn
    <3>4. \A move \in {"rotate", "scale"} : Whole(Added(move))
      BY <2>1, <2>2, <3>2
    <3>5. Added(AdaptingWhat') - 0 = Added(AdaptingWhat')
      BY <1>n, <2>2
    <3> QED
      BY <2>2, <3>3, <3>4, <3>5
  <2>6. CASE performedSweeps % N # N - 1
    <3>1. AdaptingWhat' = AdaptingWhat
      <4>1. performedSweeps % (2 * N) < N <=> (performedSweeps + 1) % (2 * N) < N
        BY <1>n, <2>6, TurnLasts
      <4> QED
        BY <1>1, <1>4, <4>1 DEF AdaptingWhat
    <3>2. IntoTheTurn' = IntoTheTurn
      <4>1. (performedSweeps + 1) % N = (performedSweeps % N) + 1
        BY <1>n, <2>6, OneMore
      <4>2. ((performedSweeps % N) + 1) * m + 0 = (performedSweeps % N) * m + m
        BY <1>n, <2>4
      <4> QED
        BY <1>1, <4>1, <4>2 DEF IntoTheTurn
    <3> QED
      BY <2>1, <3>1, <3>2
  <2> QED
    BY <2>5, <2>6
<1>5. Adapted' = Adapted
  BY <1>1 DEF Adapted
<1>6. TurnsOfWholeWindows'
  <2>1. \A move \in Moves \ Adapted : Added(move) = 0
    BY DEF IInv, TurnsOfWholeWindows
  <2>2. \A x : Whole(x)' = Whole(x)
    BY DEF Whole
  <2>3. spinProposalMethod' = "ROTATE_AND_SCALE" =>
          /\ \A move \in {"rotate", "scale"} \ {AdaptingWhat'} : Whole(Added(move)')
          /\ Whole(Added(AdaptingWhat)' - IntoTheTurn')
    <3>1. Added(AdaptingWhat)' = Added(AdaptingWhat')
      BY <1>1 DEF Added
    <3> QED
      BY <1>1, <1>2, <1>4, <3>1
  <2> QED
    BY <1>2, <1>5, <2>1, <2>3 DEF TurnsOfWholeWindows, Whole
<1> QED
  BY <1>3, <1>6

LEMMA FinishSampledInForce ==
  ASSUME IInv, FinishSweep
  PROVE  SampledInForce'
<1>1. /\ spinProposalMethod' = spinProposalMethod /\ accRatioLocal_RA' = accRatioLocal_RA
      /\ phiDelta' = phiDelta /\ angleDelta' = angleDelta /\ scaleDelta' = scaleDelta
  BY DEF FinishSweep, ad
<1>2. \A move : InForce(move)' = InForce(move)
  BY <1>1 DEF InForce, ProposedWith, StepSize
<1> QED
  BY <1>1, <1>2 DEF IInv, SampledInForce

LEMMA FinishBisections ==
  ASSUME IInv, FinishSweep
  PROVE  Ranges' /\ AngleBisected' /\ ScaleRaised'
<1>1. /\ spinProposalMethod' = spinProposalMethod /\ accRatioLocal_RA' = accRatioLocal_RA
      /\ phiDelta' = phiDelta /\ angleDelta' = angleDelta /\ scaleDelta' = scaleDelta
      /\ tooLow' = tooLow /\ tooHigh' = tooHigh
      /\ timeslice' = 0 /\ performedSweeps' = performedSweeps + 1
  BY DEF FinishSweep, ad, history
<1>2. performedSweeps' \in 0..MaxSweeps /\ timeslice' \in 0..m
  <2>1. performedSweeps \in 0..MaxSweeps /\ performedSweeps # MaxSweeps /\ MaxSweeps \in Nat /\ m \in Nat \ {0}
    BY ParametersAssumption DEF IInv, Ranges, FinishSweep
  <2> QED
    BY <1>1, <2>1
<1>3. Ranges'
  BY <1>1, <1>2 DEF IInv, Ranges
<1>4. AngleBisected'
  BY <1>1 DEF IInv, AngleBisected, Added, MinAngleDelta, MaxAngleDelta, Unit
<1>5. ScaleRaised'
  BY <1>1 DEF IInv, ScaleRaised, Added, MinScaleDelta, MaxScaleDelta, Unit
<1> QED
  BY <1>3, <1>4, <1>5

LEMMA NextIInv == IInv /\ [Next]_vars => IInv'
<1> SUFFICES ASSUME IInv, [Next]_vars PROVE IInv'
  OBVIOUS
<1>1. ASSUME NEW ratio \in {0, 1}, UpdateInSliceThermalization(ratio) PROVE IInv'
  BY <1>1, UpdateRanges, UpdateTurns, UpdateSampledInForce, UpdateAngle, UpdateScale DEF IInv
<1>2. ASSUME FinishSweep PROVE IInv'
  BY <1>2, FinishTurns, FinishSampledInForce, FinishBisections DEF IInv
<1>3. ASSUME UNCHANGED vars PROVE IInv'
  <2> USE <1>3 DEF vars, position, ad, history
  <2>1. Ranges'
    BY DEF IInv, Ranges
  <2>2. OneSampleASlice' /\ TurnsOfWholeWindows'
    BY DEF IInv, OneSampleASlice, TurnsOfWholeWindows, Added, Adapted, AdaptingWhat, IntoTheTurn, Whole
  <2>3. SampledInForce'
    <3>1. \A move : InForce(move)' = InForce(move)
      BY DEF InForce, ProposedWith, StepSize
    <3> QED
      BY <3>1 DEF IInv, SampledInForce
  <2>4. AngleBisected' /\ ScaleRaised'
    BY DEF IInv, AngleBisected, ScaleRaised, Added, MinAngleDelta, MaxAngleDelta, MinScaleDelta,
           MaxScaleDelta, Unit
  <2> QED
    BY <2>1, <2>2, <2>3, <2>4 DEF IInv
<1> QED
  BY <1>1, <1>2, <1>3 DEF Next, Thermalized

THEOREM AdjustmentInvariant == Spec => []IInv
  BY InitIInv, NextIInv, PTL DEF Spec

-----------------------------------------------------------------------------
(* Every variable stays in its range, and a step size within its bracket,  *)
(* for any number of slices, samples and sweeps (updateInSliceThermalization*)
(* in detsdwopdim.cpp).                                                    *)
THEOREM StepSizesInBrackets == Spec => []TypeOK
<1>1. ASSUME IInv PROVE TypeOK
  <2> USE <1>1
  <2>u. Unit \in Nat \ {0}
    BY ParametersAssumption, PowersOfTwo DEF Unit
  <2>1. /\ spinProposalMethod \in Methods /\ performedSweeps \in 0..MaxSweeps /\ timeslice \in 0..m
        /\ phiDelta \in [grown : Nat, shrunk : Nat]
    BY DEF IInv, Ranges
  <2>2. angleDelta.curmin <= angleDelta.value /\ angleDelta.value <= angleDelta.curmax
    <3>1. PICK h \in 0..MaxHalvings : angleDelta.curmax - angleDelta.curmin = 20 * 2^(MaxHalvings - h)
      BY DEF IInv, AngleBisected
    <3>2. 2^(MaxHalvings - h) \in Nat
      <4>1. MaxHalvings - h \in 0..MaxHalvings
        BY ParametersAssumption
      <4> QED
        BY <4>1, PowersOfTwo
    <3>3. /\ angleDelta.value \in Int /\ angleDelta.curmin \in Int /\ angleDelta.curmax \in Int
          /\ 2 * angleDelta.value = angleDelta.curmin + angleDelta.curmax
      BY DEF IInv, AngleBisected, Ranges, Brackets
    <3> QED
      BY <3>1, <3>2, <3>3
  <2>3. scaleDelta.curmin <= scaleDelta.value /\ scaleDelta.value <= scaleDelta.curmax
    <3>1. PICK h \in 0..MaxHalvings : MaxScaleDelta - scaleDelta.value = 9 * 2^(MaxHalvings - h)
      BY DEF IInv, ScaleRaised
    <3>2. 2^(MaxHalvings - h) \in Nat
      <4>1. MaxHalvings - h \in 0..MaxHalvings
        BY ParametersAssumption
      <4> QED
        BY <4>1, PowersOfTwo
    <3>3. /\ scaleDelta.value \in Int /\ scaleDelta.curmax = MaxScaleDelta /\ MaxScaleDelta \in Int
          /\ scaleDelta.curmin <= scaleDelta.value
      BY <2>u DEF IInv, ScaleRaised, Ranges, Brackets, MaxScaleDelta
    <3> QED
      BY <3>1, <3>2, <3>3
  <2>4. angleDelta \in Bracketed(MinAngleDelta, MaxAngleDelta)
    <3>1. MinAngleDelta <= angleDelta.curmin /\ angleDelta.curmax <= MaxAngleDelta /\ angleDelta \in Brackets
      BY DEF IInv, AngleBisected, Ranges
    <3>2. MinAngleDelta \in Int /\ MaxAngleDelta \in Int
      BY <2>u DEF MinAngleDelta, MaxAngleDelta
    <3> QED
      BY <2>2, <3>1, <3>2 DEF Brackets, Bracketed
  <2>5. scaleDelta \in Bracketed(MinScaleDelta, MaxScaleDelta)
    <3>1. MinScaleDelta <= scaleDelta.curmin /\ scaleDelta.curmax = MaxScaleDelta /\ scaleDelta \in Brackets
      BY DEF IInv, ScaleRaised, Ranges
    <3>2. MinScaleDelta \in Int /\ MaxScaleDelta \in Int
      BY <2>u DEF MinScaleDelta, MaxScaleDelta
    <3> QED
      BY <2>3, <3>1, <3>2 DEF Brackets, Bracketed
  <2>6. \A move \in Moves : Added(move) \in 0..(MaxSweeps * m)
    <3>1. \A move \in Moves : Added(move) \in Nat
      BY DEF IInv, Ranges, Added, RunningAverages
    <3>2. /\ Added("box") + Added("rotate") + Added("scale") = performedSweeps * m + timeslice
          /\ m \in Nat \ {0} /\ performedSweeps \in Nat /\ timeslice \in Nat /\ timeslice <= m
          /\ MaxSweeps \in Nat /\ performedSweeps <= MaxSweeps
          /\ performedSweeps = MaxSweeps => timeslice = 0
      BY ParametersAssumption DEF IInv, OneSampleASlice, Ranges
    <3>3. performedSweeps * m + timeslice <= MaxSweeps * m /\ MaxSweeps * m \in Nat
      <4>1. PICK p \in Int, s \in Nat : p = performedSweeps * m /\ s = MaxSweeps * m
        BY <3>2
      <4>2. CASE performedSweeps = MaxSweeps
        BY <3>2, <4>1, <4>2
      <4>3. CASE performedSweeps # MaxSweeps
        <5>1. m * (performedSweeps + 1) <= m * MaxSweeps
          <6>1. performedSweeps + 1 \in Int /\ performedSweeps + 1 <= MaxSweeps
            BY <3>2, <4>3
          <6> QED
            BY <3>2, <6>1, ProductOrder
        <5>2. m * (performedSweeps + 1) = p + m /\ m * MaxSweeps = s
          BY <3>2, <4>1
        <5> QED
          BY <3>2, <4>1, <5>1, <5>2
      <4> QED
        BY <4>2, <4>3
    <3>4. performedSweeps * m + timeslice \in Int
      BY <3>2
    <3> QED
      BY <3>1, <3>2, <3>3, <3>4
  <2> QED
    BY <2>1, <2>2, <2>3, <2>4, <2>5, <2>6 DEF TypeOK, Added
<1> QED
  BY <1>1, AdjustmentInvariant, PTL

(* What RunningAverage::get returns is the number of accepted samples in   *)
(* its window, which holds as many samples as it may.                      *)
THEOREM AveragesAreOfWindows == Spec => []AverageOfWindow
<1>1. IInv => AverageOfWindow
  BY DEF IInv, Ranges, AverageOfWindow, IsAverage, Accepted
<1> QED
  BY <1>1, AdjustmentInvariant, PTL

(* The bisections forget nothing that was judged, and the angle is in the  *)
(* middle of its bracket.                                                  *)
THEOREM BisectionsRemember == Spec => []BisectionRemembers
<1>1. IInv => BisectionRemembers
  BY DEF IInv, AngleBisected, ScaleRaised, BisectionRemembers
<1> QED
  BY <1>1, AdjustmentInvariant, PTL

(* A step size is changed only upon a full window of samples of its own    *)
(* move, all of them taken with the step sizes in force (the turns of      *)
(* ROTATE_AND_SCALE in updateInSliceThermalization).                       *)
THEOREM OnlyOwnSamplesCount == Spec => ChangedByOwnSamples
<1> DEFINE Change == /\ phiDelta' # phiDelta => JudgedByOwnSamples("box")
                     /\ angleDelta' # angleDelta => JudgedByOwnSamples("rotate")
                     /\ scaleDelta' # scaleDelta => JudgedByOwnSamples("scale")
<1>1. ASSUME IInv, [Next]_vars PROVE [Change]_vars
  <2> USE <1>1
  <2>1. ASSUME NEW ratio \in {0, 1}, UpdateInSliceThermalization(ratio),
               NEW move \in Moves, move = AdaptingWhat,
               Due(AddValue(accRatioLocal_RA[move], Sample(ratio)))
        PROVE  JudgedByOwnSamples(move)
    <3> DEFINE new  == AddValue(accRatioLocal_RA[move], Sample(ratio))
               N    == AccRatioAdjustmentSamples
    <3>1. /\ accRatioLocal_RA' = [accRatioLocal_RA EXCEPT ![move] = new]
          /\ IsAverage(new) /\ new.samplesAdded = Added(move) + 1 /\ Added(move) \in Nat
          /\ Added(move) % N = N - 1
          /\ \A back \in 0..(Added(move) % N) : new.values[Len(new.values) - back].steps = InForce(move)
      BY <2>1, SampleTaken
    <3>2. ProposedMoves = ProposedWith(move) /\ move \in ProposedMoves
      BY <2>1, WhoseTurn DEF IInv, Ranges, Methods, ProposedWith, AdaptingWhat
    <3>3. N \in Nat \ {0}
      BY ParametersAssumption
    <3> HIDE DEF new
    <3>4. Added(move) + 1 >= N
      <4>1. PICK n \in Nat : n = Added(move) /\ n % N = N - 1
        BY <3>1
      <4>2. CASE n < N
        BY <3>3, <4>1, <4>2
      <4>3. CASE n >= N
        BY <3>3, <4>1, <4>3
      <4> QED
        BY <3>3, <4>1, <4>2, <4>3
    <3>5. Len(new.values) = N
      BY <3>1, <3>3, <3>4 DEF IsAverage
    <3>6. accRatioLocal_RA'[move] = new
      BY <3>1 DEF IInv, Ranges
    <3>7. ASSUME NEW i \in 1..N PROVE new.values[i].steps = [other \in ProposedMoves |-> StepSize(other)]
      <4>1. N - i \in 0..(Added(move) % N) /\ N - (N - i) = i
        BY <3>1, <3>3
      <4>2. new.values[i].steps = InForce(move)
        BY <3>1, <3>5, <4>1
      <4> QED
        BY <3>2, <4>2 DEF InForce
    <3> QED
      BY <3>2, <3>5, <3>6, <3>7 DEF JudgedByOwnSamples
  <2>2. ASSUME NEW ratio \in {0, 1}, UpdateInSliceThermalization(ratio) PROVE Change
    <3> DEFINE new == AddValue(accRatioLocal_RA[AdaptingWhat], Sample(ratio))
    <3>1. /\ phiDelta' # phiDelta => Due(new) /\ AdaptingWhat = "box"
          /\ angleDelta' # angleDelta => Due(new) /\ AdaptingWhat = "rotate"
          /\ scaleDelta' # scaleDelta => Due(new) /\ AdaptingWhat = "scale"
      BY <2>2 DEF UpdateInSliceThermalization
    <3> QED
      BY <2>1, <2>2, <3>1
  <2>3. ASSUME FinishSweep PROVE Change
    BY <2>3 DEF FinishSweep, ad
  <2>4. ASSUME UNCHANGED vars PROVE [Change]_vars
    BY <2>4
  <2> QED
    BY <2>2, <2>3, <2>4 DEF Next, Thermalized
<1>2. Spec => [][Change]_vars
  BY <1>1, AdjustmentInvariant, PTL DEF Spec
<1> QED
  BY <1>2 DEF ChangedByOwnSamples
=============================================================================
